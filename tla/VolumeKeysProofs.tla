-------------------------- MODULE VolumeKeysProofs --------------------------
(***************************************************************************)
(* What enclavia-crypto keeps of the volume's keys, for every number of    *)
(* images, keys, slots and passphrases.                                    *)
(***************************************************************************)
EXTENDS VolumeKeys, TLAPS

\* The blob never remembers its own key as the one to retire, and no key a blob
\* in use names is scheduled for deletion.
KeysInv ==
    /\ blob.key # blob.prev
    /\ blob.key \notin deleted
    /\ stash # NoStash => /\ up # NoImage
                          /\ stash.pre.key # stash.pre.prev
                          /\ stash.pre.key \notin deleted

\* A running image opened the volume with the passphrase of the blob, or of the
\* blob it would go back to, and that blob's key is gated to it.
RunningInv ==
    up # NoImage =>
        /\ opened # NoPass
        /\ Opens(opened)
        /\ stash = NoStash => opened = blob.ct /\ Gate[blob.key] = up
        /\ stash # NoStash => opened = stash.pre.ct /\ Gate[stash.pre.key] = up

\* init works on the blob as it is, but for the retired key.
BootInv ==
    job.step \in {"unsealed", "retired", "open"} =>
        /\ up = NoImage
        /\ stash = NoStash
        /\ job.image \in Images
        /\ Gate[blob.key] = job.image
        /\ job.pass = blob.ct
        /\ job.pass # NoPass
        /\ job.read.key = blob.key
        /\ job.read.ct = blob.ct
        /\ job.read.key # job.read.prev

\* prepare-upgrade has changed nothing but the staged slot until it seals.
PrepareInv ==
    job.step \in {"stashed", "added", "verified"} =>
        /\ up # NoImage
        /\ stash # NoStash
        /\ job.read = blob
        /\ stash.pre = blob
        /\ job.key \in Keys
        /\ job.key # blob.key
        /\ job.key \notin deleted
        /\ job.pass # NoPass

StagedInv ==
    job.step \in {"added", "verified"} =>
        /\ job.slot \in Slots
        /\ slots[job.slot] = job.pass
        /\ \E s \in Slots \ {job.slot} : slots[s] = blob.ct

\* revoke-upgrade works on the blob the stash kept.
RevokeInv ==
    job.step \in {"revoking", "killed"} =>
        /\ up # NoImage
        /\ stash # NoStash
        /\ job.read = stash.pre
        /\ job.pass = stash.pre.ct

IInv ==
    /\ VolumeTypeOK
    /\ KeysInv
    /\ BlobOpensVolume
    /\ RunningInv
    /\ BootInv
    /\ PrepareInv
    /\ StagedInv
    /\ RevokeInv

-----------------------------------------------------------------------------

\* The bootstrap blob over a blank volume satisfies the invariant.
LEMMA InitEstablishes == VolumeInit => IInv
  <1> SUFFICES ASSUME VolumeInit PROVE IInv
    BY Zenon
  <1> USE DEF VolumeInit, Slots, NoPass, Pass, Blobs
  <1>1. PICK k \in Keys : blob = [key |-> k, ct |-> NoPass, prev |-> NoKey]
    BY Zenon
  <1>2. VolumeTypeOK
    <2>1. blob \in Blobs
      BY <1>1, Zenon
    <2>2. job \in Jobs
      BY <2>1, Zenon DEF Jobs, Steps
    <2>3. slots \in [Slots -> Pass \cup {NoPass}] /\ 0 \in 0 .. MaxPass
      BY MaxPassAssumption, SMTT(20), Z3T(20)
    <2> QED BY <2>1, <2>2, <2>3, Zenon DEF VolumeTypeOK
  <1>3. KeysInv
    BY <1>1, NoKeyAssumption, Zenon DEF KeysInv
  <1>4. BlobOpensVolume
    BY Zenon DEF BlobOpensVolume, Blank
  <1>5. RunningInv /\ BootInv /\ PrepareInv /\ StagedInv /\ RevokeInv
    BY Zenon DEF RunningInv, BootInv, PrepareInv, StagedInv, RevokeInv
  <1> QED BY <1>2, <1>3, <1>4, <1>5, Zenon DEF IInv

-----------------------------------------------------------------------------
(* One lemma per action.                                                      *)

\* init's policy check and unsealing (or first-boot sealing) of the passphrase.
LEMMA InitUnsealKeeps ==
    ASSUME IInv, NEW image \in Images, InitUnseal(image)
    PROVE  IInv'
  <1> USE DEF InitUnseal, At
  <1>1. stash = NoStash
    BY Zenon DEF IInv, KeysInv
  <1>2. CASE blob.ct = NoPass
    <2>1. /\ issued \in Nat /\ issued < MaxPass /\ issued' = issued + 1
          /\ issued + 1 \in Pass /\ issued + 1 # NoPass
      BY <1>2, MaxPassAssumption, SMTT(20), Z3T(20) DEF IInv, VolumeTypeOK, Pass, NoPass
    <2> DEFINE sealed == [blob EXCEPT !.ct = issued + 1]
    <2>2. /\ sealed \in Blobs /\ sealed.key = blob.key /\ sealed.ct = issued + 1
          /\ sealed.prev = blob.prev
      BY <2>1, Zenon DEF IInv, VolumeTypeOK, Blobs
    <2>3. PICK landed, acked \in BOOLEAN :
            /\ acked => landed
            /\ blob' = IF landed THEN sealed ELSE blob
            /\ job' = IF acked
                      THEN [job EXCEPT !.step = "unsealed", !.image = image, !.pass = issued + 1,
                                       !.read = sealed]
                      ELSE job
      BY <1>2, Zenon DEF MetaPut
    <2> HIDE DEF sealed
    <2>4. VolumeTypeOK'
      <3>1. job' \in Jobs
        BY <2>1, <2>2, <2>3, Zenon DEF IInv, VolumeTypeOK, Jobs, Steps
      <3>2. blob' \in Blobs
        BY <2>2, <2>3, Zenon DEF IInv, VolumeTypeOK
      <3>3. issued' \in 0 .. MaxPass
        BY <2>1, MaxPassAssumption, SMTT(20), Z3T(20)
      <3> QED BY <3>1, <3>2, <3>3, Zenon DEF IInv, VolumeTypeOK
    <2>5. KeysInv'
      BY <1>1, <2>2, <2>3, Zenon DEF IInv, KeysInv
    <2>6. BlobOpensVolume'
      <3>1. torn \/ Blank
        BY <1>2, Zenon DEF IInv, BlobOpensVolume
      <3> QED BY <3>1, Zenon DEF BlobOpensVolume, Blank
    <2>7. RunningInv' /\ PrepareInv' /\ StagedInv' /\ RevokeInv'
      BY <2>3, Zenon DEF IInv, VolumeTypeOK, Jobs, RunningInv, PrepareInv, StagedInv, RevokeInv
    <2>8. BootInv'
      BY <1>1, <2>1, <2>2, <2>3, Zenon DEF IInv, VolumeTypeOK, Jobs, KeysInv, BootInv
    <2> QED BY <2>4, <2>5, <2>6, <2>7, <2>8, Zenon DEF IInv
  <1>3. CASE blob.ct # NoPass
    <2>1. /\ job' = [job EXCEPT !.step = "unsealed", !.image = image, !.pass = blob.ct,
                                !.read = blob]
          /\ UNCHANGED <<slots, blob, stash, deleted, up, opened, issued, torn>>
      BY <1>3, Zenon
    <2>2. VolumeTypeOK'
      <3>1. job \in Jobs /\ blob \in Blobs /\ blob.ct \in Pass \cup {NoPass}
        BY Zenon DEF IInv, VolumeTypeOK, Blobs
      <3>2. job' \in Jobs
        BY <2>1, <3>1, Zenon DEF Jobs, Steps
      <3> QED BY <2>1, <3>2, Zenon DEF IInv, VolumeTypeOK
    <2>3. KeysInv' /\ BlobOpensVolume' /\ RunningInv'
      BY <2>1, SMTT(20), Z3T(20) DEF IInv, KeysInv, BlobOpensVolume, Blank, Opens, RunningInv
    <2>4. BootInv' /\ PrepareInv' /\ StagedInv' /\ RevokeInv'
      BY <1>1, <1>3, <2>1, Zenon DEF IInv, VolumeTypeOK, Jobs, KeysInv, BootInv, PrepareInv,
         StagedInv, RevokeInv
    <2> QED BY <2>2, <2>3, <2>4, Zenon DEF IInv
  <1> QED BY <1>2, <1>3, Zenon

\* What Goto leaves of an invocation's locals.
LEMMA GotoKeeps ==
    ASSUME VolumeTypeOK, NEW step \in Steps, Goto(step)
    PROVE  /\ job' \in Jobs
           /\ job'.step = step
           /\ job'.image = job.image /\ job'.read = job.read /\ job'.pass = job.pass
           /\ job'.slot = job.slot /\ job'.key = job.key
  BY Zenon DEF VolumeTypeOK, Jobs, Goto

\* init scheduling the previous KMS key's deletion, or failing to.
LEMMA InitRetireKeeps ==
    ASSUME IInv, InitRetire
    PROVE  IInv'
  <1>1. /\ job.step = "unsealed"
        /\ UNCHANGED <<slots, blob, stash, up, opened, issued, torn>>
    BY Zenon DEF InitRetire, At
  <1>2. PICK next \in {"retired", "open"} : Goto(next)
    BY Zenon DEF InitRetire
  <1>3. deleted' \subseteq deleted \cup ({job.read.prev} \ {NoKey})
    BY Zenon DEF InitRetire
  <1>4. /\ job' \in Jobs /\ job'.step = next /\ job'.image = job.image
        /\ job'.read = job.read /\ job'.pass = job.pass
    BY <1>2, GotoKeeps, Zenon DEF IInv, Steps
  <1>5. /\ up = NoImage /\ stash = NoStash /\ job.read.key = blob.key
        /\ job.read.key # job.read.prev
    BY <1>1, Zenon DEF IInv, BootInv
  <1>6. job.read.prev \in Keys \cup {NoKey}
    BY Zenon DEF IInv, VolumeTypeOK, Jobs, Blobs
  <1>7. VolumeTypeOK'
    BY <1>1, <1>3, <1>4, <1>6, Zenon DEF IInv, VolumeTypeOK
  <1>8. KeysInv'
    BY <1>1, <1>3, <1>5, Zenon DEF IInv, KeysInv
  <1>9. BlobOpensVolume' /\ RunningInv'
    BY <1>1, <1>5, Zenon DEF IInv, BlobOpensVolume, Blank, Opens, RunningInv
  <1>10. BootInv' /\ PrepareInv' /\ StagedInv' /\ RevokeInv'
    BY <1>1, <1>4, Zenon DEF IInv, BootInv, PrepareInv, StagedInv, RevokeInv
  <1> QED BY <1>7, <1>8, <1>9, <1>10, Zenon DEF IInv

\* init dropping the deleted key from the blob, written or not.
LEMMA InitForgetPrevKeeps ==
    ASSUME IInv, InitForgetPrev
    PROVE  IInv'
  <1>1. /\ job.step = "retired"
        /\ UNCHANGED <<slots, stash, deleted, up, opened, issued, torn>>
    BY Zenon DEF InitForgetPrev, At
  <1> DEFINE kept == [job.read EXCEPT !.prev = NoKey]
  <1>2. PICK next \in {"open", "idle"} : Goto(next) /\ blob' \in {kept, blob}
    BY Zenon DEF InitForgetPrev, MetaPut
  <1>3. /\ up = NoImage /\ stash = NoStash /\ job.read.key = blob.key
        /\ job.read.ct = blob.ct
    BY <1>1, Zenon DEF IInv, BootInv
  <1>4. kept \in Blobs /\ kept.key = blob.key /\ kept.ct = blob.ct /\ kept.prev = NoKey
    BY <1>3, Zenon DEF IInv, VolumeTypeOK, Jobs, Blobs
  <1> HIDE DEF kept
  <1>5. /\ blob' \in Blobs /\ blob'.key = blob.key /\ blob'.ct = blob.ct
        /\ blob'.key # blob'.prev
    BY <1>2, <1>4, NoKeyAssumption, Zenon DEF IInv, VolumeTypeOK, Blobs, KeysInv
  <1>6. /\ job' \in Jobs /\ job'.step = next /\ job'.image = job.image
        /\ job'.read = job.read /\ job'.pass = job.pass
    BY <1>2, GotoKeeps, Zenon DEF IInv, Steps
  <1>7. VolumeTypeOK'
    BY <1>1, <1>5, <1>6, Zenon DEF IInv, VolumeTypeOK
  <1>8. KeysInv'
    BY <1>1, <1>3, <1>5, Zenon DEF IInv, KeysInv
  <1>9. BlobOpensVolume' /\ RunningInv'
    BY <1>1, <1>3, <1>5, Zenon DEF IInv, BlobOpensVolume, Blank, Opens, RunningInv
  <1>10. BootInv' /\ PrepareInv' /\ StagedInv' /\ RevokeInv'
    BY <1>1, <1>5, <1>6, Zenon DEF IInv, BootInv, PrepareInv, StagedInv, RevokeInv
  <1> QED BY <1>7, <1>8, <1>9, <1>10, Zenon DEF IInv

\* The init script formatting a blank volume or opening it.
LEMMA InitOpenKeeps ==
    ASSUME IInv, InitOpen
    PROVE  IInv'
  <1>1. /\ job.step = "open"
        /\ Goto("idle")
        /\ UNCHANGED <<blob, stash, deleted, issued, torn>>
    BY Zenon DEF InitOpen, At
  <1>2. /\ up = NoImage /\ stash = NoStash /\ job.image \in Images
        /\ Gate[blob.key] = job.image /\ job.pass = blob.ct /\ job.pass # NoPass
    BY <1>1, Zenon DEF IInv, BootInv
  <1>3. job' \in Jobs /\ job'.step = "idle"
    BY <1>1, GotoKeeps, Zenon DEF IInv, Steps
  <1>4. BootInv' /\ PrepareInv' /\ StagedInv' /\ RevokeInv' /\ KeysInv'
    BY <1>1, <1>2, <1>3, Zenon DEF IInv, BootInv, PrepareInv, StagedInv, RevokeInv, KeysInv
  <1>5. CASE Blank \/ Opens(job.pass)
    <2>1. /\ slots' = IF Blank THEN [slots EXCEPT ![0] = job.pass] ELSE slots
          /\ up' = job.image /\ opened' = job.pass
      BY <1>5, Zenon DEF InitOpen
    <2>2. /\ slots \in [Slots -> Pass \cup {NoPass}] /\ 0 \in Slots
          /\ job.pass \in Pass \cup {NoPass}
      BY MaxSlotAssumption, SMTT(20), Z3T(20) DEF IInv, VolumeTypeOK, Jobs, Slots
    <2>3. slots' \in [Slots -> Pass \cup {NoPass}] /\ Opens(job.pass)'
      <3>1. CASE Blank
        <4>1. slots' = [slots EXCEPT ![0] = job.pass]
          BY <2>1, <3>1, Zenon
        <4>2. job'.pass = job.pass
          BY <1>1, GotoKeeps, Zenon DEF IInv, Steps
        <4> QED BY <2>2, <4>1, <4>2, Zenon DEF Opens
      <3>2. CASE ~Blank
        <4>1. job'.pass = job.pass /\ slots' = slots /\ Opens(job.pass)
          BY <1>1, <1>5, <2>1, <3>2, GotoKeeps, Zenon DEF IInv, Steps
        <4> QED BY <2>2, <4>1, Zenon DEF Opens
      <3> QED BY <3>1, <3>2, Zenon
    <2>4. job'.pass = job.pass
      BY <1>1, GotoKeeps, Zenon DEF IInv, Steps
    <2>5. VolumeTypeOK'
      BY <1>1, <1>2, <1>3, <2>1, <2>2, <2>3, Zenon DEF IInv, VolumeTypeOK
    <2>6. RunningInv' /\ BlobOpensVolume'
      BY <1>1, <1>2, <2>1, <2>3, <2>4, Zenon DEF RunningInv, BlobOpensVolume, Opens
    <2> QED BY <1>4, <2>5, <2>6, Zenon DEF IInv
  <1>6. CASE ~Blank /\ ~Opens(job.pass)
    <2>1. UNCHANGED <<slots, up, opened>>
      BY <1>6, Zenon DEF InitOpen
    <2>2. VolumeTypeOK' /\ RunningInv' /\ BlobOpensVolume'
      BY <1>1, <1>2, <1>3, <2>1, Zenon DEF IInv, VolumeTypeOK, RunningInv, BlobOpensVolume,
         Blank, Opens
    <2> QED BY <1>4, <2>2, Zenon DEF IInv
  <1> QED BY <1>5, <1>6, Zenon

\* prepare_upgrade picking its slot and writing the rollback stash.
LEMMA PrepareStashKeeps ==
    ASSUME IInv, NEW k \in Keys, NEW to \in Images, PrepareStash(k, to)
    PROVE  IInv'
  <1>1. /\ up # NoImage /\ job.step = "idle" /\ stash = NoStash
        /\ k # blob.key /\ k \notin deleted /\ blob.ct # NoPass
        /\ issued < MaxPass /\ issued' = issued + 1
        /\ UNCHANGED <<slots, blob, deleted, up, opened, torn>>
    BY Zenon DEF PrepareStash, CanPrepare, At
  <1>2. PICK n \in 0 .. MaxSlot + 1 :
          /\ stash' = [pre |-> blob, slot |-> n]
          /\ job' = [job EXCEPT !.step = "stashed", !.read = blob, !.pass = issued + 1,
                                !.slot = n, !.key = k]
    BY Zenon DEF PrepareStash
  <1>3. n \in Nat /\ issued \in Nat /\ issued + 1 \in Pass /\ issued + 1 # NoPass
    BY <1>1, MaxSlotAssumption, MaxPassAssumption, SMTT(20), Z3T(20) DEF IInv, VolumeTypeOK,
       Pass, NoPass
  <1>4. /\ blob \in Blobs /\ stash' \in Stashes /\ stash' # NoStash /\ stash'.pre = blob
    BY <1>2, <1>3, NoStashAssumption, SMTT(20), Z3T(20) DEF IInv, VolumeTypeOK, Stashes
  <1>5. /\ job' \in Jobs /\ job'.step = "stashed" /\ job'.read = blob
        /\ job'.pass = issued + 1 /\ job'.key = k
    BY <1>2, <1>3, <1>4, Zenon DEF IInv, VolumeTypeOK, Jobs, Steps
  <1>6. VolumeTypeOK'
    BY <1>1, <1>3, <1>4, <1>5, MaxPassAssumption, SMTT(20), Z3T(20) DEF IInv, VolumeTypeOK
  <1>7. KeysInv' /\ RunningInv'
    BY <1>1, <1>4, Zenon DEF IInv, KeysInv, RunningInv, Opens
  <1>8. BlobOpensVolume'
    BY <1>1, Zenon DEF IInv, BlobOpensVolume, Blank, Opens
  <1>9. BootInv' /\ PrepareInv' /\ StagedInv' /\ RevokeInv'
    BY <1>1, <1>3, <1>4, <1>5, Zenon DEF BootInv, PrepareInv, StagedInv, RevokeInv
  <1> QED BY <1>6, <1>7, <1>8, <1>9, Zenon DEF IInv

\* prepare_upgrade's luksAddKey, succeeding or failing.
LEMMA PrepareAddKeeps ==
    ASSUME IInv, PrepareAdd
    PROVE  IInv'
  <1>1. /\ job.step = "stashed"
        /\ UNCHANGED <<blob, deleted, up, opened, issued, torn>>
    BY Zenon DEF PrepareAdd, At
  <1>2. /\ up # NoImage /\ stash # NoStash /\ job.read = blob /\ stash.pre = blob
        /\ job.pass # NoPass /\ job.key \in Keys /\ job.key # blob.key /\ job.key \notin deleted
    BY <1>1, Zenon DEF IInv, PrepareInv
  <1>3. opened = blob.ct /\ opened # NoPass /\ Opens(opened) /\ Gate[blob.key] = up
    BY <1>2, Zenon DEF IInv, RunningInv
  <1>4. CASE /\ job.slot \in Slots /\ slots[job.slot] = NoPass
             /\ slots' = [slots EXCEPT ![job.slot] = job.pass]
             /\ Goto("added") /\ UNCHANGED stash
    <2>1. /\ job' \in Jobs /\ job'.step = "added" /\ job'.read = job.read
          /\ job'.pass = job.pass /\ job'.slot = job.slot /\ job'.key = job.key
      BY <1>4, GotoKeeps, Zenon DEF IInv, Steps
    <2>2. /\ slots' \in [Slots -> Pass \cup {NoPass}]
          /\ slots'[job.slot] = job.pass
          /\ \A s \in Slots \ {job.slot} : slots'[s] = slots[s]
      BY <1>4, Zenon DEF IInv, VolumeTypeOK, Jobs
    <2>3. PICK s \in Slots \ {job.slot} : slots[s] = blob.ct
      BY <1>3, <1>4, Zenon DEF Opens
    <2>4. VolumeTypeOK'
      BY <1>1, <1>4, <2>1, <2>2, Zenon DEF IInv, VolumeTypeOK
    <2>5. KeysInv' /\ BootInv' /\ PrepareInv' /\ RevokeInv'
      BY <1>1, <1>2, <1>4, <2>1, Zenon DEF IInv, KeysInv, BootInv, PrepareInv, RevokeInv
    <2>6. StagedInv'
      BY <1>1, <1>4, <2>1, <2>2, <2>3, Zenon DEF StagedInv
    <2>7. RunningInv' /\ BlobOpensVolume'
      BY <1>1, <1>2, <1>3, <1>4, <2>2, <2>3, Zenon DEF RunningInv, BlobOpensVolume, Opens
    <2> QED BY <2>4, <2>5, <2>6, <2>7, Zenon DEF IInv
  <1>5. CASE stash' \in {NoStash, stash} /\ Goto("idle") /\ UNCHANGED slots
    <2>1. job' \in Jobs /\ job'.step = "idle"
      BY <1>5, GotoKeeps, Zenon DEF IInv, Steps
    <2>2. VolumeTypeOK'
      BY <1>1, <1>5, <2>1, Zenon DEF IInv, VolumeTypeOK
    <2>3. KeysInv' /\ BootInv' /\ PrepareInv' /\ StagedInv' /\ RevokeInv'
      BY <1>1, <1>2, <1>5, <2>1, Zenon DEF IInv, KeysInv, BootInv, PrepareInv, StagedInv,
         RevokeInv
    <2>4. RunningInv' /\ BlobOpensVolume'
      BY <1>1, <1>2, <1>3, <1>5, Zenon DEF RunningInv, BlobOpensVolume, Opens
    <2> QED BY <2>2, <2>3, <2>4, Zenon DEF IInv
  <1> QED BY <1>4, <1>5, Zenon DEF PrepareAdd

\* prepare_upgrade testing the new slot, and killing it when the test fails.
LEMMA PrepareVerifyKeeps ==
    ASSUME IInv, PrepareVerify
    PROVE  IInv'
  <1>1. /\ job.step = "added"
        /\ UNCHANGED <<blob, deleted, up, opened, issued, torn>>
    BY Zenon DEF PrepareVerify, At
  <1>2. /\ up # NoImage /\ stash # NoStash /\ job.read = blob /\ stash.pre = blob
        /\ job.pass # NoPass /\ job.key \in Keys /\ job.key # blob.key /\ job.key \notin deleted
    BY <1>1, Zenon DEF IInv, PrepareInv
  <1>3. opened = blob.ct /\ opened # NoPass /\ Gate[blob.key] = up
    BY <1>2, Zenon DEF IInv, RunningInv
  <1>4. job.slot \in Slots /\ slots[job.slot] = job.pass
    BY <1>1, Zenon DEF IInv, StagedInv
  <1>5. PICK s \in Slots \ {job.slot} : slots[s] = blob.ct
    BY <1>1, Zenon DEF IInv, StagedInv
  <1>6. CASE Goto("verified") /\ UNCHANGED <<slots, stash>>
    <2>1. /\ job' \in Jobs /\ job'.step = "verified" /\ job'.read = job.read
          /\ job'.pass = job.pass /\ job'.slot = job.slot /\ job'.key = job.key
      BY <1>6, GotoKeeps, Zenon DEF IInv, Steps
    <2>2. VolumeTypeOK'
      BY <1>1, <1>6, <2>1, Zenon DEF IInv, VolumeTypeOK
    <2>3. KeysInv' /\ BootInv' /\ PrepareInv' /\ RevokeInv'
      BY <1>1, <1>2, <1>6, <2>1, Zenon DEF IInv, KeysInv, BootInv, PrepareInv, RevokeInv
    <2>4. StagedInv'
      BY <1>1, <1>4, <1>5, <1>6, <2>1, Zenon DEF StagedInv
    <2>5. RunningInv' /\ BlobOpensVolume'
      BY <1>1, <1>2, <1>3, <1>5, <1>6, Zenon DEF RunningInv, BlobOpensVolume, Opens
    <2> QED BY <2>2, <2>3, <2>4, <2>5, Zenon DEF IInv
  <1>7. CASE /\ slots' \in {slots, [slots EXCEPT ![job.slot] = NoPass]}
             /\ stash' \in {NoStash, stash}
             /\ Goto("idle")
    <2>1. job' \in Jobs /\ job'.step = "idle"
      BY <1>7, GotoKeeps, Zenon DEF IInv, Steps
    <2>2. slots' \in [Slots -> Pass \cup {NoPass}] /\ slots'[s] = slots[s]
      BY <1>4, <1>7, Zenon DEF IInv, VolumeTypeOK
    <2>3. VolumeTypeOK'
      BY <1>1, <1>7, <2>1, <2>2, Zenon DEF IInv, VolumeTypeOK
    <2>4. KeysInv' /\ BootInv' /\ PrepareInv' /\ StagedInv' /\ RevokeInv'
      BY <1>1, <1>2, <1>7, <2>1, Zenon DEF IInv, KeysInv, BootInv, PrepareInv, StagedInv,
         RevokeInv
    <2>5. RunningInv' /\ BlobOpensVolume'
      BY <1>1, <1>2, <1>3, <1>5, <1>7, <2>2, Zenon DEF RunningInv, BlobOpensVolume, Opens
    <2> QED BY <2>3, <2>4, <2>5, Zenon DEF IInv
  <1> QED BY <1>6, <1>7, Zenon DEF PrepareVerify

\* prepare_upgrade resealing the blob under the new key.
LEMMA PrepareSealKeeps ==
    ASSUME IInv, PrepareSeal
    PROVE  IInv'
  <1>1. /\ job.step = "verified"
        /\ Goto("idle")
        /\ UNCHANGED <<slots, stash, deleted, up, opened, issued, torn>>
    BY Zenon DEF PrepareSeal, At
  <1>2. /\ up # NoImage /\ stash # NoStash /\ job.read = blob /\ stash.pre = blob
        /\ job.pass # NoPass /\ job.key \in Keys /\ job.key # blob.key /\ job.key \notin deleted
    BY <1>1, Zenon DEF IInv, PrepareInv
  <1>3. job.slot \in Slots /\ slots[job.slot] = job.pass
    BY <1>1, Zenon DEF IInv, StagedInv
  <1> DEFINE sealed == [key |-> job.key, ct |-> job.pass, prev |-> job.read.key]
  <1>4. blob' \in {sealed, blob}
    BY Zenon DEF PrepareSeal, MetaPut
  <1>5. job' \in Jobs /\ job'.step = "idle"
    BY <1>1, GotoKeeps, Zenon DEF IInv, Steps
  <1>6. /\ sealed \in Blobs /\ sealed.key = job.key /\ sealed.ct = job.pass
        /\ sealed.prev = blob.key
    BY <1>2, Zenon DEF IInv, VolumeTypeOK, Jobs, Blobs
  <1> HIDE DEF sealed
  <1>7. VolumeTypeOK'
    BY <1>1, <1>4, <1>5, <1>6, Zenon DEF IInv, VolumeTypeOK
  <1>8. KeysInv'
    BY <1>1, <1>2, <1>4, <1>6, Zenon DEF IInv, KeysInv
  <1>9. BlobOpensVolume'
    BY <1>1, <1>2, <1>3, <1>4, <1>6, Zenon DEF IInv, BlobOpensVolume, Blank, Opens
  <1>10. RunningInv'
    BY <1>1, <1>2, Zenon DEF IInv, RunningInv, Opens
  <1>11. BootInv' /\ PrepareInv' /\ StagedInv' /\ RevokeInv'
    BY <1>5, Zenon DEF BootInv, PrepareInv, StagedInv, RevokeInv
  <1> QED BY <1>7, <1>8, <1>9, <1>10, <1>11, Zenon DEF IInv

\* revoke_upgrade reading the stash and unsealing the old passphrase.
LEMMA RevokeUnsealKeeps ==
    ASSUME IInv, RevokeUnseal
    PROVE  IInv'
  <1>1. /\ up # NoImage /\ stash # NoStash
        /\ job' = [job EXCEPT !.step = "revoking", !.read = stash.pre, !.pass = stash.pre.ct,
                              !.slot = stash.slot]
        /\ UNCHANGED <<slots, blob, stash, deleted, up, opened, issued, torn>>
    BY Zenon DEF RevokeUnseal, CanRevoke
  <1>2. stash \in Stashes
    BY <1>1, Zenon DEF IInv, VolumeTypeOK
  <1>3. /\ job' \in Jobs /\ job'.step = "revoking" /\ job'.read = stash.pre
        /\ job'.pass = stash.pre.ct
    BY <1>1, <1>2, Zenon DEF IInv, VolumeTypeOK, Jobs, Steps, Stashes, Blobs
  <1>4. VolumeTypeOK'
    BY <1>1, <1>3, Zenon DEF IInv, VolumeTypeOK
  <1>5. KeysInv' /\ BlobOpensVolume' /\ RunningInv'
    BY <1>1, Zenon DEF IInv, KeysInv, BlobOpensVolume, Blank, Opens, RunningInv
  <1>6. BootInv' /\ PrepareInv' /\ StagedInv' /\ RevokeInv'
    BY <1>1, <1>3, Zenon DEF BootInv, PrepareInv, StagedInv, RevokeInv
  <1> QED BY <1>4, <1>5, <1>6, Zenon DEF IInv

\* revoke_upgrade's live-slot guard and luksKillSlot.
LEMMA RevokeKillKeeps ==
    ASSUME IInv, RevokeKill
    PROVE  IInv'
  <1>1. /\ job.step = "revoking"
        /\ UNCHANGED <<blob, stash, deleted, up, opened, issued>>
    BY Zenon DEF RevokeKill, At
  <1>2. up # NoImage /\ stash # NoStash /\ job.read = stash.pre /\ job.pass = stash.pre.ct
    BY <1>1, Zenon DEF IInv, RevokeInv
  <1>3. opened = job.pass /\ opened # NoPass
    BY <1>2, Zenon DEF IInv, RunningInv
  <1>4. CASE /\ job.slot \in Slots
             /\ \E s \in Slots \ {job.slot} : slots[s] = job.pass
             /\ slots' = [slots EXCEPT ![job.slot] = NoPass]
             /\ torn' = (torn \/ blob.ct = slots[job.slot])
             /\ Goto("killed")
    <2>1. /\ job' \in Jobs /\ job'.step = "killed" /\ job'.read = job.read
          /\ job'.pass = job.pass
      BY <1>4, GotoKeeps, Zenon DEF IInv, Steps
    <2>2. /\ slots' \in [Slots -> Pass \cup {NoPass}] /\ torn' \in BOOLEAN
          /\ \A s \in Slots \ {job.slot} : slots'[s] = slots[s]
      BY <1>4, Zenon DEF IInv, VolumeTypeOK
    <2>3. VolumeTypeOK'
      BY <1>1, <2>1, <2>2, Zenon DEF IInv, VolumeTypeOK
    <2>4. KeysInv' /\ BootInv' /\ PrepareInv' /\ StagedInv' /\ RevokeInv'
      BY <1>1, <1>2, <2>1, Zenon DEF IInv, KeysInv, BootInv, PrepareInv, StagedInv, RevokeInv
    <2>5. RunningInv'
      BY <1>1, <1>2, <1>3, <1>4, <2>2, Zenon DEF IInv, RunningInv, Opens
    <2>6. BlobOpensVolume'
      <3>1. CASE torn'
        BY <3>1, Zenon DEF BlobOpensVolume
      <3>2. CASE ~torn'
        <4>1. ~torn /\ blob.ct # slots[job.slot]
          BY <1>4, <3>2, Zenon
        <4>2. ~Blank
          BY <1>3, <1>4, Zenon DEF Blank
        <4> QED BY <1>1, <1>4, <2>2, <4>1, <4>2, Zenon DEF IInv, BlobOpensVolume, Opens
      <3> QED BY <3>1, <3>2, Zenon
    <2> QED BY <2>3, <2>4, <2>5, <2>6, Zenon DEF IInv
  <1>5. CASE Goto("idle") /\ UNCHANGED <<slots, torn>>
    <2>1. job' \in Jobs /\ job'.step = "idle"
      BY <1>5, GotoKeeps, Zenon DEF IInv, Steps
    <2>2. VolumeTypeOK'
      BY <1>1, <1>5, <2>1, Zenon DEF IInv, VolumeTypeOK
    <2>3. KeysInv' /\ BlobOpensVolume' /\ RunningInv'
      BY <1>1, <1>5, Zenon DEF IInv, KeysInv, BlobOpensVolume, Blank, Opens, RunningInv
    <2>4. BootInv' /\ PrepareInv' /\ StagedInv' /\ RevokeInv'
      BY <2>1, Zenon DEF BootInv, PrepareInv, StagedInv, RevokeInv
    <2> QED BY <2>2, <2>3, <2>4, Zenon DEF IInv
  <1> QED BY <1>4, <1>5, Zenon DEF RevokeKill

\* revoke_upgrade restoring the blob and removing the stash.
LEMMA RevokeRestoreKeeps ==
    ASSUME IInv, RevokeRestore
    PROVE  IInv'
  <1>1. /\ job.step = "killed"
        /\ Goto("idle")
        /\ UNCHANGED <<slots, deleted, up, opened, issued>>
    BY Zenon DEF RevokeRestore, At
  <1>2. up # NoImage /\ stash # NoStash /\ job.read = stash.pre /\ job.pass = stash.pre.ct
    BY <1>1, Zenon DEF IInv, RevokeInv
  <1>3. opened = job.pass /\ opened # NoPass /\ Opens(opened) /\ Gate[stash.pre.key] = up
    BY <1>2, Zenon DEF IInv, RunningInv
  <1>4. stash \in Stashes /\ stash.pre \in Blobs
    BY <1>2, Zenon DEF IInv, VolumeTypeOK, Stashes
  <1>5. PICK landed, acked, removed \in BOOLEAN :
          /\ acked => landed
          /\ removed => acked
          /\ blob' = IF landed THEN stash.pre ELSE blob
          /\ torn' = (torn /\ ~landed)
          /\ stash' = IF removed THEN NoStash ELSE stash
    BY <1>2, <1>3, Zenon DEF RevokeRestore, MetaPut
  <1>6. job' \in Jobs /\ job'.step = "idle"
    BY <1>1, GotoKeeps, Zenon DEF IInv, Steps
  <1>7. VolumeTypeOK'
    BY <1>1, <1>4, <1>5, <1>6, Zenon DEF IInv, VolumeTypeOK
  <1>8. KeysInv'
    BY <1>1, <1>2, <1>5, Zenon DEF IInv, KeysInv
  <1>9. RunningInv'
    BY <1>1, <1>2, <1>3, <1>5, Zenon DEF RunningInv, Opens
  <1>10. BlobOpensVolume'
    <2>1. CASE landed
      BY <1>1, <1>2, <1>3, <1>5, <2>1, Zenon DEF BlobOpensVolume, Opens
    <2>2. CASE ~landed
      BY <1>1, <1>5, <2>2, Zenon DEF IInv, VolumeTypeOK, BlobOpensVolume, Blank, Opens
    <2> QED BY <2>1, <2>2, Zenon
  <1>11. BootInv' /\ PrepareInv' /\ StagedInv' /\ RevokeInv'
    BY <1>6, Zenon DEF BootInv, PrepareInv, StagedInv, RevokeInv
  <1> QED BY <1>7, <1>8, <1>9, <1>10, <1>11, Zenon DEF IInv

\* The enclave dying at any point, its tmpfs with it.
LEMMA CrashKeeps ==
    ASSUME IInv, Crash
    PROVE  IInv'
  <1>1. /\ up' = NoImage /\ opened' = NoPass /\ stash' = NoStash /\ Goto("idle")
        /\ UNCHANGED <<slots, blob, deleted, issued, torn>>
    BY Zenon DEF Crash
  <1>2. job' \in Jobs /\ job'.step = "idle"
    BY <1>1, GotoKeeps, Zenon DEF IInv, Steps
  <1>3. VolumeTypeOK'
    BY <1>1, <1>2, Zenon DEF IInv, VolumeTypeOK
  <1>4. KeysInv' /\ BlobOpensVolume' /\ RunningInv'
    BY <1>1, Zenon DEF IInv, KeysInv, BlobOpensVolume, Blank, Opens, RunningInv
  <1>5. BootInv' /\ PrepareInv' /\ StagedInv' /\ RevokeInv'
    BY <1>2, Zenon DEF BootInv, PrepareInv, StagedInv, RevokeInv
  <1> QED BY <1>3, <1>4, <1>5, Zenon DEF IInv

\* No step of enclavia-crypto, of the init script or of a crash leaves the
\* invariant.
LEMMA NextKeeps == IInv /\ [VolumeNext]_volumeVars => IInv'
  <1> SUFFICES ASSUME IInv, [VolumeNext]_volumeVars PROVE IInv'
    BY Zenon
  <1>1. CASE UNCHANGED volumeVars
    BY <1>1, Zenon
    DEF volumeVars, IInv, VolumeTypeOK, KeysInv, BlobOpensVolume, Blank, Opens, RunningInv,
        BootInv, PrepareInv, StagedInv, RevokeInv
  <1>2. CASE VolumeNext
    BY <1>2, InitUnsealKeeps, InitRetireKeeps, InitForgetPrevKeeps, InitOpenKeeps,
       PrepareStashKeeps, PrepareAddKeeps, PrepareVerifyKeeps, PrepareSealKeeps,
       RevokeUnsealKeeps, RevokeKillKeeps, RevokeRestoreKeeps, CrashKeeps, Zenon DEF VolumeNext,
       BootSteps, PrepareSteps, RevokeSteps
  <1> QED BY <1>1, <1>2, Zenon

\* The inductive invariant of enclavia-crypto's jobs holds throughout.
THEOREM VolumeInvariant == VolumeSpec => []IInv
  BY InitEstablishes, NextKeeps, PTL DEF VolumeSpec

-----------------------------------------------------------------------------

\* The key blob keeps opening the volume, through every failed or interrupted
\* prepare-upgrade and every crash, except while a revoke is between killing the
\* staged slot and restoring the blob.
THEOREM VolumeStaysReadable == VolumeSpec => []BlobOpensVolume
  <1>1. IInv => BlobOpensVolume
    BY Zenon DEF IInv
  <1> QED BY <1>1, VolumeInvariant, PTL

\* No job kills the slot the running image opened the volume with
\* (prepare_upgrade's cleanup, revoke_upgrade's luksKillSlot).
THEOREM LiveSlotIsKept == VolumeSpec => []LiveSlotKept
  <1>1. IInv => LiveSlotKept
    BY Zenon DEF IInv, RunningInv, LiveSlotKept
  <1> QED BY <1>1, VolumeInvariant, PTL

\* While nothing is staged a running image can always come back: init's policy
\* check, KMS and the volume all still answer it.
THEOREM RunningImageCanReboot == VolumeSpec => []RebootSafe
  <1>1. IInv => RebootSafe
    BY Zenon DEF IInv, RunningInv, KeysInv, RebootSafe, CanDecrypt
  <1> QED BY <1>1, VolumeInvariant, PTL

\* init schedules the deletion of no key the blob or the rollback stash needs.
THEOREM NeededKeysSurvive == VolumeSpec => []DeletedKeyNotNeeded
  <1>1. IInv => DeletedKeyNotNeeded
    BY Zenon DEF IInv, KeysInv, DeletedKeyNotNeeded
  <1> QED BY <1>1, VolumeInvariant, PTL

\* The jobs of enclavia-crypto leave a volume that can be opened, by what is sealed
\* for it, by the running image and by the one a revoke goes back to.
THEOREM VolumeStaysSafe == VolumeSpec => []VolumeSafe
  <1>1. BlobOpensVolume /\ LiveSlotKept /\ RebootSafe /\ DeletedKeyNotNeeded => VolumeSafe
    BY Zenon DEF VolumeSafe
  <1> QED
    BY <1>1, VolumeStaysReadable, LiveSlotIsKept, RunningImageCanReboot, NeededKeysSurvive, PTL

-----------------------------------------------------------------------------
(* The well-ordering of Nat, on which inductions over a chain rest *)
LOCAL INSTANCE WellFoundedInduction

\* A set of naturals that is not empty has a least element.
LEMMA LeastNatural ==
    ASSUME NEW T \in SUBSET Nat, T # {}
    PROVE  \E x \in T : \A y \in T : x <= y
  <1> DEFINE R == {ss \in Nat \X Nat : ss[1] < ss[2]}
  <1>1. IsWellFoundedOn(R, Nat)
    BY NatLessThanWellFounded, ZenonT(30) DEF OpToRel
  <1>2. \A x, y \in Nat : y < x => <<y, x>> \in R
    <2> SUFFICES ASSUME NEW x \in Nat, NEW y \in Nat, y < x PROVE <<y, x>> \in R
      BY Zenon
    <2>1. <<y, x>> \in Nat \X Nat /\ <<y, x>>[1] = y /\ <<y, x>>[2] = x
      BY Zenon
    <2> QED BY <2>1, Zenon
  <1> HIDE DEF R
  <1>3. PICK x \in T : \A y \in T : ~ (<<y, x>> \in R)
    BY <1>1, WFMin, ZenonT(30)
  <1>4. \A y \in T : x <= y
    <2> TAKE y \in T
    <2>1. x \in Nat /\ y \in Nat /\ ~(y < x)
      BY <1>2, <1>3, ZenonT(30)
    <2> QED BY <2>1, SMTT(30), Z3T(30)
  <1> QED BY <1>4, Zenon

=============================================================================
