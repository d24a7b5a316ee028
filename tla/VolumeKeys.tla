----------------------------- MODULE VolumeKeys -----------------------------
(* enclavia-crypto: the passphrases that open an enclave's LUKS volume, the   *)
(* key blob that carries the current one sealed under a KMS key, and the two  *)
(* jobs the server runs on them: prepare-upgrade adds a slot for the next     *)
(* image and reseals the blob, revoke-upgrade undoes that.                    *)
(*                                                                            *)
(* A passphrase is a number, a ciphertext the passphrase it holds; 0 is none. *)
(* The server runs one job at a time (the backend allows one upgrade in       *)
(* flight), so the reads a job makes of what only jobs change are one step    *)
(* with the first write that follows them.  Every write to the storage host,  *)
(* KMS and the device, and every crash, is a step of its own.                 *)
EXTENDS Naturals, FiniteSets

CONSTANTS
    Images,         \* what a PCR0-2 triple identifies
    NoImage,
    Keys,           \* KMS keys the backend mints
    NoKey,
    NoStash,
    Gate,           \* Gate[k]: the image k's policy gates kms:Decrypt to, or NoImage
    MaxSlot,        \* the last LUKS keyslot
    MaxPass         \* bound: passphrases drawn in a behaviour

ASSUME NoImageAssumption == NoImage \notin Images
ASSUME NoKeyAssumption == NoKey \notin Keys
ASSUME GateAssumption == Gate \in [Keys -> Images \cup {NoImage}]
ASSUME MaxSlotAssumption == MaxSlot \in Nat
ASSUME MaxPassAssumption == MaxPass \in Nat

VARIABLES
    slots,          \* keyslot -> the passphrase it opens with
    blob,           \* the key blob on the storage host
    stash,          \* the rollback stash in tmpfs
    deleted,        \* KMS keys scheduled for deletion
    up,             \* the image that runs with the volume open
    opened,         \* the passphrase it opened the volume with
    job,            \* the enclavia-crypto invocation in progress
    issued,         \* passphrases drawn so far
    torn            \* the staged slot is dead and the blob still names it

volumeVars == <<slots, blob, stash, deleted, up, opened, job, issued, torn>>

Slots == 0 .. MaxSlot
NoPass == 0
Pass == 1 .. MaxPass

\* KeyBlob
Blobs == [key : Keys, ct : Pass \cup {NoPass}, prev : Keys \cup {NoKey}]

\* UpgradeRollbackStash
Stashes == [pre : Blobs, slot : Nat]
ASSUME NoStashAssumption == NoStash \notin Stashes

\* The locals of an invocation: the blob it read, the passphrase it drew or
\* unsealed, and the slot it works on.
Steps == {"idle", "unsealed", "retired", "open", "stashed", "added", "verified",
          "revoking", "killed"}
Jobs == [step : Steps, image : Images \cup {NoImage}, read : Blobs,
         pass : Pass \cup {NoPass}, slot : Nat, key : Keys \cup {NoKey}]

At(step) == job.step = step
Goto(step) == job' = [job EXCEPT !.step = step]

\* Some slot opens with p (luksOpen --test-passphrase with no --key-slot).
Opens(p) == \E s \in Slots : slots[s] = p
Blank == \A s \in Slots : slots[s] = NoPass

\* first_free_from_occupied: n is the lowest slot nobody holds, past the last one
\* when all are held
FirstFree(n) ==
    /\ n \in Slots => slots[n] = NoPass
    /\ \A m \in Slots : m < n => slots[m] # NoPass

\* kms_decrypt: KMS answers only the image the key's policy is gated to
CanDecrypt(key, image) == Gate[key] = image /\ key \notin deleted

\* meta_put: the write lands or not, and the host acknowledges it or not
MetaPut(new, landed) == blob' = IF landed THEN new ELSE blob

-----------------------------------------------------------------------------
(* init: the boot-time invocation, and the open that follows it               *)

\* init up to the unsealed passphrase: the policy check, then first boot draws
\* a passphrase and writes it sealed, every later boot has KMS unseal it.
InitUnseal(image) ==
    /\ up = NoImage
    /\ At("idle")
    /\ Gate[blob.key] = image
    /\ \/ /\ blob.ct = NoPass
          /\ issued < MaxPass
          /\ blob.key \notin deleted
          /\ issued' = issued + 1
          /\ \E landed, acked \in BOOLEAN :
                /\ acked => landed
                /\ MetaPut([blob EXCEPT !.ct = issued + 1], landed)
                /\ job' = IF acked
                          THEN [job EXCEPT !.step = "unsealed", !.image = image, !.pass = issued + 1,
                                           !.read = [blob EXCEPT !.ct = issued + 1]]
                          ELSE job
       \/ /\ blob.ct # NoPass
          /\ CanDecrypt(blob.key, image)
          /\ job' = [job EXCEPT !.step = "unsealed", !.image = image, !.pass = blob.ct,
                                !.read = blob]
          /\ UNCHANGED <<blob, issued>>
    /\ UNCHANGED <<slots, stash, deleted, up, opened, torn>>

\* init: schedule the previous key's deletion; an error only warns
InitRetire ==
    /\ At("unsealed")
    /\ \/ job.read.prev = NoKey /\ Goto("open") /\ UNCHANGED deleted
       \/ /\ job.read.prev # NoKey
          /\ \E scheduled, told \in BOOLEAN :
                /\ told => scheduled
                /\ deleted' = IF scheduled THEN deleted \cup {job.read.prev} ELSE deleted
                /\ Goto(IF told THEN "retired" ELSE "open")
    /\ UNCHANGED <<slots, blob, stash, up, opened, issued, torn>>

\* init: the key is gone, drop it from the blob; a failed write refuses the boot
InitForgetPrev ==
    /\ At("retired")
    /\ \E landed, acked \in BOOLEAN :
          /\ acked => landed
          /\ MetaPut([job.read EXCEPT !.prev = NoKey], landed)
          /\ Goto(IF acked THEN "open" ELSE "idle")
    /\ UNCHANGED <<slots, stash, deleted, up, opened, issued, torn>>

\* The init script: format a blank volume with the keyfile, open any other
InitOpen ==
    /\ At("open")
    /\ \/ /\ Blank \/ Opens(job.pass)
          /\ slots' = IF Blank THEN [slots EXCEPT ![0] = job.pass] ELSE slots
          /\ up' = job.image
          /\ opened' = job.pass
       \/ /\ ~Blank /\ ~Opens(job.pass)
          /\ UNCHANGED <<slots, up, opened>>
    /\ Goto("idle")
    /\ UNCHANGED <<blob, stash, deleted, issued, torn>>

-----------------------------------------------------------------------------
(* prepare-upgrade                                                            *)

\* The checks of prepare_upgrade for the key k and the image the signed payload
\* upgrades to: nothing pending, a provisioned volume, a new key whose policy
\* gates that image, and the current passphrase unsealed.
CanPrepare(k, to) ==
    /\ stash = NoStash
    /\ k # blob.key
    /\ blob.ct # NoPass
    /\ Gate[k] = to
    /\ k \notin deleted
    /\ CanDecrypt(blob.key, up)
    /\ ~Blank

\* prepare_upgrade up to the stash: draw a passphrase, pick the slot, stash
PrepareStash(k, to) ==
    /\ up # NoImage
    /\ At("idle")
    /\ CanPrepare(k, to)
    /\ issued < MaxPass
    /\ issued' = issued + 1
    /\ \E n \in 0 .. MaxSlot + 1 :
          /\ FirstFree(n)
          /\ stash' = [pre |-> blob, slot |-> n]
          /\ job' = [job EXCEPT !.step = "stashed", !.read = blob, !.pass = issued + 1,
                                !.slot = n, !.key = k]
    /\ UNCHANGED <<slots, blob, deleted, up, opened, torn>>

\* luksAddKey into the stashed slot.  A failing cryptsetup removes the stash, one
\* that cannot be spawned leaves it.
PrepareAdd ==
    /\ At("stashed")
    /\ \/ /\ job.slot \in Slots
          /\ slots[job.slot] = NoPass
          /\ Opens(job.read.ct)
          /\ slots' = [slots EXCEPT ![job.slot] = job.pass]
          /\ Goto("added")
          /\ UNCHANGED stash
       \/ /\ stash' \in {NoStash, stash}
          /\ Goto("idle")
          /\ UNCHANGED slots
    /\ UNCHANGED <<blob, deleted, up, opened, issued, torn>>

\* Mutant: a slot that failed its test is killed and the prepare goes on.
PrepareVerify_GoesOn ==
    /\ At("added")
    /\ slots' \in {slots, [slots EXCEPT ![job.slot] = NoPass]}
    /\ Goto("verified")
    /\ UNCHANGED <<blob, stash, deleted, up, opened, issued, torn>>

\* The new passphrase must open the stashed slot; if it does not the slot is
\* killed, best effort, and the stash removed.
PrepareVerify ==
    /\ At("added")
    /\ \/ slots[job.slot] = job.pass /\ Goto("verified") /\ UNCHANGED <<slots, stash>>
       \/ /\ slots' \in {slots, [slots EXCEPT ![job.slot] = NoPass]}
          /\ stash' = NoStash
          /\ Goto("idle")
       \/ Goto("idle") /\ UNCHANGED <<slots, stash>>
    /\ UNCHANGED <<blob, deleted, up, opened, issued, torn>>

\* The blob now names the new key and remembers the old one
PrepareSeal ==
    /\ At("verified")
    /\ \E landed \in BOOLEAN :
          MetaPut([key |-> job.key, ct |-> job.pass, prev |-> job.read.key], landed)
    /\ Goto("idle")
    /\ UNCHANGED <<slots, stash, deleted, up, opened, issued, torn>>

-----------------------------------------------------------------------------
(* revoke-upgrade                                                             *)

\* revoke_upgrade up to the unsealed pre-prepare passphrase
CanRevoke == stash # NoStash /\ CanDecrypt(stash.pre.key, up)

RevokeUnseal ==
    /\ up # NoImage
    /\ At("idle")
    /\ CanRevoke
    /\ stash.pre.ct # NoPass
    /\ job' = [job EXCEPT !.step = "revoking", !.read = stash.pre, !.pass = stash.pre.ct,
                          !.slot = stash.slot]
    /\ UNCHANGED <<slots, blob, stash, deleted, up, opened, issued, torn>>

\* The guard against killing the live slot, then luksKillSlot, which needs the
\* slot occupied and the passphrase in a remaining one.
StashSlotIsLive == job.slot \in Slots /\ slots[job.slot] = job.pass

RevokeKill ==
    /\ At("revoking")
    /\ \/ /\ job.slot \in Slots
          /\ ~StashSlotIsLive
          /\ slots[job.slot] # NoPass
          /\ \E s \in Slots \ {job.slot} : slots[s] = job.pass
          /\ slots' = [slots EXCEPT ![job.slot] = NoPass]
          /\ torn' = (torn \/ blob.ct = slots[job.slot])
          /\ Goto("killed")
       \/ Goto("idle") /\ UNCHANGED <<slots, torn>>
    /\ UNCHANGED <<blob, stash, deleted, up, opened, issued>>

\* The volume still opens: restore the pre-prepare blob, then remove the stash.
\* A failed write keeps the stash.
RevokeRestore ==
    /\ At("killed")
    /\ \/ /\ Opens(job.pass)
          /\ \E landed, acked, removed \in BOOLEAN :
                /\ acked => landed
                /\ removed => acked
                /\ MetaPut(job.read, landed)
                /\ torn' = (torn /\ ~landed)
                /\ stash' = IF removed THEN NoStash ELSE stash
       \/ ~Opens(job.pass) /\ UNCHANGED <<blob, stash, torn>>
    /\ Goto("idle")
    /\ UNCHANGED <<slots, deleted, up, opened, issued>>

-----------------------------------------------------------------------------

\* The enclave dies, tmpfs with it.
Crash ==
    /\ up' = NoImage
    /\ opened' = NoPass
    /\ stash' = NoStash
    /\ Goto("idle")
    /\ UNCHANGED <<slots, blob, deleted, issued, torn>>

\* The backend writes the bootstrap blob before the first launch.
VolumeInit ==
    /\ slots = [s \in Slots |-> NoPass]
    /\ blob \in {[key |-> k, ct |-> NoPass, prev |-> NoKey] : k \in Keys}
    /\ stash = NoStash
    /\ deleted = {}
    /\ up = NoImage
    /\ opened = NoPass
    /\ job = [step |-> "idle", image |-> NoImage, read |-> blob, pass |-> NoPass,
              slot |-> 0, key |-> NoKey]
    /\ issued = 0
    /\ torn = FALSE

BootSteps == InitRetire \/ InitForgetPrev \/ InitOpen
PrepareSteps == PrepareAdd \/ PrepareVerify \/ PrepareSeal
RevokeSteps == RevokeKill \/ RevokeRestore

VolumeNext ==
    \/ \E image \in Images : InitUnseal(image)
    \/ BootSteps
    \/ \E k \in Keys, to \in Images : PrepareStash(k, to)
    \/ PrepareSteps
    \/ RevokeUnseal
    \/ RevokeSteps
    \/ Crash

VolumeSpec == VolumeInit /\ [][VolumeNext]_volumeVars

-----------------------------------------------------------------------------

VolumeTypeOK ==
    /\ slots \in [Slots -> Pass \cup {NoPass}]
    /\ blob \in Blobs
    /\ stash \in Stashes \cup {NoStash}
    /\ deleted \subseteq Keys
    /\ up \in Images \cup {NoImage}
    /\ opened \in Pass \cup {NoPass}
    /\ job \in Jobs
    /\ issued \in 0 .. MaxPass
    /\ torn \in BOOLEAN

\* The passphrase sealed in the blob opens the volume, except in the window of a
\* revoke between luksKillSlot and the restored blob landing: neither a failed
\* prepare nor a crash at any other point loses the volume.
BlobOpensVolume ==
    torn \/ Blank \/ (blob.ct # NoPass /\ Opens(blob.ct))

\* No job ever kills the slot the running image opened the volume with.
LiveSlotKept == up # NoImage => Opens(opened)

\* While no upgrade is staged the running image can reboot: the blob's key is
\* gated to it, still exists, and its passphrase opens the volume.
RebootSafe ==
    up # NoImage /\ stash = NoStash => CanDecrypt(blob.key, up) /\ Opens(blob.ct)

\* A key scheduled for deletion is neither the one the blob needs nor the one a
\* revoke would go back to.
DeletedKeyNotNeeded ==
    blob.key \notin deleted /\ (stash # NoStash => stash.pre.key \notin deleted)

\* At every step of every job, after every failure and crash, the volume can be
\* opened by what is sealed for it, by the image that runs and by the one a revoke
\* goes back to (init, prepare_upgrade, revoke_upgrade).
VolumeSafe == BlobOpensVolume /\ LiveSlotKept /\ RebootSafe /\ DeletedKeyNotNeeded
=============================================================================
