------------------------------- MODULE KmsGate -------------------------------
(* The KMS key an enclave seals its volume passphrase under: how the enclave  *)
(* chooses its way to KMS, what it demands of the key's origin and policy     *)
(* before it seals, and what KMS then lets anybody do under that policy.      *)
(*                                                                            *)
(* KMS itself is external: it grants a call when an Allow statement of the    *)
(* key's policy covers the action and its conditions hold, and no Deny does.  *)
(* A policy is a set of statements; a statement covers one action pattern, or *)
(* with NotAction all but one.  A condition binds each of PCR0-2 or leaves it.*)
EXTENDS Naturals, FiniteSets

PcrIndex == 0 .. 2
KmsOps == {"Decrypt", "PutKeyPolicy", "CreateGrant", "ReplicateKey", "ReEncryptFrom", "GetKeyPolicy"}
Patterns == KmsOps \cup {"Decryp?", "Put*", "*"}

\* What a condition says of one PCR: one value, a set that holds both, a pattern
\* operator that matches both, or nothing.
Bindings == {"own", "other", "set", "like", "none"}

\* Who calls: nobody attested, the expected image, one that shares PCR0 and PCR1
\* with it, and one that shares nothing.
Callers == {"nobody", "own", "near", "far"}
PcrOf(caller, i) == IF caller = "own" \/ (caller = "near" /\ i # 2) THEN "own" ELSE "other"

Stmt(effect, negated, pattern, bind) ==
    [effect |-> effect, negated |-> negated, pattern |-> pattern, bind |-> bind]
Bound(b) == [i \in PcrIndex |-> b]
GatedDecrypt == Stmt("Allow", FALSE, "Decrypt", Bound("own"))

\* The statements a minted policy may carry.
Statements ==
    {Stmt("Allow", FALSE, "Decrypt", bind) : bind \in [PcrIndex -> Bindings]}
        \cup {Stmt("Allow", FALSE, p, Bound(b)) : p \in Patterns, b \in {"own", "none"}}
        \cup {Stmt("Allow", TRUE, p, Bound(b)) : p \in KmsOps, b \in {"own", "none"}}
        \cup {Stmt("Deny", FALSE, p, Bound(b)) : p \in {"Decrypt", "*"}, b \in {"none", "other"}}
Policies == {{s} : s \in Statements} \cup {{GatedDecrypt, s} : s \in Statements} \cup {{}}

VARIABLES
    region,     \* KMS_AWS_REGION: set or blank
    cid,        \* the host CID init recorded: 2 QEMU, 3 Nitro, 0 unknown
    origin,     \* the key's Origin
    policy,     \* the key's policy
    granted,    \* a grant or a replica of the key exists
    gate,       \* where the enclave is with the key
    learned     \* who has recovered the sealed passphrase

kmsVars == <<region, cid, origin, policy, granted, gate, learned>>

-----------------------------------------------------------------------------
(* KMS, external                                                              *)

Covers(pattern, op) ==
    \/ pattern = op \/ pattern = "*"
    \/ pattern = "Decryp?" /\ op = "Decrypt"
    \/ pattern = "Put*" /\ op = "PutKeyPolicy"

Applies(s, op, caller) ==
    /\ s.negated # Covers(s.pattern, op)
    /\ \A i \in PcrIndex :
          \/ s.bind[i] = "none"
          \/ caller # "nobody" /\ s.bind[i] \in {"set", "like", PcrOf(caller, i)}

KmsAllows(op, caller) ==
    /\ \E s \in policy : s.effect = "Allow" /\ Applies(s, op, caller)
    /\ ~ \E s \in policy : s.effect = "Deny" /\ Applies(s, op, caller)

-----------------------------------------------------------------------------
(* What the enclave checks                                                    *)

\* select_transport: the plaintext way only where init proved QEMU
SelectTransport == IF region = "set" THEN "aws" ELSE IF cid = 2 THEN "mock" ELSE "refuse"

\* FORBIDDEN_ACTIONS, and anything that starts with kms:reencrypt
Forbidden == {"PutKeyPolicy", "CreateGrant", "ReplicateKey", "ReEncryptFrom"}
Wildcard(pattern) == pattern \in {"Decryp?", "Put*", "*"}

\* collect_pcr_bindings: only a hard equality to one value binds
PcrBindings(s) == {i \in PcrIndex : s.bind[i] \in {"own", "other"}}

\* Mutant: a pattern with a single-character wildcard is taken literally.
StatementIsSafe_Literal(s) ==
    \/ s.effect # "Allow"
    \/ /\ ~s.negated
       /\ s.pattern \notin {"Put*", "*"}
       /\ s.pattern \notin Forbidden
       /\ s.pattern = "Decrypt" => \A i \in PcrIndex : i \in PcrBindings(s) /\ s.bind[i] = "own"

\* One turn of verify_decrypt_policy's loop.
StatementIsSafe(s) ==
    \/ s.effect # "Allow"
    \/ /\ ~s.negated
       /\ ~Wildcard(s.pattern)
       /\ s.pattern \notin Forbidden
       /\ s.pattern = "Decrypt" => \A i \in PcrIndex : i \in PcrBindings(s) /\ s.bind[i] = "own"

VerifyDecryptPolicy(p) == \A s \in p : StatementIsSafe(s)

-----------------------------------------------------------------------------
(* The enclave: verify_key_policy_for, then the seal                          *)

\* kms_key_origin: only a key KMS generated
CheckOrigin ==
    /\ gate = "start"
    /\ gate' = IF SelectTransport # "refuse" /\ origin = "AWS_KMS" THEN "origin" ELSE "refused"
    /\ UNCHANGED <<region, cid, origin, policy, granted, learned>>

\* kms_get_key_policy and verify_decrypt_policy
CheckPolicy ==
    /\ gate = "origin"
    /\ gate' = IF VerifyDecryptPolicy(policy) THEN "checked" ELSE "refused"
    /\ UNCHANGED <<region, cid, origin, policy, granted, learned>>

\* kms_get_public_key, rsa_oaep_encrypt, meta_put.  Whoever stands in for KMS on
\* the plaintext way chose the public key.
Seal ==
    /\ gate = "checked"
    /\ gate' = "sealed"
    /\ learned' = IF SelectTransport = "mock" THEN learned \cup {"nobody"} ELSE learned
    /\ UNCHANGED <<region, cid, origin, policy, granted>>

-----------------------------------------------------------------------------
(* Everybody else, from the moment the enclave has read the policy            *)

\* Any caller rewrites the policy to let everyone decrypt.
PutKeyPolicy(caller) ==
    /\ gate \in {"checked", "sealed", "refused"}
    /\ KmsAllows("PutKeyPolicy", caller)
    /\ policy' = {Stmt("Allow", FALSE, "Decrypt", Bound("none"))}
    /\ UNCHANGED <<region, cid, origin, granted, gate, learned>>

\* A grant, or a replica with a policy of its own.
Delegate(caller) ==
    /\ gate \in {"checked", "sealed", "refused"}
    /\ KmsAllows("CreateGrant", caller) \/ KmsAllows("ReplicateKey", caller)
    /\ granted' = TRUE
    /\ UNCHANGED <<region, cid, origin, policy, gate, learned>>

\* kms_decrypt of a later boot, whose answer comes wrapped to the attested key, and
\* anybody else's: decrypt, or move the ciphertext under another key and decrypt that; material
\* made outside KMS is known to whoever made it.
Open(caller) ==
    /\ gate = "sealed"
    /\ granted \/ origin = "EXTERNAL" \/ KmsAllows("Decrypt", caller) \/ KmsAllows("ReEncryptFrom", caller)
    /\ learned' = learned \cup {caller}
    /\ UNCHANGED <<region, cid, origin, policy, granted, gate>>

KmsInit ==
    /\ region \in {"set", "blank"}
    /\ cid \in {0, 2, 3}
    /\ origin \in {"AWS_KMS", "EXTERNAL"}
    /\ policy \in Policies
    /\ granted = FALSE
    /\ gate = "start"
    /\ learned = {}

KmsNext ==
    \/ CheckOrigin
    \/ CheckPolicy
    \/ Seal
    \/ \E caller \in Callers : PutKeyPolicy(caller) \/ Delegate(caller) \/ Open(caller)

-----------------------------------------------------------------------------
(* Properties                                                                 *)

\* Off QEMU, whatever policy the key was minted with and whatever calls KMS
\* grants under it once the enclave has read it, before the seal or after, only
\* the image the check expected ever recovers what the enclave sealed
\* (verify_key_policy_for before init seals).
SealedForExpectedOnly == cid # 2 => learned \subseteq {"own"}
=============================================================================
