------------------------------ MODULE KmsService ------------------------------
(* The KMS stand-in the QEMU builds run, with its keys on disk, the backend   *)
(* that mints and retires keys in it, and the enclave that seals its          *)
(* passphrase under one and opens it on a later boot; and the envelope a      *)
(* Decrypt answer comes in, which the real KMS encodes as it pleases.         *)
(*                                                                            *)
(* Every request is a task of its own: it reads the key file, and a request   *)
(* that stores a key truncates the file and then writes it, so that another   *)
(* task, or the process after a crash, may find it torn.                      *)
EXTENDS Integers, Sequences, SequencesExt

CONSTANTS
    AutoCreate,     \* auto_create_keys
    MaxKeys,        \* bound: keys the backend mints
    MaxCrashes      \* bound: crashes of the service and of the enclave, and failed reads and
                    \* writes of a key file

Unminted == 0                   \* the key id of an enclave no key was minted for
KeyIds == 0 .. MaxKeys
Tasks == {"enclave", "backend"} \* one connection of each at a time

VARIABLES
    disk,       \* KeyIds -> the key file
    task,       \* Tasks -> the request being handled
    pairs,      \* key pairs generated
    minted,     \* ids drawn by CreateKey, and those it has answered with
    sealing,    \* the enclave: where its boot is, its key id, and the blob it sealed
    retired,    \* ids ScheduleKeyDeletion was asked for, and was answered for
    misread,    \* ids whose file was there and could not be read
    faults      \* crashes and failures so far

kmsServiceVars == <<disk, task, pairs, minted, sealing, retired, misread, faults>>

-----------------------------------------------------------------------------
(* The envelope of a Decrypt answer                                           *)

\* An ASN.1 node: a tag, whether it is constructed, whether its length is definite.
Node(tag, cons, definite, kids, val) ==
    [tag |-> tag, cons |-> cons, definite |-> definite, kids |-> kids, val |-> val]
Prim(tag, val) == Node(tag, FALSE, TRUE, <<>>, val)
Bad == Prim("bad", <<>>)

\* The forms an envelope may have.  encode's own has definite lengths and whole strings;
\* KMS (external) chooses which lists have indefinite lengths and how strings are cut in
\* segments.  "mixed" is no form of a string.
EnvelopeForms == [lists : {"definite", "indefinite", "sets"},
                  strings : {"whole", "two", "nested", "empty", "mixed"}]

EncodeList(form, tag, kids) ==
    Node(tag, TRUE, form.lists = "definite" \/ (form.lists = "sets" /\ tag # "set"), kids, <<>>)

EncodeString(form, tag, val) ==
    LET segment(part) == Prim("octets", part)
    IN  CASE form.strings = "whole"  -> Prim(tag, val)
          [] form.strings = "two"    -> EncodeList(form, tag, <<segment(<<val[1]>>), segment(<<val[2]>>)>>)
          [] form.strings = "nested" ->
               EncodeList(form, tag,
                          <<Node("octets", TRUE, FALSE, <<segment(<<val[1]>>)>>, <<>>), segment(<<val[2]>>)>>)
          [] form.strings = "empty"  -> EncodeList(form, tag, <<segment(val), segment(<<>>)>>)
          [] form.strings = "mixed"  -> EncodeList(form, tag, <<segment(<<val[1]>>), Prim("integer", <<val[2]>>)>>)

\* encode: the content key goes to the recipient, the plaintext under the content key.
EnvelopeOf(recipient, cek, plaintext, form) ==
    LET list(tag, kids) == EncodeList(form, tag, kids)
        string(tag, val) == EncodeString(form, tag, val)
    IN  list("sequence",
           << Prim("oid", <<"enveloped">>),
              list("explicit0",
                 << list("sequence",
                       << Prim("integer", <<0>>),
                          list("set",
                             << list("sequence",
                                   << Prim("integer", <<0>>),
                                      Prim("context0", <<>>),
                                      list("sequence", << Prim("oid", <<"oaep">>) >>),
                                      string("octets", <<recipient, cek>>) >>) >>),
                          list("sequence",
                             << Prim("oid", <<"data">>),
                                list("sequence", << Prim("oid", <<"aes">>), string("octets", <<"iv", "iv">>) >>),
                                string("context0", <<cek, plaintext>>) >>) >>) >>) >>)

\* The bytes of a node, as tokens: a primitive, or the head of a constructed node with
\* its length, its content, and the end-of-contents an indefinite length calls for.
Indefinite == -1
EndOfContents == [kind |-> "eoc", tag |-> "eoc", len |-> 0, val |-> <<>>]
RECURSIVE Bytes(_)
Bytes(node) ==
    LET body == FlattenSeq([i \in DOMAIN node.kids |-> Bytes(node.kids[i])])
        head(len) == <<[kind |-> "open", tag |-> node.tag, len |-> len, val |-> <<>>]>>
    IN  IF ~node.cons THEN <<[kind |-> "prim", tag |-> node.tag, len |-> 0, val |-> node.val]>>
        ELSE IF node.definite THEN head(Len(body)) \o body
        ELSE head(Indefinite) \o body \o <<EndOfContents>>

\* What of an answer the parent (external) hands on: all of it, less, a primitive cut in
\* its content, or more.
Delivered(bytes, n, halved) ==
    IF n > Len(bytes) THEN Append(bytes, EndOfContents)
    ELSE [i \in 1 .. n |-> IF halved /\ i = n THEN [bytes[i] EXCEPT !.kind = "half"] ELSE bytes[i]]

MAX_TLV_DEPTH == 64

\* transcode_tlv's two cases of a chunked string
Collapses(tag, kids) ==
    \/ tag = "octets"
    \/ tag = "context0" /\ kids # <<>> /\ \A i \in DOMAIN kids : kids[i].tag = "octets"

\* A constructed node again, of what its children became: octet_value refuses a segment
\* that is no string.
Emit(tag, kids) ==
    IF Bad \in ToSet(kids) THEN Bad
    ELSE IF ~Collapses(tag, kids) THEN Node(tag, TRUE, TRUE, kids, <<>>)
    ELSE IF \E i \in DOMAIN kids : kids[i].tag # "octets" \/ kids[i].cons THEN Bad
    ELSE Prim(tag, FlattenSeq([i \in DOMAIN kids |-> kids[i].val]))

\* transcode_tlv: the node at the front, every length definite and every chunked string
\* one primitive string, and what follows it.  Children: those of a definite region to
\* its end, or up to the end-of-contents.
Unreadable == [node |-> Bad, kids |-> <<Bad>>, rest |-> <<>>]
RECURSIVE TranscodeTlv(_, _), Children(_, _, _)
TranscodeTlv(input, depth) ==
    IF depth > MAX_TLV_DEPTH \/ input = <<>> THEN Unreadable
    ELSE LET t == Head(input)
             after == Tail(input)
             region == IF t.len = Indefinite THEN after ELSE SubSeq(after, 1, t.len)
             inner == Children(region, t.len = Indefinite, depth + 1)
         IN  CASE t.kind = "half" -> Unreadable
               [] t.kind \in {"prim", "eoc"} -> [node |-> Prim(t.tag, t.val), rest |-> after]
               [] t.kind = "open" /\ Len(after) < t.len -> Unreadable
               [] OTHER -> [node |-> Emit(t.tag, inner.kids),
                            rest |-> IF t.len = Indefinite THEN inner.rest
                                     ELSE SubSeq(after, t.len + 1, Len(after))]
Children(region, untilEnd, depth) ==
    IF ~untilEnd /\ region = <<>> THEN [kids |-> <<>>, rest |-> <<>>]
    ELSE IF untilEnd /\ region # <<>> /\ Head(region) = EndOfContents
    THEN [kids |-> <<>>, rest |-> Tail(region)]
    ELSE LET first == TranscodeTlv(region, depth)
             others == IF first.node = Bad THEN Unreadable ELSE Children(first.rest, untilEnd, depth)
         IN  [kids |-> <<first.node>> \o others.kids, rest |-> others.rest]

\* ber_to_der: nothing may follow
BerToDer(input) ==
    LET read == TranscodeTlv(input, 0)
    IN  IF read.rest # <<>> THEN Bad ELSE read.node

\* decode: the parts of the strict form, the content key under the ephemeral key,
\* the content under the content key; anything else is an error
Decode(ephemeral, input) ==
    LET der == BerToDer(input)
        enveloped == der.kids[2].kids[1]
        ktri == enveloped.kids[2].kids[1]
        content == enveloped.kids[3]
        strict(n) == ~n.cons
    IN  IF der = Bad \/ ~strict(ktri.kids[4]) \/ ~strict(content.kids[3]) \/ ~strict(content.kids[2].kids[2])
        THEN "error"
        ELSE IF ktri.kids[4].val[1] # ephemeral \/ content.kids[3].val[1] # ktri.kids[4].val[2]
        THEN "error"
        ELSE content.kids[3].val[2]

\* What an answer opens to under the key its call attested, and whether all of it came,
\* in a form of the standard.  Bound: strings of two segments are the ones cut short.
Answers ==
    UNION {LET bytes == Bytes(EnvelopeOf("ephemeral", "cek", "passphrase", form))
               cut == form.strings = "two"
           IN  {[got |-> Decode("ephemeral", Delivered(bytes, n, halved)),
                 sound |-> n = Len(bytes) /\ ~halved /\ form.strings # "mixed"] :
                    n \in IF cut THEN 0 .. Len(bytes) + 1 ELSE {Len(bytes)},
                    halved \in IF cut THEN BOOLEAN ELSE {FALSE}} : form \in EnvelopeForms}

-----------------------------------------------------------------------------
(* The key files                                                              *)

NoFile == [kind |-> "none", pair |-> 0, disabled |-> FALSE]
Torn == [NoFile EXCEPT !.kind = "torn"]
StoredKey(pair, disabled) == [kind |-> "key", pair |-> pair, disabled |-> disabled]

NoTask == [op |-> "none", id |-> Unminted, at |-> "idle", key |-> NoFile]
Reads == {"DescribeKey", "GetKeyPolicy", "GetPublicKey"}

\* The enclave's next call: every boot checks the key, and then seals under it or opens.
NoBlob == [id |-> Unminted, pair |-> 0]
CallAt(at) == CASE at = "booted" -> "DescribeKey" [] at = "origin" -> "GetKeyPolicy"
                [] at = "policy" -> IF sealing.blob = NoBlob THEN "GetPublicKey" ELSE "Decrypt"

\* What a request of the enclave is answered with, and where that leaves its boot.
BootGoto(at) == sealing' = [sealing EXCEPT !.at = at]

AnswerDescribeKey == BootGoto("origin")

AnswerGetKeyPolicy == BootGoto("policy")

AnswerGetPublicKey(key) ==
    IF key.disabled THEN BootGoto("failed")
    ELSE sealing' = [sealing EXCEPT !.at = "sealed", !.blob = [id |-> sealing.id, pair |-> key.pair]]

\* kms_decrypt's end
KmsDecrypt(answer) ==
    sealing' = [sealing EXCEPT !.at = IF answer.got = "error" THEN "failed" ELSE "opened",
                               !.got = answer.got, !.sound = answer.sound]

AnswerDecrypt(key) ==
    IF key.disabled \/ key.pair # sealing.blob.pair THEN BootGoto("failed")
    ELSE \E answer \in Answers : KmsDecrypt(answer)

AnswerEnclave(op, key) ==
    CASE op = "DescribeKey"  -> AnswerDescribeKey
      [] op = "GetKeyPolicy" -> AnswerGetKeyPolicy
      [] op = "GetPublicKey" -> AnswerGetPublicKey(key)
      [] op = "Decrypt"      -> AnswerDecrypt(key)

Done(t) == task' = [task EXCEPT ![t] = NoTask]
TaskGoto(t, at, key) == task' = [task EXCEPT ![t].at = at, ![t].key = key]

-----------------------------------------------------------------------------
(* The handlers                                                               *)

\* The enclave calls: verify_key_policy_for and the seal, or kms_decrypt.
EnclaveCalls ==
    /\ task["enclave"].at = "idle"
    /\ sealing.at \in {"booted", "origin", "policy"}
    /\ task' = [task EXCEPT !["enclave"] =
                   [op |-> CallAt(sealing.at), id |-> sealing.id, at |-> "load", key |-> NoFile]]
    /\ UNCHANGED <<disk, pairs, minted, sealing, retired, misread, faults>>

\* handle_create_key up to the save: a fresh id and a fresh pair
CreateKey ==
    /\ task["backend"].at = "idle"
    /\ minted.drawn < MaxKeys
    /\ minted' = [minted EXCEPT !.drawn = minted.drawn + 1]
    /\ pairs' = pairs + 1
    /\ task' = [task EXCEPT !["backend"] =
                   [op |-> "CreateKey", id |-> minted.drawn + 1, at |-> "save", key |-> StoredKey(pairs + 1, FALSE)]]
    /\ UNCHANGED <<disk, sealing, retired, misread, faults>>

\* The ids the backend works with.
Known == minted.ids \cup IF AutoCreate THEN {Unminted} ELSE {}

\* handle_schedule_deletion is asked
ScheduleDeletion(id) ==
    /\ task["backend"].at = "idle"
    /\ id \in Known \ retired.asked
    /\ task' = [task EXCEPT !["backend"] =
                   [op |-> "ScheduleKeyDeletion", id |-> id, at |-> "load", key |-> NoFile]]
    /\ retired' = [retired EXCEPT !.asked = retired.asked \cup {id}]
    /\ UNCHANGED <<disk, pairs, minted, sealing, misread, faults>>

\* An error answer: the enclave's boot fails, the backend is told.
AnswerError(t) ==
    /\ Done(t)
    /\ IF t = "enclave" THEN BootGoto("failed") ELSE UNCHANGED sealing

\* Mutant: a file that does not parse is taken for a missing one.
CreatesOn_Any(kind) == kind # "key"

\* load_or_create_key mints only on NotFound
CreatesOn(kind) == kind = "none"

\* load_key, or load_or_create_key, and what the handler does with the key.  Every
\* failure of the read, not only a missing file, is NotFound.
LoadKey(t, readable) ==
    LET r == task[t]
        found == IF readable THEN disk[r.id] ELSE NoFile
    IN  /\ r.at = "load"
        /\ IF readable THEN UNCHANGED <<misread, faults>>
           ELSE /\ disk[r.id].kind # "none"
                /\ faults < MaxCrashes
                /\ faults' = faults + 1
                /\ misread' = misread \cup {r.id}
        /\ IF AutoCreate /\ r.op \in Reads /\ CreatesOn(found.kind)
           THEN /\ pairs' = pairs + 1
                /\ TaskGoto(t, "save", StoredKey(pairs + 1, FALSE))
                /\ UNCHANGED sealing
           ELSE /\ UNCHANGED pairs
                /\ IF found.kind # "key" THEN AnswerError(t)
                   ELSE IF r.op = "ScheduleKeyDeletion"
                   THEN TaskGoto(t, "save", StoredKey(found.pair, TRUE)) /\ UNCHANGED sealing
                   ELSE Done(t) /\ AnswerEnclave(r.op, found)
        /\ UNCHANGED <<disk, minted, retired>>

\* save_key: fs::write opens with truncation
TruncateKey(t) ==
    /\ task[t].at = "save"
    /\ disk' = [disk EXCEPT ![task[t].id] = Torn]
    /\ TaskGoto(t, "write", task[t].key)
    /\ UNCHANGED <<pairs, minted, sealing, retired, misread, faults>>

\* ... and writes; the handler then answers, after CreateKey's save_pcrs
WriteKey(t) ==
    LET r == task[t]
    IN  /\ r.at = "write"
        /\ disk' = [disk EXCEPT ![r.id] = r.key]
        /\ IF r.op = "CreateKey"
           THEN TaskGoto(t, "pcrs", r.key) /\ UNCHANGED <<sealing, retired>>
           ELSE /\ Done(t)
                /\ IF t = "enclave"
                   THEN AnswerEnclave(r.op, r.key) /\ UNCHANGED retired
                   ELSE /\ retired' = [retired EXCEPT !.done = retired.done \cup {r.id}]
                        /\ UNCHANGED sealing
        /\ UNCHANGED <<pairs, minted, misread, faults>>

\* fs::write fails after its truncation, or save_pcrs does.
KeySaveFails(t) ==
    /\ task[t].at \in {"write", "pcrs"}
    /\ faults < MaxCrashes
    /\ faults' = faults + 1
    /\ AnswerError(t)
    /\ UNCHANGED <<disk, pairs, minted, retired, misread>>

\* save_pcrs, which nothing reads back, and the answer
SavePcrs ==
    /\ task["backend"].at = "pcrs"
    /\ minted' = [minted EXCEPT !.ids = minted.ids \cup {task["backend"].id}]
    /\ Done("backend")
    /\ UNCHANGED <<disk, pairs, sealing, retired, misread, faults>>

-----------------------------------------------------------------------------
(* The enclave boots, and what crashes                                        *)

\* The backend launches the enclave under a key it minted, or under an id of its
\* own, and later boots find the blob.
EnclaveBoots(id) ==
    /\ sealing.at = "off"
    /\ IF sealing.blob = NoBlob THEN id \in Known ELSE id = sealing.blob.id
    /\ sealing' = [sealing EXCEPT !.at = "booted", !.id = id]
    /\ UNCHANGED <<disk, task, pairs, minted, retired, misread, faults>>

\* It stops, or is stopped, in the middle of anything.  A write under way for it
\* is done before it is back.
EnclaveStops ==
    /\ sealing.at # "off"
    /\ task["enclave"].at \in {"idle", "load"}
    /\ faults < MaxCrashes
    /\ faults' = faults + 1
    /\ BootGoto("off")
    /\ Done("enclave")
    /\ UNCHANGED <<disk, pairs, minted, retired, misread>>

\* The service is killed: every connection ends, files stay as they are.  The
\* enclave's boot fails on its lost call.
ServiceCrashes ==
    /\ faults < MaxCrashes
    /\ faults' = faults + 1
    /\ task' = [t \in Tasks |-> NoTask]
    /\ IF task["enclave"].at # "idle" THEN BootGoto("failed") ELSE UNCHANGED sealing
    /\ UNCHANGED <<disk, pairs, minted, retired, misread>>

KmsServiceInit ==
    /\ disk = [id \in KeyIds |-> NoFile]
    /\ task = [t \in Tasks |-> NoTask]
    /\ pairs = 0
    /\ minted = [drawn |-> 0, ids |-> {}]
    /\ sealing = [at |-> "off", id |-> Unminted, blob |-> NoBlob, got |-> "none", sound |-> TRUE]
    /\ retired = [asked |-> {}, done |-> {}]
    /\ misread = {}
    /\ faults = 0

KmsServiceNext ==
    \/ EnclaveCalls
    \/ CreateKey
    \/ SavePcrs
    \/ EnclaveStops
    \/ ServiceCrashes
    \/ \E id \in KeyIds : ScheduleDeletion(id) \/ EnclaveBoots(id)
    \/ \E t \in Tasks : TruncateKey(t) \/ WriteKey(t) \/ KeySaveFails(t) \/ \E readable \in BOOLEAN : LoadKey(t, readable)

-----------------------------------------------------------------------------
(* Properties                                                                 *)

\* However requests, half-written files, failed writes and crashes interleave: what the
\* enclave sealed stays under a key file that opens it until the key's deletion is asked
\* for, and a key whose deletion was answered is never usable again, unless a read of
\* that file failed (which load_key takes for a missing key); and a Decrypt answer yields
\* the sealed passphrase in every encoding KMS may choose, while one cut short anywhere,
\* with bytes after it or with a string of mixed segments is refused
\* (load_or_create_key, handle_schedule_deletion, transcode_tlv and decode).
SealedKeysHold ==
    /\ sealing.blob # NoBlob /\ sealing.blob.id \notin retired.asked \cup misread =>
          disk[sealing.blob.id] = StoredKey(sealing.blob.pair, FALSE)
    /\ \A id \in retired.done \ misread : disk[id].kind = "key" /\ disk[id].disabled
    /\ sealing.got # "none" => sealing.got = IF sealing.sound THEN "passphrase" ELSE "error"
=============================================================================
