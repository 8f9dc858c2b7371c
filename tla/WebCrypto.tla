----------------------------- MODULE WebCrypto -----------------------------
(***************************************************************************)
(* crypto.subtle inside the enclave: enclave-autoexec/index.js over the    *)
(* natives of duk_enclave.cpp.  The natives keep P-256 numbers in little-  *)
(* endian order, the API is big-endian, so every path in or out reverses   *)
(* each 32 bytes; keys come in and leave in several formats; and a native  *)
(* takes its arguments by position.                                        *)
(*                                                                         *)
(* Bytes are symbolic: a buffer is a sequence of parts, each with its      *)
(* size, what it stands for and, for a P-256 number, its byte order.  The  *)
(* SGX library is free algebra over them.  A call throws or gives bytes;   *)
(* Throws stands for the former.  Calls with a curve, hash, length or      *)
(* algorithm that is not supported throw at once and are left out, and so  *)
(* are usages and extractable, which the code stores and never reads.      *)
(*                                                                         *)
(* SwapsHalves, WithPublicPart, LeftLittleEndian, VerifiesAsIs and         *)
(* TagUnchecked are faulty variants of the operator after them; no action  *)
(* uses them.                                                              *)
(***************************************************************************)
EXTENDS Naturals, Sequences, SequencesExt, FiniteSets

CONSTANTS
  Pair,     \* P-256 key pairs
  Foreign,  \* those made by another implementation
  Secret,   \* AES keys
  Data,     \* messages
  Param,    \* initialisation vectors and counters
  MaxKeys   \* bound: keys the application holds

ASSUME CryptoAssumption == Foreign \subseteq Pair /\ MaxKeys \in Nat

VARIABLES
  keys,     \* the CryptoKeys the application got, each with the key it is of
  buffers,  \* encoded keys it holds, each with the key it is of
  result    \* the last call that used a key: its arguments and outcome

cryptoVars == <<keys, buffers, result>>

Ec == {"ECDSA", "ECDH"}
Aes == {"AES-GCM", "AES-CTR", "AES-CMAC"}
PublicFormats == {"spki", "raw-public-uncompressed-be"}
PrivateFormats == {"pkcs8", "raw-private-be"}
Formats == PublicFormats \cup PrivateFormats \cup {"raw"}

Throws == <<>>

Part(what, order, size) == [what |-> what, order |-> order, size |-> size]
Bytes(what, size) == <<Part(what, "be", size)>>
Size(buffer) ==
  LET upto[n \in 0..Len(buffer)] ==
        IF n = 0 THEN 0 ELSE upto[n - 1] + buffer[n].size
  IN  upto[Len(buffer)]

LE(what) == Part(what, "le", 32)
BE(what) == Part(what, "be", 32)

-----------------------------------------------------------------------------
\* The natives.
NativePublic(n) == << LE(<<"x", n>>), LE(<<"y", n>>) >>
NativePrivate(n) == << LE(<<"d", n>>) >>

NativeEcdsaSign(key, data) ==
  IF Size(key) # 32 THEN Throws
  ELSE << LE(<<"r", key, data>>), LE(<<"s", key, data>>) >>

NativeEcdsaVerify(key, signature, data) ==
  IF Size(key) # 64 \/ Size(signature) # 64 THEN Throws
  ELSE << \E n \in Pair : /\ key = NativePublic(n)
                          /\ signature =
                               NativeEcdsaSign(NativePrivate(n), data) >>

\* A public key that is no point of the curve makes it throw.
NativeEcdhDeriveBits(public, private) ==
  IF Size(public) # 64 \/ Size(private) # 32 THEN Throws
  ELSE IF \E n, m \in Pair :
            public = NativePublic(n) /\ private = NativePrivate(m)
         THEN LET n == CHOOSE n \in Pair : public = NativePublic(n)
                  m == CHOOSE m \in Pair : private = NativePrivate(m)
              IN  << LE(<<"shared", {n, m}>>) >>
         ELSE Throws

NativeCmac(key, data) ==
  IF Size(key) # 16 THEN Throws ELSE Bytes(<<"mac", key, data>>, 16)

NativeGcmEncrypt(iv, key, data) ==
  IF Size(key) # 16 THEN Throws ELSE Bytes(<<"gcm", iv, key, data>>, 32)

TagUnchecked(iv, key, cipher) ==
  IF Size(key) # 16 THEN Throws ELSE cipher[1].what[4]

\* The tag binds the ciphertext to the key and the vector.
NativeGcmDecrypt(iv, key, cipher) ==
  LET clear == cipher[1].what[4]
  IN  IF Size(key) = 16 /\ cipher = NativeGcmEncrypt(iv, key, clear)
        THEN clear ELSE Throws

\* Arguments by position: duk_get_buffer_data finds no bytes in a number.
Buffer(bytes) == [bytes |-> bytes]
Number(n) == [number |-> n]
BufferSize(arg) == IF "bytes" \in DOMAIN arg THEN Size(arg.bytes) ELSE 0

NativeCtrEncrypt(counter, length, key, data) ==
  IF BufferSize(counter) # 16 \/ Size(key) # 16 THEN Throws
  ELSE Bytes(<<"ctr", counter.bytes, key, data>>, 16)

\* The same in reverse, but the first two arguments are read the other way.
NativeCtrDecrypt(length, counter, key, cipher) ==
  IF BufferSize(counter) # 16 \/ Size(key) # 16 THEN Throws
  ELSE LET clear == cipher[1].what[4]
       IN  IF cipher = Bytes(<<"ctr", counter.bytes, key, clear>>, 16)
             THEN clear ELSE Bytes(<<"noise", counter.bytes, key, cipher>>, 16)

-----------------------------------------------------------------------------
\* The conversions of index.js.
Reverse256(p) == [p EXCEPT !.order = IF @ = "le" THEN "be" ELSE "le"]

SwapsHalves(buffer) ==
  [i \in DOMAIN buffer |-> Reverse256(buffer[Len(buffer) + 1 - i])]

\* Each 32 bytes reversed in their place.
ReverseEach(buffer) == [i \in DOMAIN buffer |-> Reverse256(buffer[i])]

SpkiPadding == Part(<<"spki">>, "be", 27)
Pkcs8Padding == Part(<<"pkcs8">>, "be", 36)
Pkcs8PaddingBare == Part(<<"pkcs8 without public key">>, "be", 35)

\* At most `count' parts of 32 bytes behind the padding, or null.
RemovePadding(src, padding, count) ==
  IF src # <<>> /\ Head(src) = padding
    THEN SubSeq(src, 2, IF Len(src) > count THEN count + 1 ELSE Len(src))
    ELSE <<>>

EcKeyData(format, src) ==
  CASE format = "spki" -> RemovePadding(src, SpkiPadding, 2)
    [] format = "pkcs8" -> IF RemovePadding(src, Pkcs8Padding, 1) # <<>>
                             THEN RemovePadding(src, Pkcs8Padding, 1)
                             ELSE RemovePadding(src, Pkcs8PaddingBare, 1)
    [] OTHER -> src

RightLength(format, src) ==
  CASE format \in PublicFormats -> Size(EcKeyData(format, src)) = 64
    [] format \in PrivateFormats -> Size(EcKeyData(format, src)) = 32
    [] format = "raw" -> Size(src) = 16

TypeOf(format) ==
  CASE format \in PublicFormats -> "public"
    [] format \in PrivateFormats -> "private"
    [] format = "raw" -> "secret"

WithPublicPart == Pkcs8Padding

PrivatePadding == Pkcs8PaddingBare

Exported(format, raw) ==
  CASE format = "spki" -> <<SpkiPadding>> \o ReverseEach(raw)
    [] format = "pkcs8" -> <<PrivatePadding>> \o ReverseEach(raw)
    [] format = "raw" -> raw
    [] OTHER -> ReverseEach(raw)

\* Only the formats of P-256 keys are tested against the key's type.
ExportAllowed(format, k) ==
  IF k.algorithm \in Aes THEN format = "raw"
  ELSE format # "raw" /\ k.type = TypeOf(format)

-----------------------------------------------------------------------------
\* What other implementations of Web Crypto hand in.
StandardPublic(n) == << BE(<<"x", n>>), BE(<<"y", n>>) >>
StandardPrivate(n) == << BE(<<"d", n>>) >>
StandardSignature(n, data) ==
  << BE(<<"r", NativePrivate(n), data>>),
     BE(<<"s", NativePrivate(n), data>>) >>
SecretBytes(s) == Bytes(<<"secret", s>>, 16)
Text(d) == Bytes(<<"text", d>>, 16)

\* The encodings of a key that index.js knows: those of RFC 5280 and 5208 with
\* RFC 5915's public key or without it.  Its optional parameters, which the
\* code does not expect (it says so), are not among them.
Encodings(type, of) ==
  CASE type = "public" ->
         {<<SpkiPadding>> \o StandardPublic(of), StandardPublic(of)}
    [] type = "private" ->
         {<<Pkcs8Padding>> \o StandardPrivate(of)
            \o Bytes(<<"tag">>, 6) \o StandardPublic(of),
          <<Pkcs8PaddingBare>> \o StandardPrivate(of),
          StandardPrivate(of)}
    [] type = "secret" -> {SecretBytes(of)}

HandedIn(type, of) == [bytes : Encodings(type, of), type : {type}, of : {of}]

\* A key cut short on its way.
Truncated(n) == [bytes |-> SubSeq(<<SpkiPadding>> \o StandardPublic(n), 1, 2),
                 type |-> "public", of |-> n]

NoResult == [op |-> "none", out |-> Throws]

CryptoInit ==
  /\ keys = {}
  /\ buffers =
       (UNION {HandedIn(t, n) : t \in {"public", "private"}, n \in Foreign})
         \cup (UNION {HandedIn("secret", s) : s \in Secret})
  /\ result = NoResult

-----------------------------------------------------------------------------
\* Operations on keys.
Key(type, algorithm, raw, of) ==
  [type |-> type, algorithm |-> algorithm, raw |-> raw, of |-> of]

GenerateKey(algorithm, n) ==
  /\ n \notin Foreign /\ \A k \in keys : k.of # n
  /\ keys' = keys \cup {Key("public", algorithm, NativePublic(n), n),
                        Key("private", algorithm, NativePrivate(n), n)}
  /\ UNCHANGED <<buffers, result>>

ImportKey(format, b, algorithm) ==
  /\ (algorithm \in Aes) <=> (format = "raw")
  /\ RightLength(format, b.bytes)
  /\ keys' = keys \cup
       {Key(TypeOf(format), algorithm,
            IF format = "raw" THEN b.bytes
              ELSE ReverseEach(EcKeyData(format, b.bytes)),
            b.of)}
  /\ UNCHANGED <<buffers, result>>

ExportKey(format, k) ==
  /\ ExportAllowed(format, k)
  /\ buffers' = buffers \cup
       {[bytes |-> Exported(format, k.raw), type |-> k.type, of |-> k.of]}
  /\ UNCHANGED <<keys, result>>

-----------------------------------------------------------------------------
\* Operations with keys.
LeftLittleEndian(algorithm, raw, data) ==
  IF algorithm = "ECDSA" THEN NativeEcdsaSign(raw, data)
  ELSE NativeCmac(raw, data)

Signature(algorithm, raw, data) ==
  IF algorithm = "ECDSA" THEN ReverseEach(NativeEcdsaSign(raw, data))
  ELSE NativeCmac(raw, data)

Sign(algorithm, k, d) ==
  /\ result' = [op |-> "sign", algorithm |-> algorithm, key |-> k, data |-> d,
                out |-> Signature(algorithm, k.raw, Text(d))]
  /\ UNCHANGED <<keys, buffers>>

\* The 64 bytes that reverse256 reads of a signature: a shorter one ends in
\* zeros, and of a longer one only the first 64 count.
Bytes64(signature) ==
  CASE Size(signature) = 64 -> signature
    [] Size(signature) < 64 ->
         signature \o Bytes(<<"zeros">>, 64 - Size(signature))
    [] Size(signature) > 64 -> SubSeq(signature, 1, 2)

VerifiesAsIs(algorithm, raw, signature, data) ==
  IF algorithm = "ECDSA" THEN NativeEcdsaVerify(raw, Bytes64(signature), data)
  ELSE IF NativeCmac(raw, data) = Throws THEN Throws
       ELSE << signature = NativeCmac(raw, data) >>

Verified(algorithm, raw, signature, data) ==
  IF algorithm = "ECDSA"
    THEN NativeEcdsaVerify(raw, ReverseEach(Bytes64(signature)), data)
    ELSE IF NativeCmac(raw, data) = Throws THEN Throws
         ELSE << signature = NativeCmac(raw, data) >>

Verify(algorithm, k, signature, d) ==
  /\ result' = [op |-> "verify", algorithm |-> algorithm, key |-> k, data |-> d,
                signature |-> signature,
                out |-> Verified(algorithm, k.raw, signature, Text(d))]
  /\ UNCHANGED <<keys, buffers>>

DeriveBits(public, k) ==
  /\ result' = [op |-> "derive", public |-> public, key |-> k,
                out |-> ReverseEach(NativeEcdhDeriveBits(public.raw, k.raw))]
  /\ UNCHANGED <<keys, buffers>>

Iv(p) == Bytes(<<"iv", p>>, 12)
Counter(p) == Buffer(Bytes(<<"counter", p>>, 16))

Encrypt(algorithm, p, k, d) ==
  /\ result' = [op |-> "encrypt", algorithm |-> algorithm,
                param |-> p, key |-> k, data |-> d,
                out |-> IF algorithm = "AES-GCM"
                          THEN NativeGcmEncrypt(Iv(p), k.raw, Text(d))
                          ELSE NativeCtrEncrypt(Counter(p), Number(64), k.raw,
                                                Text(d))]
  /\ UNCHANGED <<keys, buffers>>

\* The last ciphertext, under the same or another key or parameter.
Decrypt(p, k) ==
  /\ result.op = "encrypt" /\ result.out # Throws
  /\ result' = [op |-> "decrypt", of |-> result, param |-> p, key |-> k,
                out |-> IF result.algorithm = "AES-GCM"
                          THEN NativeGcmDecrypt(Iv(p), k.raw, result.out)
                          ELSE NativeCtrDecrypt(Counter(p), Number(64), k.raw,
                                                result.out)]
  /\ UNCHANGED <<keys, buffers>>

\* Signatures made abroad and the last one made here, as they are and with a
\* byte too many.
Overlong(signature) == signature \o Bytes(<<"trailing">>, 1)

Signatures ==
  LET made == {StandardSignature(n, Text(d)) : n \in Foreign, d \in Data}
                \cup {s \in {result.out} : result.op = "sign" /\ s # Throws}
  IN  made \cup {Overlong(s) : s \in made}

KeyNext ==
  \/ /\ Cardinality(keys) + 1 < MaxKeys
     /\ \E a \in Ec, n \in Pair : GenerateKey(a, n)
  \/ /\ Cardinality(keys) < MaxKeys
     /\ \E f \in Formats, a \in Ec \cup Aes :
          \E b \in buffers \cup {Truncated(n) : n \in Foreign} :
            ImportKey(f, b, a)
  \/ \E f \in Formats, k \in keys : ExportKey(f, k)

UseNext ==
  \E k \in keys :
    \/ \E a \in {"ECDSA", "AES-CMAC"}, d \in Data :
         Sign(a, k, d) \/ \E s \in Signatures : Verify(a, k, s, d)
    \/ \E q \in keys : DeriveBits(q, k)
    \/ \E p \in Param :
         \/ Decrypt(p, k)
         \/ \E a \in {"AES-GCM", "AES-CTR"}, d \in Data : Encrypt(a, p, k, d)

CryptoNext == KeyNext \/ UseNext

CryptoSpec == CryptoInit /\ [][CryptoNext]_cryptoVars

-----------------------------------------------------------------------------
\* Properties.

(***************************************************************************)
(* Whichever way a key came in (generated, or imported in any format, from *)
(* any implementation or from an export of its own), it holds the number   *)
(* it stands for, at its full length and in the order the natives read:    *)
(* one key is one raw value.                                               *)
(***************************************************************************)
KeysAreNative ==
  \A k \in keys : k.raw = CASE k.type = "public" -> NativePublic(k.of)
                            [] k.type = "private" -> NativePrivate(k.of)
                            [] k.type = "secret" -> SecretBytes(k.of)

(***************************************************************************)
(* What exportKey returns another implementation reads as the same key:    *)
(* it is an encoding that the format's standard defines for it.            *)
(***************************************************************************)
ExportsAreStandard == \A b \in buffers : b.bytes \in Encodings(b.type, b.of)

(***************************************************************************)
(* A private key, and no other, makes big-endian signatures that are valid *)
(* elsewhere; both sides of ECDH get the same big-endian secret; and a key *)
(* of the wrong type is refused instead of misread.                        *)
(***************************************************************************)
OutputsAreStandard ==
  /\ result.op = "sign" /\ result.algorithm = "ECDSA" =>
       result.out = IF result.key.type = "private"
                      THEN StandardSignature(result.key.of, Text(result.data))
                      ELSE Throws
  /\ result.op = "derive" =>
       result.out =
         IF result.key.type = "private" /\ result.public.type = "public"
           THEN << BE(<<"shared", {result.public.of, result.key.of}>>) >>
           ELSE Throws

ExpectedSignature(r) ==
  IF r.algorithm = "ECDSA" THEN StandardSignature(r.key.of, Text(r.data))
  ELSE NativeCmac(SecretBytes(r.key.of), Text(r.data))

IsSigned(r) ==
  IF r.algorithm = "ECDSA" THEN IsPrefix(ExpectedSignature(r), r.signature)
  ELSE r.signature = ExpectedSignature(r)

(***************************************************************************)
(* verify answers true exactly for a signature of this data by this key,   *)
(* made here or by another implementation, in whatever format the key came,*)
(* and throws only for a key of the wrong type.  With ECDSA the signature  *)
(* is what the first 64 bytes are: what follows them is ignored.           *)
(***************************************************************************)
VerifyIsRight ==
  result.op = "verify" =>
    result.out = IF result.key.type = IF result.algorithm = "ECDSA"
                                        THEN "public" ELSE "secret"
                   THEN << IsSigned(result) >>
                   ELSE Throws

SameKey == result.key.raw = result.of.key.raw /\ result.param = result.of.param

(***************************************************************************)
(* AES-GCM: decrypt gives back what encrypt was given under the same key   *)
(* and vector, and refuses that ciphertext under any other.                *)
(***************************************************************************)
DecryptsAesGcm ==
  result.op = "decrypt" /\ result.of.algorithm = "AES-GCM" =>
    result.out = IF SameKey THEN Text(result.of.data) ELSE Throws

(***************************************************************************)
(* README.md says of crypto.subtle: "It matches Web Crypto API", in which  *)
(* decrypt gives back what encrypt got under the same key and counter.     *)
(***************************************************************************)
DecryptsAesCtr ==
  result.op = "decrypt" /\ result.of.algorithm = "AES-CTR" /\ SameKey =>
    result.out = Text(result.of.data)
=============================================================================
