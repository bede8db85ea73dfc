------------------------------- MODULE Ciphers -------------------------------
(***************************************************************************)
(* The algorithms behind Service.Encrypt, Decrypt, Sign, Verify and Hash   *)
(* (internal/crypto/algorithms.go, modern.go, crypto.go, engine.go), as    *)
(* far as this code composes them: what is padded, concatenated, cut off   *)
(* and checked, and where.  The primitives of Go's libraries are symbols:  *)
(* a sealed byte names the key, nonce and byte it was made from, and opens *)
(* with these only.  Lengths are scaled down (TagLen for 16 bytes, Block   *)
(* for 16, PubLen for 32, SaltLen for 16, Word for the 32 bytes of a       *)
(* number of P-256, Base for 256, MaxRsa for the 446 bytes of OAEP).       *)
(***************************************************************************)
EXTENDS Naturals, Sequences, FiniteSets

CONSTANTS TagLen, Block, PubLen, SaltLen, Word, Base, MaxRsa

Failed == [err |-> TRUE]
Took(p) == [err |-> FALSE, text |-> p]
Raw(b) == [err |-> FALSE, bytes |-> b]      \* a digest or a signature for a text
Prefix(s, n) == SubSeq(s, 1, n)
After(s, n) == SubSeq(s, n + 1, Len(s))

\* cipher.AEAD: Seal appends the tag to the ciphertext, Open checks it.
Seal(k, nonce, p, aad) ==
    [i \in 1..Len(p) |-> <<"ct", k, nonce, p[i]>>]
        \o [i \in 1..TagLen |-> <<"tag", k, nonce, <<p, aad>>>>]
Bare(s) == [i \in 1..Len(s) |-> s[i][4]]
Open(k, nonce, s, aad) ==
    LET n == Len(s) - TagLen  p == Bare(Prefix(s, n)) IN
    IF Len(s) >= TagLen /\ s = Seal(k, nonce, p, aad) THEN Took(p) ELSE Failed

\* aesGCMCrypter and chacha20Crypter: the tag travels beside the ciphertext.
AeadEncrypt(k, nonce, p, aad) ==
    LET out == Seal(k, nonce, p, aad) IN
    [ct |-> Prefix(out, Len(out) - TagLen), nonce |-> nonce, tag |-> After(out, Len(out) - TagLen)]
AeadDecrypt(k, e, aad) == Open(k, e.nonce, e.ct \o e.tag, aad)

-----------------------------------------------------------------------------
(* aesCBCCrypter: padding, then encryption, then a MAC. *)

\* Mutation: a text that fills its blocks is not padded.
PadUnlessAligned(data, size) ==
    LET n == (size - (Len(data) % size)) % size IN data \o [i \in 1..n |-> n]

padPKCS7(data, size) ==
    LET n == size - (Len(data) % size) IN data \o [i \in 1..n |-> n]

unpadPKCS7(data) ==
    LET n == data[Len(data)] IN
    IF data = <<>> \/ n > Len(data) \/ \E i \in Len(data) - n + 1..Len(data) : data[i] # n
    THEN Failed ELSE Took(Prefix(data, Len(data) - n))

Mac(k, nonce, ct, aad) == [i \in 1..TagLen |-> <<"mac", k, nonce, ct \o aad>>]

CbcEncrypt(k, nonce, p, aad) ==
    LET padded == padPKCS7(p, Block)
        ct == [i \in 1..Len(padded) |-> <<"ct", k, nonce, padded[i]>>]
    IN  [ct |-> ct, nonce |-> nonce, tag |-> Mac(k, nonce, ct, aad)]

CbcDecrypt(k, e, aad) ==
    IF e.tag # Mac(k, e.nonce, e.ct, aad) \/ e.ct = <<>> \/ Len(e.ct) % Block # 0 THEN Failed
    ELSE unpadPKCS7(Bare(e.ct))

-----------------------------------------------------------------------------
(* rsaCrypter and x25519Crypter. *)

RsaEncrypt(k, p, aad) ==
    [ct |-> <<<<"rsa", k, "none", <<p, aad>>>>>>, nonce |-> <<>>, tag |-> <<>>]
RsaDecrypt(k, e, aad) ==
    IF Len(e.ct) = 1 /\ e.ct[1][2] = k /\ e.ct[1][4][2] = aad THEN Took(e.ct[1][4][1]) ELSE Failed

\* The key HKDF derives from the shared secret of two key pairs and a salt.
Derived(a, b, salt) == <<"kdf", {a, b}, salt>>

X25519Encrypt(k, nonce, p, aad) ==
    LET salt == [i \in 1..SaltLen |-> <<"salt", nonce, "none", i>>]
        pub == [i \in 1..PubLen |-> <<"pub", "ephemeral", "none", i>>]
        out == Seal(Derived("ephemeral", k, salt), nonce, p, aad)
    IN  [ct |-> pub \o salt \o Prefix(out, Len(out) - TagLen), nonce |-> nonce,
         tag |-> After(out, Len(out) - TagLen)]

X25519Decrypt(k, e, aad) ==
    IF Len(e.ct) < PubLen + SaltLen THEN Failed
    ELSE LET salt == SubSeq(e.ct, PubLen + 1, PubLen + SaltLen) IN
         Open(Derived(e.ct[1][2], k, salt), e.nonce, After(e.ct, PubLen + SaltLen) \o e.tag, aad)

-----------------------------------------------------------------------------
(* Signatures and digests. *)

Pow(n) == LET f[i \in 0..n] == IF i = 0 THEN 1 ELSE Base * f[i - 1] IN f[n]

\* big.Int.Bytes: as few bytes as the number needs, the highest first.
Bytes(n) ==
    LET len == CHOOSE i \in 0..Word : n < Pow(i) /\ (i = 0 \/ n >= Pow(i - 1)) IN
    [i \in 1..len |-> (n \div Pow(len - i)) % Base]
SetBytes(b) ==
    LET v[i \in 0..Len(b)] == IF i = 0 THEN 0 ELSE v[i - 1] * Base + b[i] IN v[Len(b)]

\* ecdsaCrypter.Sign: r and s as ecdsa.Sign happens to give them.
EcdsaSign(r, s) == Bytes(r) \o Bytes(s)

\* ecdsaCrypter.Verify of a signature over data, when r and s sign "signed".
EcdsaVerify(data, sig, signed, r, s) ==
    IF Len(sig) # 2 * Word THEN "error"
    ELSE IF data = signed /\ SetBytes(Prefix(sig, Word)) = r /\ SetBytes(After(sig, Word)) = s
         THEN "valid" ELSE "invalid"

\* ed25519Crypter: a signature is the library's own 64 bytes.
Ed25519Sign(k, data) == <<<<"sig", k, "none", data>>>>
Ed25519Verify(k, data, sig) == IF sig = Ed25519Sign(k, data) THEN "valid" ELSE "invalid"

\* ComputeHash, behind argon2 too: a symbol of what it digests.
Digest(algo, k, data) == <<<<algo, k, "none", data>>>>

-----------------------------------------------------------------------------
(* The service: one entry for every registered algorithm. *)

Sealing == {"aes-256-gcm", "chacha20-poly1305", "aes-256-cbc", "x25519-aes-256-gcm"}
Algorithms == Sealing \cup {"rsa-oaep-4096", "argon2id", "ed25519", "ecdsa-p256"}

Fits(algo, p) == algo = "rsa-oaep-4096" => Len(p) <= MaxRsa

Encrypt(algo, k, nonce, p, aad, r, s) ==
    CASE algo = "aes-256-cbc" -> CbcEncrypt(k, nonce, p, aad)
      [] algo = "x25519-aes-256-gcm" -> X25519Encrypt(k, nonce, p, aad)
      [] algo = "rsa-oaep-4096" -> RsaEncrypt(k, p, aad)
      [] algo = "argon2id" -> [ct |-> Digest(algo, k, p), nonce |-> k, tag |-> <<>>]
      [] algo = "ed25519" -> [ct |-> Ed25519Sign(k, p), nonce |-> <<>>, tag |-> <<>>]
      [] algo = "ecdsa-p256" -> [ct |-> EcdsaSign(r, s), nonce |-> <<>>, tag |-> <<>>]
      [] OTHER -> AeadEncrypt(k, nonce, p, aad)

Decrypt(algo, k, e, aad) ==
    CASE algo = "aes-256-cbc" -> CbcDecrypt(k, e, aad)
      [] algo = "x25519-aes-256-gcm" -> X25519Decrypt(k, e, aad)
      [] algo = "rsa-oaep-4096" -> RsaDecrypt(k, e, aad)
      [] algo = "argon2id" -> Raw(Digest(algo, e.nonce, e.ct))
      [] algo \in {"ed25519", "ecdsa-p256"} -> Raw(e.ct)
      [] OTHER -> AeadDecrypt(k, e, aad)
=============================================================================
