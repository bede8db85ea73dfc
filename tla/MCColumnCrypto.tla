---------------------------- MODULE MCColumnCrypto ----------------------------
\* What the REST interface does to data, for TLC: the encryption of columns, the
\* rows of a table, and the algorithms on all short texts.  They share no state,
\* so each is run by itself: "probe" says which, or holds the text.
EXTENDS ColumnCrypto, TableData, TLC

CONSTANTS u1, u2, k1, k2, k3, MaxText,
          TagLen, Block, PubLen, SaltLen, Word, Base, MaxRsa   \* of Ciphers

\* No length of the algorithms is 0 (a salt might be), and a byte has two values at least.
ASSUME LengthAssumption ==
    /\ {TagLen, Block, PubLen, Word} \subseteq Nat \ {0}
    /\ {SaltLen, MaxRsa, MaxText} \subseteq Nat
    /\ Base \in Nat \ {0, 1}

VARIABLE probe

Short(S, n) == UNION {[1..k -> S] : k \in 0..n}
MCPlans ==
    {[files |-> {}, edits |-> 2, pages |-> {0, 1, 3}],
     [files |-> {<<"int", "bad", "int", "real">>}, edits |-> 1, pages |-> {1}],
     [files |-> Short(CsvValues \cup {"bad"}, 3), edits |-> 0, pages |-> {}]}

MCKindOf == k1 :> "cipher" @@ k2 :> "oneway" @@ k3 :> "rsa"
MCOwnerOf == k1 :> u1 @@ k2 :> u1 @@ k3 :> u2
MCPrinted == "text" :> "text" @@ "blob" :> "[98 108]" @@ "[98 108]" :> "[98 108]"
MCFirst == <<Plain("blob"), [plain |-> "text", layers |-> <<k1>>]>>

Crypto == INSTANCE Ciphers

Texts == UNION {[1..n -> 0..2] : n \in 0..MaxText}
Numbers == 1..(Crypto!Pow(Word) - 1)
Aads == {<<>>, <<<<"aad", "none", "none", 1>>>>, <<<<"aad", "none", "none", 2>>>>}

Probes ==
    [of : {"text"}, algo : Crypto!Algorithms, p : Texts, aad : Aads]
    \cup [of : {"sign"}, r : Numbers, s : Numbers, data : {"signed", "other"}]
On(x) == probe = [of |-> x]

NoData == TableInit /\ ~strict /\ coltype = "none" /\ plan.files = {}

MCInit ==
    /\ Init
    /\ \/ On("columns") /\ NoData
       \/ On("table") /\ (NoData \/ (TableInit /\ plan.files # {}))
       \/ probe \in Probes /\ NoData
MCNext ==
    /\ UNCHANGED probe
    /\ \/ On("columns") /\ Next /\ UNCHANGED tableVars
       \/ On("table") /\ TableNext /\ UNCHANGED vars
MCSpec == MCInit /\ [][MCNext]_<<vars, tableVars, probe>>

Sealed(aad) == Crypto!Encrypt(probe.algo, "key", "nonce", probe.p, aad, 5, 7)

\* Decrypt gives back what Encrypt was given for the five ciphers, whatever the
\* length of the text and with or without additional data; for the other three
\* algorithms Encrypt accepts, it gives something else (algorithms.go,
\* modern.go:60, 93, 147).
ProbeRoundTrip ==
    probe.of = "text" /\ Crypto!Fits(probe.algo, probe.p) =>
        ((Crypto!Decrypt(probe.algo, "key", Sealed(probe.aad), probe.aad) = Crypto!Took(probe.p))
            <=> probe.algo \in Crypto!Sealing \cup {"rsa-oaep-4096"})

\* A ciphertext opens with no other key, additional data or tag than its own.
ProbeBinding ==
    probe.of = "text" /\ probe.algo \in Crypto!Sealing =>
        LET e == Sealed(probe.aad) IN
        /\ Crypto!Decrypt(probe.algo, "other", e, probe.aad) = Crypto!Failed
        /\ \A a \in Aads \ {probe.aad} :
              /\ Crypto!Decrypt(probe.algo, "key", e, a) = Crypto!Failed
              /\ Crypto!Decrypt(probe.algo, "key", [e EXCEPT !.tag = Sealed(a).tag], probe.aad) = Crypto!Failed

\* A signature of ecdsa-p256 verifies for its own data if both of its numbers
\* need all their bytes; otherwise Sign leaves leading zeros out and Verify
\* refuses the length (modern.go:163, 175).
ProbeSignature ==
    probe.of = "sign" =>
        Crypto!EcdsaVerify(probe.data, Crypto!EcdsaSign(probe.r, probe.s), "signed", probe.r, probe.s)
            = IF probe.r < Crypto!Pow(Word - 1) \/ probe.s < Crypto!Pow(Word - 1) THEN "error"
              ELSE IF probe.data = "signed" THEN "valid" ELSE "invalid"

\* The algorithms, on every short text.
CipherLaws == ProbeRoundTrip /\ ProbeBinding /\ ProbeSignature

=============================================================================
