------------------------------- MODULE Cipher -------------------------------
(***************************************************************************)
(* aes_ecb and aes_cbc (src/src/aes.cpp): padding, the two modes, their    *)
(* stream_type objects, and encrypt_stream() and decrypt_stream()          *)
(* (src/include/encryption_api.hpp).                                       *)
(*                                                                         *)
(* The rounds are left out: under one key a block is enciphered by some    *)
(* permutation of the blocks.                                              *)
(***************************************************************************)
EXTENDS Integers, Sequences

CONSTANTS CipherBlock,      \* bytes of a block, 16 in the code
          ByteValues,       \* values of a byte, 256 in the code
          IV,               \* the initial vector of the key for cbc
          EncryptBlock(_),  \* aes_encrypt_blk() and aes_decrypt_blk(), under
          DecryptBlock(_),  \* the key of the object
          CipherXor(_, _),  \* ^ of two bytes
          MaxPlain          \* bound: bytes of a plain text

CipherBytes == 0..(ByteValues - 1)
CipherBlocks == [1..CipherBlock -> CipherBytes]

\* The length of the padding fits a byte, the rounds are a permutation that
\* aes_decrypt_blk() inverts, and xor with one byte undoes itself.
CipherAssumption ==
    /\ CipherBlock \in Nat \ {0} /\ ByteValues \in Nat /\ CipherBlock < ByteValues
    /\ IV \in CipherBlocks
    /\ \A b \in CipherBlocks :
          /\ EncryptBlock(b) \in CipherBlocks /\ DecryptBlock(EncryptBlock(b)) = b
          /\ DecryptBlock(b) \in CipherBlocks /\ EncryptBlock(DecryptBlock(b)) = b
    /\ \A x, y \in CipherBytes : CipherXor(x, y) \in CipherBytes /\ CipherXor(CipherXor(x, y), y) = x
ASSUME CipherAssumption

VARIABLES cipher,        \* a stream_type object that encrypts
          plain,         \* what it has been given
          enciphered,    \* what it has returned
          met            \* some chunk has met a part of a block in its buffer

cipherVars == <<cipher, plain, enciphered, met>>

Invalid == <<-1>>   \* for std::invalid_argument: no byte is below 0
Modes == {"ecb", "cbc"}

BlockOf(bytes, i) == SubSeq(bytes, (i - 1) * CipherBlock + 1, i * CipherBlock)
WholeBlocks(bytes) == Len(bytes) \div CipherBlock
Rest(bytes) == SubSeq(bytes, WholeBlocks(bytes) * CipherBlock + 1, Len(bytes))
Mixed(b, c) == [j \in 1..CipherBlock |-> CipherXor(b[j], c[j])]

\* The bytes of a sequence of blocks.
OfBlocks(blocks) ==
    [k \in 1..(Len(blocks) * CipherBlock) |->
        blocks[((k - 1) \div CipherBlock) + 1][((k - 1) % CipherBlock) + 1]]

-----------------------------------------------------------------------------
(* encrypt() and decrypt() *)

Padding(n) == [i \in 1..n |-> n]
Padded(data) == data \o Padding(CipherBlock - (Len(data) % CipherBlock))

\* Mutant: only the last byte of the padding is looked at.
Unpadded_LastOnly(data) ==
    LET n == data[Len(data)]
    IN IF n \notin 1..CipherBlock THEN Invalid ELSE SubSeq(data, 1, Len(data) - n)
Unpadded(data) ==
    LET n == data[Len(data)]
    IN IF n \notin 1..CipherBlock \/ \E i \in 1..n : data[Len(data) - n + i] /= n THEN Invalid
       ELSE SubSeq(data, 1, Len(data) - n)

\* What goes through the rounds for block b after the block `before` of the result.
Entering(mode, b, before) == IF mode = "cbc" THEN Mixed(b, before) ELSE b

\* The blocks of bytes, the first of them chained to chain.
EncryptBlocks(mode, chain, bytes) ==
    LET done[i \in 0..WholeBlocks(bytes)] ==
            IF i = 0 THEN chain ELSE EncryptBlock(Entering(mode, BlockOf(bytes, i), done[i - 1]))
    IN OfBlocks([i \in 1..WholeBlocks(bytes) |-> done[i]])
DecryptBlocks(mode, chain, bytes) ==
    OfBlocks([i \in 1..WholeBlocks(bytes) |->
                 LET b == DecryptBlock(BlockOf(bytes, i))
                 IN IF mode = "ecb" THEN b
                    ELSE Mixed(b, IF i = 1 THEN chain ELSE BlockOf(bytes, i - 1))])

Encrypt(mode, data) == EncryptBlocks(mode, IV, Padded(data))
Decrypt(mode, data) ==
    IF data = <<>> \/ Len(data) % CipherBlock /= 0 THEN Invalid
    ELSE Unpadded(DecryptBlocks(mode, IV, data))

-----------------------------------------------------------------------------
(* stream_type: a record with mode, dir and the bytes of an unfinished block. *)

NewCipher(mode, dir) == [mode |-> mode, dir |-> dir, buf |-> <<>>]

\* What update() puts through the cipher: a buffer that the chunk has completed,
\* and then the chunk again from its first byte.
Processed(buf, chunk) ==
    LET missing == CipherBlock - Len(buf)
    IN IF buf = <<>> THEN chunk
       ELSE buf \o SubSeq(chunk, 1, missing) \o chunk

\* Both modes begin with the key's initial vector in every call.
CipherUpdate(s, chunk) ==
    IF s.buf /= <<>> /\ Len(s.buf) + Len(chunk) < CipherBlock
    THEN [out |-> <<>>, next |-> [s EXCEPT !.buf = @ \o chunk]]
    ELSE LET bytes == Processed(s.buf, chunk)
         IN [out |-> IF s.dir = "encrypt" THEN EncryptBlocks(s.mode, IV, bytes)
                     ELSE DecryptBlocks(s.mode, IV, bytes),
             next |-> [s EXCEPT !.buf = Rest(bytes)]]

\* end() pads and encrypts, whatever the direction.
CipherEnd(s) == EncryptBlocks(s.mode, IV, s.buf \o Padding(CipherBlock - Len(s.buf)))

\* encrypt_stream() and decrypt_stream(): a read of one block at a time, the
\* last of them short or empty.
StreamedThrough(mode, dir, input) ==
    LET n == WholeBlocks(input)
        Chunk(i) == IF i <= n THEN BlockOf(input, i) ELSE Rest(input)
        read[i \in 0..(n + 1)] ==
            IF i = 0 THEN [out |-> <<>>, next |-> NewCipher(mode, dir)]
            ELSE LET u == CipherUpdate(read[i - 1].next, Chunk(i))
                 IN [u EXCEPT !.out = read[i - 1].out \o @]
    IN read[n + 1].out \o CipherEnd(read[n + 1].next)

-----------------------------------------------------------------------------
CipherInit == /\ cipher \in {NewCipher(mode, "encrypt") : mode \in Modes}
              /\ plain = <<>> /\ enciphered = <<>> /\ met = FALSE

CipherNext ==
    \E n \in 1..CipherBlock : \E chunk \in [1..n -> CipherBytes] :
        /\ Len(plain) + n <= MaxPlain
        /\ LET u == CipherUpdate(cipher, chunk) IN
           /\ cipher' = u.next
           /\ enciphered' = enciphered \o u.out
        /\ plain' = plain \o chunk
        /\ met' = (met \/ cipher.buf /= <<>>)

CipherSpec == CipherInit /\ [][CipherNext]_cipherVars

-----------------------------------------------------------------------------
\* decrypt() undoes encrypt() at every length, a whole number of blocks too.
DecryptUndoesEncrypt == Decrypt(cipher.mode, Encrypt(cipher.mode, plain)) = plain

\* A text that nobody enciphered is refused or is what encrypt() makes of the
\* result: every byte of the padding is looked at, and none is read twice.
CiphertextIsCanonical ==
    LET result == Decrypt(cipher.mode, plain)
    IN result /= Invalid => Encrypt(cipher.mode, result) = plain

\* encrypt_stream() writes for a file in ecb mode what encrypt() returns for its
\* contents, and so does a stream whose chunks never meet a part of a block; in
\* cbc mode a stream does as long as it has not returned a block.
StreamIsOneShot ==
    /\ StreamedThrough("ecb", "encrypt", plain) = Encrypt("ecb", plain)
    /\ ~met /\ (cipher.mode = "ecb" \/ enciphered = <<>>) =>
          enciphered \o CipherEnd(cipher) = Encrypt(cipher.mode, plain)

\* aes.md: "For files or large data that cannot fit in memory, use stream_type", with
\* update() for chunk after chunk.  Violated: the chunk that fills the buffer up is
\* enciphered with it and once more from its first byte on.
ChunksDoNotShow ==
    cipher.mode = "ecb" /\ cipher.dir = "encrypt" => enciphered \o CipherEnd(cipher) = Encrypt("ecb", plain)

\* Enciphering at once, deciphering and the stream are three implementations of
\* one one-to-one correspondence of texts.
CiphersAreInverse == DecryptUndoesEncrypt /\ CiphertextIsCanonical /\ StreamIsOneShot
=============================================================================
