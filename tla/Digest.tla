------------------------------- MODULE Digest -------------------------------
(***************************************************************************)
(* The hash providers (src/src/sha256.cpp, sha1.cpp, sha512.cpp, crc32.cpp *)
(* and their headers), hash_stream() (src/include/hash_api.hpp) and        *)
(* hmac (src/include/hmac.hpp).                                            *)
(*                                                                         *)
(* The compression of a block is left out: the chaining state is the       *)
(* sequence of the blocks that went into it, and a digest is known by it.  *)
(* What is modelled is everything around it: buffering, padding, lengths   *)
(* and keys, with blocks of BlockSize bytes instead of 64 or 128.          *)
(***************************************************************************)
EXTENDS Integers, Sequences

CONSTANTS BlockSize,     \* bytes of a block
          LengthSize,    \* bytes of the length at the end of the last block
          ResultSize,    \* bytes of a digest
          MaxMessage     \* bound: bytes of a message

ASSUME BlockAssumption ==
    /\ BlockSize \in Nat /\ LengthSize \in 1..(BlockSize - 2)
    /\ ResultSize \in 1..BlockSize /\ MaxMessage \in Nat

VARIABLES hasher,        \* a stream_type object, with the provider it belongs to
          fed,           \* the bytes it has been fed
          digest         \* what end() returned, <<>> before

digestVars == <<hasher, fed, digest>>

\* sha1 and sha512 are the same but for their sizes.
Providers == {"sha256", "sha1", "crc32"}

Byte(value) == [byte |-> value]
Zeros(n) == [i \in 1..n |-> Byte(0)]
Taken(bytes, n) == SubSeq(bytes, 1, n)
Dropped(bytes, n) == SubSeq(bytes, n + 1, Len(bytes))

\* The length in bits, big-endian.
LengthBytes(bits) == [i \in 1..LengthSize |-> Byte((bits \div 256^(LengthSize - i)) % 256)]

-----------------------------------------------------------------------------
(* stream_type *)

NewStream(provider) == [of |-> provider, state |-> <<>>, buffer |-> <<>>, bits |-> 0]

\* As many whole blocks as there are, one process_block() each.
Absorb(h, bytes) ==
    LET blocks == Len(bytes) \div BlockSize
        Block(i) == SubSeq(bytes, (i - 1) * BlockSize + 1, i * BlockSize)
    IN [h EXCEPT !.state = @ \o [i \in 1..blocks |-> Block(i)],
                 !.buffer = @ \o Dropped(bytes, blocks * BlockSize)]

\* What is buffered is completed first, when the chunk has enough for that.
Filled(h, chunk) ==
    IF h.buffer /= <<>> /\ Len(h.buffer) + Len(chunk) >= BlockSize
    THEN LET missing == BlockSize - Len(h.buffer)
         IN Absorb([h EXCEPT !.buffer = <<>>, !.state = Append(@, h.buffer \o Taken(chunk, missing))],
                   Dropped(chunk, missing))
    ELSE Absorb(h, chunk)

\* The table of crc32 takes a byte at a time: its state is all the bytes.
Updated(h, chunk) ==
    IF h.of = "crc32" THEN [h EXCEPT !.state = @ \o chunk]
    ELSE [Filled(h, chunk) EXCEPT !.bits = h.bits + 8 * Len(chunk)]

\* Mutant: a mark that just fits is followed by one more block.
FinishedInPlace_Tight(h) ==
    LET marked == Append(h.buffer, Byte(128))
        room == BlockSize - LengthSize
        full == Len(marked) >= room
        flushed == IF full THEN Append(h.state, marked \o Zeros(BlockSize - Len(marked))) ELSE h.state
        last == IF full THEN <<>> ELSE marked
    IN [h EXCEPT !.state = Append(flushed, last \o Zeros(room - Len(last)) \o LengthBytes(h.bits)),
                 !.buffer = last]
\* sha256: the padding goes straight into the buffer.
FinishedInPlace(h) ==
    LET marked == Append(h.buffer, Byte(128))
        room == BlockSize - LengthSize
        full == Len(marked) > room
        flushed == IF full THEN Append(h.state, marked \o Zeros(BlockSize - Len(marked))) ELSE h.state
        last == IF full THEN <<>> ELSE marked
    IN [h EXCEPT !.state = Append(flushed, last \o Zeros(room - Len(last)) \o LengthBytes(h.bits)),
                 !.buffer = last]

\* sha1, sha512: the padding is one more update().
FinishedByUpdate(h) ==
    LET room == BlockSize - LengthSize
        padded == IF Len(h.buffer) < room THEN room - Len(h.buffer)
                  ELSE room + BlockSize - Len(h.buffer)
    IN Updated(h, <<Byte(128)>> \o Zeros(padded - 1) \o LengthBytes(h.bits))

Finished(h) ==
    CASE h.of = "sha256" -> FinishedInPlace(h)
      [] h.of = "sha1" -> FinishedByUpdate(h)
      [] h.of = "crc32" -> h

Result(h) == [i \in 1..ResultSize |-> [byte |-> i, of |-> Finished(h).state]]

-----------------------------------------------------------------------------
(* hash() *)

\* sha256 does not use its stream: preprocessing() and breakTextInto64ByteChunks().
Preprocessed(message) ==
    LET remainder == Len(message) % BlockSize
        room == BlockSize - LengthSize
        added == IF remainder < room THEN room - remainder
                 ELSE IF remainder = room THEN BlockSize
                 ELSE BlockSize - remainder + room
    IN message \o <<Byte(128)>> \o Zeros(added - 1) \o LengthBytes(8 * Len(message))

Hash(provider, message) ==
    IF provider = "sha256"
    THEN [i \in 1..ResultSize |->
            [byte |-> i, of |-> Absorb(NewStream(provider), Preprocessed(message)).state]]
    ELSE Result(Updated(NewStream(provider), message))

\* hash_stream(): the input is read in pieces of the provider's block_size.
PieceSize(provider) == IF provider = "crc32" THEN 1 ELSE BlockSize
Pieces(provider, input) ==
    LET size == PieceSize(provider)
        count == (Len(input) + size - 1) \div size
    IN [i \in 1..count |-> SubSeq(input, (i - 1) * size + 1, IF i * size < Len(input) THEN i * size ELSE Len(input))]
HashStream(provider, input) ==
    LET pieces == Pieces(provider, input)
        Read[i \in 0..Len(pieces)] ==
            IF i = 0 THEN NewStream(provider) ELSE Updated(Read[i - 1], pieces[i])
    IN Result(Read[Len(pieces)])

-----------------------------------------------------------------------------
(* hmac<provider>::compute(), which throws when a hashed key is too long. *)

TooLong == <<"hash provider output is larger than HMAC block_size">>

NormalizedKey(provider, key) == IF Len(key) > PieceSize(provider) THEN Hash(provider, key) ELSE key

Keyed(key, size, pad) == [i \in 1..size |-> [xor |-> pad, byte |-> IF i <= Len(key) THEN key[i] ELSE Byte(0)]]

Hmac(provider, message, key) ==
    LET normalized == NormalizedKey(provider, key)
        size == PieceSize(provider)
    IN IF Len(normalized) > size THEN TooLong
       ELSE Hash(provider, Keyed(normalized, size, 92)
                               \o Hash(provider, Keyed(normalized, size, 54) \o message))

-----------------------------------------------------------------------------
Message(first, n) == [i \in 1..n |-> Byte(first + i)]

DigestInit == /\ hasher \in {NewStream(p) : p \in Providers}
              /\ fed = <<>>
              /\ digest = <<>>

Update ==
    /\ digest = <<>>
    /\ \E n \in 0..(MaxMessage - Len(fed)) :
          LET chunk == Message(Len(fed), n) IN
          /\ hasher' = Updated(hasher, chunk)
          /\ fed' = fed \o chunk
    /\ UNCHANGED digest

\* The object is not set back: a second end() would pad what is padded.
End ==
    /\ digest = <<>>
    /\ digest' = Result(hasher)
    /\ hasher' = Finished(hasher)
    /\ UNCHANGED fed

DigestNext == Update \/ End
DigestSpec == DigestInit /\ [][DigestNext]_digestVars

-----------------------------------------------------------------------------
\* What FIPS 180-4 feeds to the compression: the message, a one bit, the fewest
\* zeros that make room for the length in a last block, and the length.
StandardBlocks(message) ==
    LET least == Len(message) + 1 + LengthSize
        total == CHOOSE n \in least..(least + BlockSize - 1) : n % BlockSize = 0
        padded == message \o <<Byte(128)>> \o Zeros(total - least) \o LengthBytes(8 * Len(message))
    IN [b \in 1..(total \div BlockSize) |-> SubSeq(padded, (b - 1) * BlockSize + 1, b * BlockSize)]

Standard(provider, message) ==
    [i \in 1..ResultSize |->
        [byte |-> i, of |-> IF provider = "crc32" THEN message ELSE StandardBlocks(message)]]

\* However the message was cut into chunks, end() returns the digest of the
\* whole of it, with the padding of the standard.
DigestIsStandard ==
    digest /= <<>> => digest = Standard(hasher.of, fed)

\* hash() and hash_stream() agree with that for every length; sha256 has a
\* second implementation for hash().
ShortcutsAgree ==
    digest = <<>> => /\ Hash(hasher.of, fed) = Standard(hasher.of, fed)
                     /\ HashStream(hasher.of, fed) = Standard(hasher.of, fed)

\* Two tags are the same only for the same message, and for keys that RFC 2104
\* makes the same: filled with zeros, or hashed when they are longer than a block.
SameKey(provider, k, l) ==
    LET KeyByte(key, i) == IF i <= Len(key) THEN key[i] ELSE Byte(0)
        Whole(key) == IF Len(key) > PieceSize(provider) THEN Standard(provider, key) ELSE key
    IN \A i \in 1..PieceSize(provider) : KeyByte(Whole(k), i) = KeyByte(Whole(l), i)
HmacKeys == {Message(m, n) : m \in {0, 1}, n \in 0..(BlockSize + 1)}
                \cup {Append(Message(0, n), Byte(0)) : n \in 0..BlockSize}
TagsSeparate ==
    (hasher.of /= "crc32" /\ digest = <<>>) =>
        \A k, l \in HmacKeys : \A other \in {fed, Append(fed, Byte(0)), Taken(fed, Len(fed) - 1)} :
            Hmac(hasher.of, fed, k) = Hmac(hasher.of, other, l)
                <=> fed = other /\ SameKey(hasher.of, k, l)

\* Digests and tags are those of the standards, however the message came.
DigestsAreStandard == DigestIsStandard /\ ShortcutsAgree /\ TagsSeparate
=============================================================================
