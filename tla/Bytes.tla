-------------------------------- MODULE Bytes -------------------------------
(***************************************************************************)
(* scl2::bytearray (src/include/bytearray.hpp, src/src/bytearray.cpp):     *)
(* values that are appended at one end and read back through a cursor, the *)
(* operations that change the array under the cursor, and its bit strings. *)
(*                                                                         *)
(* A number is WordSize bytes instead of 4.  In the bit operations a byte  *)
(* has BitsPerByte bits instead of 8.                                      *)
(***************************************************************************)
EXTENDS Integers, Sequences, SequencesExt

CONSTANTS WordSize,      \* bytes of an uint32_t
          BitsPerByte,   \* bits of a byte in the bit operations
          Items,         \* what is appended: records made by the operators below
          MaxItems       \* bound: items in an array

VARIABLES array,         \* the content, read_pointer and write_pointer
          items,         \* what the content consists of
          next,          \* the item that the reader asks for next
          outcome        \* the last read: the item, what came, where it began

bytesVars == <<array, items, next, outcome>>

Bytes(content) == [content |-> content, r |-> 0, w |-> 0]
EmptyBytes == Bytes(<<>>)

\* The native representation of a number: the lowest byte first.
Above(n, count) ==   \* without its count lowest bytes
    LET left[i \in 0..count] == IF i = 0 THEN n ELSE left[i - 1] \div 256 IN left[count]
Native(n, size) == [i \in 1..size |-> Above(n, i - 1) % 256]
Word(n) == Native(n, WordSize)
Number(bytes) ==
    LET sum[i \in 0..Len(bytes)] ==
            IF i = 0 THEN 0 ELSE 256 * sum[i - 1] + bytes[Len(bytes) + 1 - i]
    IN sum[Len(bytes)]

Part(bytes, from, to) == SubSeq(bytes, from + 1, IF to < Len(bytes) THEN to ELSE Len(bytes))

-----------------------------------------------------------------------------
(* Writing. *)

\* Mutant: what is inserted overwrites.
InsertAt0_Overwrites(a, pos, bytes) ==
    [a EXCEPT !.content = Part(@, 0, pos) \o bytes \o Part(@, pos + Len(bytes), Len(@))]
\* The write pointer stays where it is.
InsertAt0(a, pos, bytes) ==
    [a EXCEPT !.content = Part(@, 0, pos) \o bytes \o Part(@, pos, Len(@))]
Appended(a, bytes) == InsertAt0(a, Len(a.content), bytes)

NumberItem(n) == [kind |-> "number", value |-> <<n>>]
StringItem(bytes) == [kind |-> "string", value |-> bytes]
RawItem(bytes) == [kind |-> "raw", value |-> bytes]
\* A container of trivially copyable elements: their number, the size of one,
\* and the elements, which are words here.
ContainerItem(numbers) == [kind |-> "container", value |-> numbers]

Encoded(item) ==
    CASE item.kind = "number" -> Word(item.value[1])
      [] item.kind = "string" -> Word(Len(item.value)) \o item.value
      [] item.kind = "raw" -> item.value
      [] item.kind = "container" ->
            Word(Len(item.value)) \o Word(WordSize)
                \o FlattenSeq([i \in DOMAIN item.value |-> Word(item.value[i])])

\* What callers have: bytes, and numbers and lengths of an uint32_t.
ByteRange == 0..255
IsWord(n) == n \in Nat /\ Above(n, WordSize) = 0
IsItem(item) ==
    /\ item = [kind |-> item.kind, value |-> item.value]
    /\ \/ /\ item.kind \in {"string", "raw"} /\ item.value \in Seq(ByteRange)
          /\ item.kind = "string" => IsWord(Len(item.value))
       \/ /\ item.kind \in {"number", "container"} /\ item.value \in Seq(Nat)
          /\ \A i \in 1..Len(item.value) : IsWord(item.value[i])
          /\ IF item.kind = "number" THEN Len(item.value) = 1
             ELSE IsWord(Len(item.value)) /\ IsWord(WordSize)

BytesAssumption == /\ WordSize \in Nat \ {0} /\ BitsPerByte \in Nat \ {0} /\ MaxItems \in Nat
                   /\ \A item \in Items : IsItem(item)
ASSUME BytesAssumption

-----------------------------------------------------------------------------
(* Reading: the result or an error, and the array after. *)

Available(a, n) == a.r + n <= Len(a.content)
Next0(a, n) == Part(a.content, a.r, a.r + n)
Moved(a, n) == [a EXCEPT !.r = @ + n]
OutOfRange == <<-1>>   \* the exception
Mismatch == <<-2>>     \* the other one
Read(value, a) == [value |-> value, next |-> a]

ReadBytes(a, n) == IF Available(a, n) THEN Read(Next0(a, n), Moved(a, n)) ELSE Read(OutOfRange, a)
ReadNative(a, size) ==
    IF Available(a, size) THEN Read(<<Number(Next0(a, size))>>, Moved(a, size)) ELSE Read(OutOfRange, a)
ReadNumber(a) == ReadNative(a, WordSize)

\* The length stays read when the rest of the string is missing.
ReadString(a) ==
    IF ~Available(a, WordSize) THEN Read(OutOfRange, a)
    ELSE LET length == ReadNumber(a) IN
         IF length.value = <<0>> THEN Read(<<>>, length.next) ELSE ReadBytes(length.next, length.value[1])

\* The size of all elements is an uint32_t too.
Wrapped(n) == Number(Word(n))

\* An empty container leaves the size of its elements to the next read.  Elements
\* that are not covered by the bytes that are read stay zero.
ReadContainer(a) ==
    IF ~Available(a, WordSize) THEN Read(OutOfRange, a)
    ELSE LET count == ReadNumber(a)
             size == ReadNumber(count.next)
             all == ReadBytes(size.next, Wrapped(count.value[1] * size.value[1]))
         IN IF count.value = <<0>> THEN Read(<<>>, count.next)
            ELSE IF size.value = OutOfRange THEN size
            ELSE IF size.value /= <<WordSize>> THEN Read(Mismatch, size.next)
            ELSE IF all.value = OutOfRange THEN all
            ELSE Read([i \in 1..count.value[1] |->
                          Number(Part(all.value, (i - 1) * WordSize, i * WordSize))], all.next)

ReadItem(a, item) ==
    CASE item.kind = "number" -> ReadNumber(a)
      [] item.kind = "string" -> ReadString(a)
      [] item.kind = "raw" -> ReadBytes(a, Len(item.value))
      [] item.kind = "container" -> ReadContainer(a)

-----------------------------------------------------------------------------
(* Changing what is there: read_pointer is left alone. *)

Erased(a, pos, n) == [a EXCEPT !.content = Part(@, 0, pos) \o Part(@, pos + n, Len(@))]
Replaced0(a, pos, n, bytes) ==
    [a EXCEPT !.content = Part(@, 0, pos) \o bytes \o Part(@, pos + n, Len(@))]
Cut(a, n) == [a EXCEPT !.content = Part(@, 0, n)]

SubArray(bytes, begin, n) == IF begin >= Len(bytes) THEN <<>> ELSE Part(bytes, begin, begin + n)
RotatedLeft(bytes, o) ==
    IF bytes = <<>> \/ o = 0 THEN bytes
    ELSE LET by == o % Len(bytes) IN Part(bytes, by, Len(bytes)) \o Part(bytes, 0, by)
RotatedRight(bytes, o) ==
    IF bytes = <<>> \/ o = 0 THEN bytes ELSE RotatedLeft(bytes, Len(bytes) - (o % Len(bytes)))

-----------------------------------------------------------------------------
(* Bit operations, on bytes of BitsPerByte bits. *)

Low(b) == b % 2^BitsPerByte
ShiftLeft(b, n) == Low(b * 2^n)
ShiftRight(b, n) == b \div 2^n
ByteAt(bytes, i) == IF i \in 1..Len(bytes) THEN bytes[i] ELSE 0

\* Every byte of the result gets a part of two bytes that do not overlap.
BitShiftLeft(bytes, offset) ==
    LET by == offset \div BitsPerByte
        bits == offset % BitsPerByte
    IN [i \in DOMAIN bytes |-> ShiftLeft(ByteAt(bytes, i + by), bits)
                                + ShiftRight(ByteAt(bytes, i + by + 1), BitsPerByte - bits)]
BitShiftRight(bytes, offset) ==
    LET by == offset \div BitsPerByte
        bits == offset % BitsPerByte
    IN [i \in DOMAIN bytes |-> ShiftRight(ByteAt(bytes, i - by), bits)
                                + ShiftLeft(ByteAt(bytes, i - by - 1), BitsPerByte - bits)]

Around(bytes, i) == bytes[((i - 1) % Len(bytes)) + 1]
\* The bits that leave a byte at its high end go to the byte after it.
BitRotateLeft(bytes, offset) ==
    LET by == (offset \div BitsPerByte) % Len(bytes)
        bits == offset % BitsPerByte
    IN IF bytes = <<>> \/ offset = 0 THEN bytes
       ELSE [i \in DOMAIN bytes |-> ShiftLeft(Around(bytes, i + by), bits)
                                     + ShiftRight(Around(bytes, i + by - 1 + Len(bytes)), BitsPerByte - bits)]
BitRotateRight(bytes, offset) ==
    LET by == (offset \div BitsPerByte) % Len(bytes)
        bits == offset % BitsPerByte
    IN IF bytes = <<>> \/ offset = 0 THEN bytes
       ELSE [i \in DOMAIN bytes |-> ShiftRight(Around(bytes, i - by + Len(bytes)), bits)
                                     + ShiftLeft(Around(bytes, i - by - 1 + 2 * Len(bytes)), BitsPerByte - bits)]

BitTakeLeft(bytes, count) ==
    LET whole == count \div BitsPerByte
        bits == count % BitsPerByte
        split == bytes[whole + 1]
    IN IF count = 0 THEN <<>>
       ELSE IF whole >= Len(bytes) THEN bytes
       ELSE Part(bytes, 0, whole)
                \o (IF bits = 0 THEN <<>> ELSE <<split - (split % 2^(BitsPerByte - bits))>>)

\* The bits of the byte before are put in front, and all are moved to the left.
BitTakeRight(bytes, count) ==
    LET whole == count \div BitsPerByte
        bits == count % BitsPerByte
        taken == Part(bytes, Len(bytes) - whole, Len(bytes))
        before == bytes[Len(bytes) - whole] % 2^bits
    IN IF count = 0 THEN <<>>
       ELSE IF whole >= Len(bytes) THEN bytes
       ELSE IF bits = 0 THEN taken
       ELSE BitShiftLeft(<<before>> \o taken, BitsPerByte - bits)

-----------------------------------------------------------------------------
Nothing == [item |-> 0, value |-> <<>>, began |-> 0]

\* Where item i begins.
Place(i) == Len(FlattenSeq([j \in 1..(i - 1) |-> Encoded(items[j])]))

BytesInit == array = EmptyBytes /\ items = <<>> /\ next = 1 /\ outcome = Nothing

AppendItem(item) ==
    /\ Len(items) < MaxItems
    /\ array' = Appended(array, Encoded(item))
    /\ items' = Append(items, item)
    /\ UNCHANGED next

\* seekw() to an item, and insert() there.
InsertItem(i, item) ==
    /\ Len(items) < MaxItems
    /\ array' = InsertAt0([array EXCEPT !.w = Place(i)], Place(i), Encoded(item))
    /\ items' = InsertAt(items, i, item)
    /\ UNCHANGED next

EraseItem(i) ==
    /\ array' = Erased(array, Place(i), Len(Encoded(items[i])))
    /\ items' = RemoveAt(items, i)
    /\ next' = IF next > Len(items) THEN Len(items) ELSE next

ReplaceItem(i, item) ==
    /\ array' = Replaced0(array, Place(i), Len(Encoded(items[i])), Encoded(item))
    /\ items' = ReplaceAt(items, i, item)
    /\ UNCHANGED next

ReadNext ==
    /\ next \in DOMAIN items
    /\ LET read == ReadItem(array, items[next])
       IN /\ array' = read.next
          /\ outcome' = [item |-> next, value |-> read.value, began |-> array.r]
    /\ next' = next + 1
    /\ UNCHANGED items

\* seekr(0)
Rewind == array' = [array EXCEPT !.r = 0] /\ next' = 1 /\ UNCHANGED items
ClearBytes == array' = EmptyBytes /\ items' = <<>> /\ next' = 1

BytesNext ==
    \/ ReadNext
    \/ /\ \/ \E item \in Items : AppendItem(item)
          \/ \E i \in DOMAIN items : EraseItem(i) \/ \E item \in Items : InsertItem(i, item) \/ ReplaceItem(i, item)
          \/ Rewind \/ ClearBytes
       /\ outcome' = Nothing

BytesSpec == BytesInit /\ [][BytesNext]_bytesVars

-----------------------------------------------------------------------------
\* The elements of every container take fewer bytes than an uint32_t counts: of a
\* longer one readContainer() returns the beginning and reads on in its middle.
ContainersFit ==
    \A item \in Items : item.kind = "container" => IsWord(Len(item.value) * WordSize)

\* A read that begins where an item begins returns that item and ends where it
\* ends, but for an empty container, whatever has been inserted, replaced or
\* erased before.  The items are such that ContainersFit.
ReadsFindTheirItems ==
    outcome /= Nothing /\ outcome.began = Place(outcome.item) =>
        LET item == items[outcome.item] IN
        /\ outcome.value = item.value
        /\ item /= ContainerItem(<<>>) => array.r = Place(outcome.item + 1)

\* Of an array that has been cut off anywhere, a reader gets the items that are
\* whole and then an error, and never a value that was not written.
CutOffIsNoticed ==
    array.r = 0 /\ ContainerItem(<<>>) \notin ToSet(items) =>
        \A n \in 0..(Len(array.content) - 1) :
            LET reader[i \in 0..Len(items)] ==
                    IF i = 0 THEN Cut(array, n)
                    ELSE IF reader[i - 1].r < 0 THEN reader[i - 1]
                    ELSE LET read == ReadItem(reader[i - 1], items[i])
                         IN IF read.value = items[i].value THEN read.next
                            ELSE [read.next EXCEPT !.r = IF read.value = OutOfRange THEN -1 ELSE -2]
            IN reader[Len(items)].r = -1

\* After any edits in front of or behind the cursor, what was written is found
\* where it was put, or not at all.
BytesAreFound == ReadsFindTheirItems /\ CutOffIsNoticed

Bits(bytes) == FlattenSeq([i \in DOMAIN bytes |->
                              [j \in 1..BitsPerByte |-> ShiftRight(bytes[i], BitsPerByte - j) % 2]])
Zero(n) == [i \in 1..n |-> 0]
Fill(bits) == bits \o Zero((-Len(bits)) % BitsPerByte)
LowerOf(n, m) == IF n < m THEN n ELSE m
Altered(content) == [i \in DOMAIN content |-> Low(content[i] + i)]
\* The bits of an array that is shifted, rotated to the right or taken from are one
\* string: what leaves it at one end is gone or comes back at the other, and what
\* is taken is moved to the front.  Whole bytes can be rotated there and back.
BitsMoveAsOne ==
    LET bytes == Altered(array.content)
        bits == Bits(bytes)
        size == Len(bits)
    IN array.r = 0 => \A n \in 0..(size + 1) :
          LET m == LowerOf(n, size) IN
          /\ Bits(BitShiftLeft(bytes, n)) = Part(bits, m, size) \o Zero(m)
          /\ Bits(BitShiftRight(bytes, n)) = Zero(m) \o Part(bits, 0, size - m)
          /\ bytes /= <<>> => Bits(BitRotateRight(bytes, n))
                                = [i \in 1..size |-> bits[((i - 1 - n) % size) + 1]]
          /\ Bits(BitTakeLeft(bytes, n)) = Fill(Part(bits, 0, m))
          /\ Bits(BitTakeRight(bytes, n)) = Fill(Part(bits, size - m, size))
          /\ \A k \in 0..Len(bytes) : RotatedRight(RotatedLeft(bytes, k), k) = bytes

\* bytearray.hpp: "Shift and rotate at bit level.  The offset is in bits, not
\* bytes."  bitRotateLeft() turns the string of bits as bitRotateRight() does.
BitsRotateLeft ==
    LET bits == Bits(Altered(array.content)) IN
    array.content /= <<>> => \A n \in 0..Len(bits) :
        Bits(BitRotateLeft(Altered(array.content), n))
            = [i \in 1..Len(bits) |-> bits[((i - 1 + n) % Len(bits)) + 1]]
=============================================================================
