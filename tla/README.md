# SharedCppLib2: specifications, model checking and proofs

This directory holds TLA+ specifications of SharedCppLib2, a C++23 utility
library: the code under `src/src` and `src/include`, read with `src/doc`.
Every specification is written from the code, and where the code and its
documents disagree it follows the code. Section 6 lists the disagreements. Three
of them have a run that must end in a violation; most of the others are stated as
properties that the code breaks, beside the ones that hold, and section 6 says
how to see TLC refute them. No property that a passing run checks asserts one
of them as if it were intended.

## 1. The system

The library is a set of modules that an application links. Most are pure
functions over values (parsers, codecs, hashes, containers). The ones that keep
state over time, talk to the outside or use threads are:

| component | state | operations | interacts with | what is hard |
|---|---|---|---|---|
| `keydb` | map `m_data`, diff of the last change, one `fstream` with mode, position, buffer and state bits; the file | open/create, `addKey`, `deleteKey`, `save`, `load`, `lock`, `release`, destructor | the file, other processes with the same file | partial updates, crashes between writes, stream state left failed, two programs on one file, offsets that go stale |
| `logt` | queue and stop flag of `logt_eventbus`, channel table, two bitsets, filter levels, worker thread | `addfile`, `addostream`, `stdcout`, filters, `logt_sig`, `logt_sso`, `shutdown`, `exit` | application threads, one worker, output streams | interleavings, shutdown draining, routing to channels that fail, unsynchronised bitsets |
| `tcpserver` | client table keyed by a growing id, listening socket, running flag | `start`, `stop`, `tick`, `clients`, `selectClient`, handler I/O | peers, `httpserver` | dangling handlers, ids, blocking accept, clients that are never removed |
| `httpserver` | routes, one input buffer per client id | `route`, `tick`, `handleClient` | `tcpserver`, `http` parsing | requests that arrive in pieces, two requests in one read, keep-alive |
| `httpclient` / `tcpclient` | socket, lock | `connect`, `disconnect`, request and response | a server | responses that arrive in pieces, end of stream, timeouts, a mutex that is locked twice |
| `udp` | socket, bound flag, peer | `bind`, `connect`, `sendTo`, `receiveFrom`, `read`, `close` | peers, the kernel's queue | timeouts, connected filtering, error paths |
| `eventloop` | queue of signals, running flag, children | `exec`, `exit`, `post`, children | one thread | `exit` before `exec`, iteration bugs |
| `process` | child process (Windows only) | start, wait, pipes | the system | not built on this platform |
| `condition` | expression trees | `evaluate`, `simplify`, normal forms, truth table, Quine-McCluskey | `condition_parser` | rewriting that must keep the meaning |
| `json` | a document; a position in a text | assignment through pointers, `push_back`, `erase`, parse, export, files | texts of others | what a file gives back, texts cut or malformed, escapes |
| `ini` | settings by section and key; a file | set, remove, save, load | people who edit the file | a text without escapes, layout around names and values |
| `yaml` | a document whose aliases are pointers into it; the parser's stack of frames | parse by lines, export, access by key and index | texts of others, programs that edit it | indentation that opens and closes scopes, pointers into containers that move |
| `xml`, `html` | a tree with remembered namespaces; head and body of a page | edit, `serialize`, `deserialize`, `reset` | texts of others | layout and contents in one field, what a reset forgets |
| `sha*`, `crc32`, `hmac`, `aes` | a buffer of less than a block, a chaining state | stream `update`, `end`; `encrypt`, `decrypt` | files in chunks | padding at the boundary, chunks of any size |
| `bytearray`, `filepack`, `datauri` | bytes, a cursor | append, insert, erase, read, shift; dump and load | texts and files | a cursor in contents that change, input that is cut off |
| `multindex` | three maps | insert, bind, erase, uniquefy | - | maps that get out of step |
| `arguments`, `stringlist` | words, the options found in them | parse, ask, join, split | the command line | policies that interact, quotes |
| `uri` | seven parts | parse, set, normalize, compare | texts of others | an object that is used again |
| `bitmap`, `drawer`, `qrcode` | pixels in aligned rows; modules of a symbol | resize, fit, overlay, draw, BMP; `generate` | files, scanners | widths that fill no byte, tables that must agree |
| `cache`, `lazyconstruct`, `singleinst`, `dictionary`, `pipeline`, `filemon` | small containers and guards | get/put, construct, destroy | each other not at all | a clear or destroy in the wrong order |

The others are values only: `regexfilter`, `string`, `xstring`, `bits`,
`base64`, `color`, `ansiio`, `math`, `symmath`, `symalgo`, `scalable`, `enum`,
`atxsort`, `indexer`, `i18n`, `structural_binding`, `rerr`, `scltypes`,
`abstract`; and thin layers over the operating system: `filesystem`, `file`,
`fileio`, `perm`, `memory`, `platform`, `console`, `network`, `dns`, `stream`,
`debug`.

How they interact:

- an application thread calls `logt` functions, which change the channel table
  and push messages on one queue; the worker thread pops them and writes to the
  channels. Queue, channels and the bitsets of registered and default channels
  are shared; only the queue and each single channel have a mutex.
- `httpserver` owns a `tcpserver`, calls its `tick()` to accept a connection and
  then handles each client id that `clients()` lists. `httpclient` owns a
  transport, usually a `tcpclient`. Client and server share nothing but the
  connection.
- `keydb` objects share nothing but the file: each has its own `fstream`, and
  what one buffers the other does not see.
- `condition_parser` builds trees through the factories of `condition_node`;
  `condition_simplifier` reads a tree through `evaluate()` and builds a new one.

What is correct for each of the stateful components:

| component | it is correct if |
|---|---|
| `keydb` | a file is read back as the map that was saved, or reported broken; a session shows the map the sessions before it left; the lock excludes other programs |
| `logt` | each message pushed before `shutdown()` is written, in order, once, to every channel it is routed to that is open and does not filter it; `shutdown()` returns |
| `tcpserver`, `httpserver` | each request is handled once and with its own body, whatever pieces it arrives in; each is answered; one client's data never reaches another's handler |
| `tcpclient`, `httpclient` | a call returns the response to its own request, or fails; nothing blocks for ever |
| `condition`, `condition_parser` | rewriting keeps the truth table, ends, and leaves its source alone; text and bytes are read back as what was written |
| `json` | what is written can be read and is the document; nothing but JSON is read; an assignment changes what it names |
| `ini` | saved settings come back; what others wrote is read the same way once it has been saved; layout means nothing |
| `udp` | descriptors have one owner; a datagram is received whole, from its sender, and an answer goes back there |
| `yaml`, `xml`, `html` | what is written is read back; layout and comments mean nothing; pointers and namespaces lead where they did; nothing is left of a former document |
| digests, ciphers | the result depends on the bytes and not on how they were cut; only what was enciphered is deciphered |
| `bytearray`, `filepack`, `multindex`, `arguments`, `uri` | what went in comes out, or an error; maps and questions agree with each other |
| `bitmap`, `qrcode` | pixels, bytes and files agree; whoever follows the standard reads the symbol |

The hazards that follow from this, each at its line, are listed in
`PROJECT.json` with the properties that cover them.

## 2. The modules

| module | models | kind |
|---|---|---|
| `KeyDB` | `keydb.cpp`, `keydb.hpp`: any number of programs with a database object each, one file | component |
| `KVStore` | what a key-value store promises to one program | abstract specification |
| `KeyDBRefinement` | `KeyDB` implements `KVStore` for one program that is not killed | refinement |
| `KeyDB_proofs` | the lock bit never reaches the file; types; what the destructor writes is read back; a file left behind by a crash is not read as another map; `KeyDB` implements `KVStore` | proofs |
| `Logt` | `logt.cpp`, `logt.hpp`: application threads, worker, queue, channels | component |
| `LogDelivery` | what an asynchronous log promises | abstract specification |
| `LogtRefinement` | `Logt` implements `LogDelivery` | refinement |
| `Logt_proofs` | types, draining, order, closing, routing of Fatal messages, the refinement's safety part | proofs |
| `HttpMessages` | what `http.cpp` finds in a buffer: message boundaries, body length, first line | operators |
| `HttpExchange` | `httpclient.cpp`, `tcpclient.cpp`, `httpserver.cpp`, `tcpserver.cpp` and the connection between them | composition |
| `HttpExchange_proofs` | types, serving once and whole, answers that match | proofs |
| `Condition` | `condition.cpp`, `logical.hpp`: trees, `simplify()`, Quine-McCluskey, `dump()`, `load()` | algorithms |
| `ConditionText` | `condition_parser.cpp` and `to_string()` | algorithms |
| `Json` | `json.cpp`: values, `json_pointer`, the calls that change a document | component |
| `JsonText` | `json.cpp`: exporter, parser, files | algorithms |
| `Ini` | `ini.cpp`: sections of settings, their file, edits by others | component |
| `IniValues` | the typed accessors of `ini.cpp`, on top of `Ini` | component |
| `Yaml` | `yaml.cpp`: the parser line by line with its pointers, the exporter | component |
| `YamlValues` | `value` in `yaml.cpp`: a document in the hands of a program | component |
| `Xml`, `Html` | `xml.cpp`, `html.cpp`: trees and pages, edited, written and read | components |
| `HttpText` | `http.cpp`: the characters of messages, arriving piece by piece | component |
| `Digest` | `sha256.cpp`, `sha1.cpp`, `sha512.cpp`, `crc32.cpp`, `hash_api.hpp`, `hmac.hpp` around the compression | component |
| `Digest_proofs` | digests are the standard's however a message is cut | proofs |
| `Cipher` | `aes.cpp`, `encryption_api.hpp` around the rounds | component |
| `Cipher_proofs` | what is enciphered is deciphered, in blocks and streams | proofs |
| `Bytes`, `Packing` | `bytearray.hpp`, `bytearray.cpp`; `filepack.cpp`, `datauri.cpp` and the text forms | components |
| `Bytes_proofs` | what was put into an array is read back from it, or an error | proofs |
| `Multindex` | `multindex.hpp`: three maps | component |
| `Aliases` | what a table with several indices promises | abstract specification |
| `Multindex_proofs` | the maps agree; `Multindex` implements `Aliases` | proofs |
| `Words`, `Arguments` | `stringlist.cpp`; `arguments.cpp`, `arguments.hpp` | algorithms, component |
| `Uri` | `uri.cpp` | component |
| `Udp` | `udp.cpp`: sockets of a program, descriptors, a network | component |
| `Udp_proofs` | descriptors, ports and whole datagrams | proofs |
| `Bitmap` | `bitmap.hpp`, `bitmap.cpp`, `drawer.hpp` | component |
| `QrCode` | `xmath-reedsolomon.hpp`, `qrcode.cpp` | algorithms |
| `MCKeyDB`, `MCSessions`, `MCLogt`, `MCHttp`, `MCCondition`, `MCText`, `MCComponents` | the instances TLC checks | model checking |

Operators whose name ends in `_Something` and whose comment says "Mutant" are
the definitions above or below them with one plausible mistake in it. They are
not used: each is substituted for the right definition to see that a property
notices (`mutants` in `PROJECT.json`).

### 2.1 KeyDB

The file is a sequence of chunks: a header (library flags and record count) and
records of one size, each with the deleted mark that the type byte carries.
Positions are chunk indices, 1 standing for offset 0. What is written across a
hole, or over the magic number, becomes `Junk`.

| in the model | in the code |
|---|---|
| `file`, `exists` | the file on disk; what a crash leaves |
| `m_policy`, `m_data`, `m_data_diff`, `m_ownlock` | the members of the same names; `off` is `file_offset`, `del` is `deleted` |
| `m_file` | the `std::fstream`: open mode, error state, position, bytes not yet written |
| `busy` | where the object is inside a call: `instant_save` (after the records, before the header), `lock` (after `locked()`, before `writePolicy()`), `destructor` (after `save()`, before the stream ends), or no |
| `up` | whether the object is alive; "hung" is a `load()` that never ends |
| `acked`, `opens` | history: the map that the last returning save was given; constructor calls |

`Create`/`Open` are the constructor, `Close` and `CloseEnd` the destructor,
`Crash` the death of the process. `AddKey`, `CopyKey` (store under one key what `getValue()` of
another returned: the offset travels along), `DeleteKey`, `Save`, `Load`,
`Locked`, `Lock`, `Release` are the calls. `FastSaveRecords` and
`FastSaveHeader` are the two halves of `instant_save()`, because a crash or
another program can come between the two writes; a plain `save()` leaves any
prefix of the new file on disk, because nothing flushes it. So does the one in the
destructor: `Close` truncates the file and writes some of it out, `CloseEnd`
releases the lock, and the end of the stream writes the rest; a kill in between
leaves an empty file, or any prefix, cut between two chunks. `Lock` is the read of the header in `locked()` and
`LockWrite` the write of the bit, with any step of another program between them.

The state of the stream decides most of what is interesting, since the code
looks at no result of a read, a write or a seek: after `load()` the stream is
open for input only, and every later FastSave write is refused; after
`locked()` at the end of the file `failbit` is set, and `writePolicy()` writes
nothing. `LoopState` is the loop of `load()`, whose index and record count are
both decremented for marks and duplicates; where it runs past the end of the
file the outcomes are those an uninitialized length can have (`Garbled`, or a
loop that never ends).

### 2.2 Logt

A step is what the code does under one mutex, and code that holds none is split
where another thread can come in: `last_channel_id++` (`ReadChannelId`,
`WriteChannelId`) and the two bitsets (`FillChannel` then `RegisterChannel`,
`StdcoutRead` then `StdcoutWrite`, `WorkerSetup` then `WorkerRegister`). A
thread is somewhere between two steps in `pc`; the worker in `worker`: none,
started, registering, popping, writing, exited, joined. `BeginLog` and `Push`
are the constructor and the destructor of a `logt_sso`. `Stop`, `Join` and one
`CloseChannel` per channel are `shutdown()`. `WriteMessage` is one turn of the
loop in `write_message()`, so channels close and filters change while a message
is being written.

`out[c]` is history: the numbers of the messages shown on channel `c`. The text
of a message, its time stamp and its thread's name are left out. Debug messages
reach channel 0 whatever the filters say: `write_message()` handles channel 0
before it looks at a filter.

### 2.3 HttpExchange

A message is a sequence of three pieces at most (request or status line, end of
headers with the Content-Length, body), and the network delivers one piece at a
time, so a reader finds any prefix and one read can return the end of one
message and the start of the next. `wire` is on its way, `arrived` can be read.

The server is one thread: `Tick`, then `Accept` or (if the socket does not
block: `NonBlockingAccept`, which is so on Windows only) `AcceptNothing`, then one `HandleClient` for each id that was listed,
with `Start` and `Stop` between two ticks. A client is a thread:
`Connect`/`Reconnect`/`Disconnect`, `SendRequest`, then turns of
`receive_response()` (`ReceiveResponse`) until the answer is complete or
`ResponseTimeout`. A timeout may come before every read and, as in the code,
also after the read that completed the answer, in which case the answer is
lost. `Reconnect`, which is `connect()` on a connected client, ends in "hung".

### 2.4 Condition and ConditionText

A node is a record; `expr` is the tree the caller holds, and each operation
replaces it by its result: `Simplify`, `Minimize` (table, prime implicants,
cover, reconstruction), `Reload` (`dump()`, `load()`), `Reparse` (`to_string()`,
`parse()`). `Simplified(n)` returns both the result and what is left of the
source, because `simplify() const` moves operands out of the tree it reads when
it meets `!x !& !y` or `!x !| !y`: a node moved from is `Emptied`, or a
function without its id. The greedy cover of Quine-McCluskey iterates in an
order the model does not have; it is the set of all the covers that greedy
choice can produce (`ChosenCovers`).

`parse()` is the recursive-descent parser over tokens; the characters of a
token are left out, the symbols are not.

### 2.5 Json and JsonText

`doc` is the program's document and `text` the file on its way from a writer to
a reader; while `text` is empty the program edits. `Set` is an assignment to
what `at_path()` returns: `Create` is the walk of the mutable `apply()`, which
makes containers out of nulls, extends arrays and adds members, and may throw
further down, keeping what it has created; `Assign` stores the value. `Index`
is `std::stoul`, which skips blanks and takes a sign: `-1` is the index
`SizeMax`, for which `index + 1` is 0 and `resize()` empties the array; a number
above `SizeMax` throws after a null has become an array, and a length above
`MaxLength` throws in `resize()`. `Apply`
and `Contained` are the constant `apply()` and `contains()`. `ToFile` is the
exporter in one of three styles, `FromFile` the parser, `Receive` a text from
elsewhere: well-formed, cut, or with a character too much.

A text is a sequence of characters with white space, the four hex digits of an
escape and a non-ASCII character as one each. The parser's operators take a
position and return the value and the next position, as the code's functions
move `pos`. A string that begins with "base64:" or "data:" is handed to the
reader of those, which may throw and with it the whole document (`StringValue`).
Strings are escaped as in the code: twice, once by `exportString()`
or `exportKey()` and once by `jquote()`. Doubles are the decimals they are
written with, of which `std::to_string()` keeps six.

### 2.6 Ini

`data` is the object's map of maps, `file` the text on disk and `saved` what the
last save was given. `ReadIni` and `WriteIni` are `operator>>` and
`operator<<`, line by line over characters; `EditFile` is anybody else. A
restart keeps the file only. `IniValues` has one section of an `Ini` (`INSTANCE`)
and what `setValue()` and the `getValueAs...()` functions make of its texts;
`given` is history: what a key was given last, with its type.

### 2.7 Yaml and YamlValues

`parser` is the object between two calls of `parseLine()`: the stack of frames,
the anchors and the aliases not yet resolved. A `value*` is the frame it points
into and the path from there, so what moves or overwrites a container moves or
destroys what is pointed to; `ReadYamlLine` is one line, `ExportAndRead` the
exporter and the parser over all it wrote.

`YamlValues` begins where the parser ends. An alias holds the path of its target,
or is `Lost` when the target was destroyed or stood in a vector that has grown:
a use is undefined then and the model takes no such step. A call is a chain of
`operator[]` (`Ways`, one `Enter` and `Take` for each bracket), which makes what
is missing before it may throw, and then an assignment, `push_back()`,
`as_int()`, `clear()` or `remove_member()`.

### 2.8 Xml and Html

An XML tree is edited call by call, serialized and deserialized; `clear()`,
`reset()` and the namespaces that a node inherited when it was read are state
that outlives a document. `Html` puts head and body beside the tree, into which
`serialize()` copies them.

### 2.9 HttpText

`wire` is a message that one side has serialized, or a text of anybody else, and
how much of it has arrived; `Arrive` adds some characters and lets the receiver
ask what `handleClient()` and `receive_response()` ask: are the headers complete,
how long is the body, is the message there. `TakenWhenWhole` is what
`HttpMessages` and `HttpExchange` take for granted of pieces.

### 2.10 Digest and Cipher

Compression and rounds are published word arithmetic; the code around them is
not. A chaining state is the sequence of the blocks that went into it, a block
goes through some permutation, and blocks have a few bytes. The permutation, its
inverse and the xor of two bytes are CONSTANTS that are operators, of which
`CipherAssumption` says no more than that they undo each other; `MCComponents`
gives TLC one of each. Everything about buffers, padding, lengths, keys and chunks
is as in the code.

### 2.11 Bytes, Packing, Multindex, Arguments, Words, Uri

`Bytes` appends items, edits the array under its cursor and reads; `items` is
history. `BytesAssumption` says what the callers' types do: bytes are below 256,
and numbers, elements and lengths fit into a word. `Packing` adds files to a
pack in any order and writes contents as text. `Multindex` has an action per
call, and `Aliases` is the table that its users see. `Arguments` grows a command
line word by word under every policy; the questions are operators of the result.
`Uri` parses texts into one object that setters change in between.

### 2.12 Udp

Objects, the descriptors of the kernel with their queues, and `sent`: a datagram
once sent may be delivered never, once or again, in any order (`Deliver`).
`bind()` and `connect()` fail after any of their system calls. An address is
compared octet by octet, for `fill_sockaddr()` turns it round. `MaxWaiting` is
what a descriptor's queue holds, as in the kernel, and `MaxDatagrams` stops what
is sent. `UdpAssumption` says that a program binds ports other than 0, that the
ephemeral port is none of those, that datagrams come from ports other than 0,
and that this host's address is not the one that stands for any.

### 2.13 Bitmap and QrCode

A picture is its width, height, alignment and bytes, and every call of
`bitmap<bool>` an action; files are sequences of bytes with the fields of the
header. A request to `generate()` is one step, which composes what the code
does: mode, version, bits, blocks, check codewords, patterns, zigzag, mask,
penalties, format. The reader in the properties follows ISO 18004 and not the code.

`MCText` runs the document formats side by side, `MCComponents` everything from
2.9 on, with `IniValues`, `YamlValues` and the conditions: a behaviour is one of
one part, and no part sees the others' variables.

## 3. What is checked

Every run finishes within about three minutes on two workers. The runs below
terminate without an error; the three `violation` runs must fail, and are
section 6.

| run | bounds | states | checks |
|---|---|---|---|
| `keydb_fast` | 1 program, 2 keys, 2 values, AutoSave with FastSave, 6 chunks, 1 open; add, copy, delete, close, crash anywhere, inside the destructor too | 18 k | `TypeOK`, `NoSilentLoss` |
| `keydb_sessions` | 1 program, 2 keys, 1 value, 4 policies (none, AutoSave, both, ReadOnly), 4 chunks, 2 opens; every call but load, no crash | 43 k | `ImplementsKVStore`, `CleanClose` |
| `keydb_locks` | 2 programs (symmetric), 1 key, 2 opens, 2 chunks; add, save, load, lock in two steps, release | 372 k | `LockNeverPublished` |
| `logt_delivery` | 2 threads, 2 channels, 2 messages; add, sig, log, shutdown; fairness | 176 k | `TypeOK`, `FifoPerChannel`, `ShutdownDrains`, `ClosingIsFinal`, `ShutdownReturns`, `ImplementsDelivery` |
| `logt_routing` | 1 thread, 3 channels that may fail to open, 1 Fatal message; add, stdcout, channels, filter, log | 2.3 M | `FatalReachesAll` |
| `http_exchange` | 2 clients (symmetric), 2 connections, 2 requests of 3 kinds (POST to a route that answers with a body, POST to one that answers without, GET without a route), 2 starts; timeouts at any read | 2.1 M | `TypeOK`, `AnswerMatches`, `RequestsAreServedOnce` |
| `http_answered` | 2 clients, 2 connections, 2 requests with a body, 1 start; accept does not block; fairness | 239 k | `RequestAnswered` |
| `text_formats` | JSON: documents of up to 3 values, 12 pointers, files of up to 24 characters of the program's own, and the texts of others: all of up to 4 structural tokens, a member with one character added, dropped or replaced, number-like texts of up to 4 characters; INI: two sections, two keys and two values, two entries at most, and files of others up to 3 characters and around a section's header; YAML: all texts of up to 3 of 15 lines, and documents up to two levels; XML: trees edited call by call, and texts of others; HTML: pages of others and edited | 33 k | `TextsAreJson`, `SetIsLocal`, `FilesHaveOneMeaning`, `SettingsComeBack`, `YamlKeepsItsMeaning`, `DocumentsSurvive`, `ReadingForgets` |
| `components` | conditions: every tree of up to three operands, negated ones, chosen ones of four and more, over constants and three functions; the other parts as below | 50 k | the properties listed by part below |

`components` is one run for the parts that need neither threads nor files; each
has behaviours of its own:

| part | bounds | checks |
|---|---|---|
| condition | as above | `TreesSurvive`, `RewritingKeepsMeaning`, `RewritingReduces` |
| digest | messages of 0 to 12 bytes in all chunks, blocks of 5 bytes with 2 for the length; keys up to one byte beyond a block | `DigestsAreStandard` |
| cipher | up to 4 bytes in all chunks, blocks of 2 | `CiphersAreInverse` |
| bytes, pack | 2 items of 6 kinds; 2 files of 2 names and 5 contents, 3 media types | `BytesAreFound`, `PackingIsLossless` |
| multindex | 3 indices, 2 values, 4 uids | `MapsAgree`, `KeepsAliases` |
| arguments | 3 of 7 words, every policy, 2 styles | `CommandLinesAreRead` |
| uri | 15 texts, 3 calls; ports below 16 | `UrisAreConsistent` |
| udp | 2 sockets (symmetric), 2 peers, 2 datagrams, each delivered any number of times, 1 waiting at a descriptor | `SocketsExchangeDatagrams` |
| bitmap | 0, 1 or 4 by up to 2 pixels, bytes of 3 bits, rows aligned to 1 or 2 bytes | `PicturesAreExact` |
| qrcode | every mode, level and mask at version 1, versions 5, 7 and 10, texts at and one above a limit, a mode that does not fit and a mask above 7; all 40 versions for the tables | `SymbolsAreStandard` |
| httptext | messages with every method, kind of header, body and status, and 48 texts of others, cut anywhere | `MessagesArriveWhole` |
| ini | 2 keys, 7 values of 6 types, save and load; integers of 4 bits | `SettingsKeepTheirTypes` |
| yamlvalues | 2 documents with aliases, 10 paths, 2 calls | `YamlWritesAreLocal` |

Where a component has several invariants or action properties of one kind, the
run checks their conjunction, and the parts are definitions of their own:

| checked | its parts |
|---|---|
| `RequestsAreServedOnce` | `HandledOnce`, `HandledWhole`, `BuffersAreOwn` |
| `TreesSurvive` | `SourceSurvives`, `ReloadRestores`, `PrecedenceIsKept`, `PrintedIsRead` |
| `RewritingKeepsMeaning` | `SimplifyKeepsMeaning`, `MinimizeKeepsMeaning` |
| `RewritingReduces` | `SimplifyShrinks`, `MinimizesToPrimes` |
| `DigestsAreStandard` | `DigestIsStandard`, `ShortcutsAgree`, `TagsSeparate` |
| `CiphersAreInverse` | `DecryptUndoesEncrypt`, `CiphertextIsCanonical`, `StreamIsOneShot` |
| `BytesAreFound` | `ReadsFindTheirItems`, `CutOffIsNoticed` |
| `PackingIsLossless` | `PacksComeBack`, `CutOffPackIsRefused`, `TextsComeBack`, `BitsMoveAsOne` |
| `CommandLinesAreRead` | `WordsAreReadOnce`, `PlainFormMeansTheSame`, `OptionsHaveTheirPlaces`, `QuestionsAgree`, `ArgumentsComeBack` |
| `UrisAreConsistent` | `UriComesBack`, `NormalizedIsSame`, `ParsingForgets`, `UrisAreOrdered` |
| `SocketsExchangeDatagrams` | `DescriptorsAreOwned`, `PortIsTrue`, `DatagramsStayWhole`, `AnswersGoBack` |
| `PicturesAreExact` | `RowsArePacked`, `BmpComesBack`, `SizesAgree`, `OverlaysRepeat`, `ShapesAreExact` |
| `SymbolsAreStandard` | `SymbolReadsBack`, `PatternsSurvive`, `WordsAreFarApart`, `VersionIsSmallest`, `TablesAgree` |
| `MessagesArriveWhole` | `TakenWhenWhole`, `MessageComesBack`, `HeadIsFinal` |
| `SettingsKeepTheirTypes` | `TypedValuesComeBack`, `ReadersAgree` |
| `YamlWritesAreLocal` | `WrittenIsRead`, `OthersAreKept` |
| `TextsAreJson` | `ExportIsReadable`, `WhitespaceIsIgnored`, `ParserReadsOnlyValues`, `NumbersAreJson`, `MembersAreReachable` |
| `FilesHaveOneMeaning` | `ReadingIsStable`, `LayoutIsIgnored` |
| `YamlKeepsItsMeaning` | `YamlComesBack`, `AliasesLeadToAnchors`, `CommentsChangeNothing`, `UnitIsFree` |
| `DocumentsSurvive` | `XmlComesBack`, `XmlLayoutIsIgnored`, `HtmlComesBack` |
| `ReadingForgets` | `XmlReadingForgets`, `HtmlReadingForgets` |

What each of them says, and what it would take to break it:

- **NoSilentLoss**: when the file is opened again, a `load()` that reports
  `Success` returns exactly the map the last save acknowledged. It relates the
  records, the marks, the count in a header that may be one save behind, the
  duplicates that FastSave appends and the arithmetic of `load()`. The file may
  be unreadable after a crash; it is never read as another map, provided that it has
  the records its header counts (`~Short`). A kill inside a truncating `save()` can
  leave fewer, and such a file may be loaded with `Success`: `CutIsNoticed`, section 6.
- **CleanClose**: the destructor leaves a file from which the object's map is
  rebuilt, whatever marks, stale offsets and refused writes came before. The
  full save of the destructor has to undo everything that FastSave did.
- **ImplementsKVStore**: over whole sessions the map behaves as `KVStore`: it
  changes only by `Put` and `Remove` and outlives the object.
- **LockNeverPublished**: not a promise but the reason why one is broken.
  `lock()` promises exclusive access (`LockIsExclusive`, run `keydb_exclusive`); it
  calls `locked()` first, which leaves the stream failed or finds it opened the wrong
  way, so the write of the header that follows is refused, in whatever order two
  programs read and write. Whoever repairs the code will see this property fail
  first.
- **FifoPerChannel**, **ShutdownDrains**: order and completeness per channel,
  although pushers, worker and closers hold different mutexes.
- **ClosingIsFinal**: after `shutdown()` has joined the worker no channel is
  written again; a message pushed later waits in the queue for ever.
- **ShutdownReturns**: the thread in `shutdown()` gets past the join, if the other
  threads stop logging. `pop()` gives up on an empty queue only, and threads that
  push for ever keep `join()` waiting for ever; `logt.md` asks that the last thread
  to exit makes the call. `MaxMessages` is this condition.
- **ImplementsDelivery**: queue, condition variable and worker are a log in the
  sense of `LogDelivery`, liveness included: what has been accepted is
  delivered, and the log closes only when nothing waits.
- **FatalReachesAll**: a channel that failed to open, or a filter set meanwhile,
  never costs another channel a Fatal message.
- **AnswerMatches**: on a connection on which no call timed out, the answer is
  to this request, with this route's status and all of its body, in whatever pieces
  it came. After a timeout it is
  not: the late answer is taken for the next request's (see 6).
- **HandledOnce**, **HandledWhole**: no request runs its handler twice, none
  runs with a cut or a foreign body, although the server erases the whole buffer
  with each response.
- **BuffersAreOwn**: `stop()` clears the clients but not `m_client_buffers`, so
  a half-received request stays under its id; a new client must never get it.
  It is safe only because ids go on growing over a restart.
- **RequestAnswered**: while the server runs and the connection is healthy, a
  waiting client gets its answer (or times out), where `accept()` does not block.
  That is Windows only; elsewhere `tick()` may wait in `accept()` for ever with all
  the clients behind it (`TickReturns`, section 6).
- **SimplifyKeepsMeaning**, **SimplifyShrinks**: thirty rewriting rules in a
  fixed order keep the truth table and make the tree smaller each time they
  change it. The first excludes right implications and nested shortcuts: section 6.
- **SourceSurvives**: `simplify()` leaves the tree it reads alone unless it has a
  NAND or a NOR in it.
- **MinimizeKeepsMeaning**, **MinimizesToPrimes**: the sum of products equals
  the expression, and no literal of any term can be left out.
- **ReloadRestores**: `load()` inverts `dump()` and stops where it stopped.
- **PrecedenceIsKept**: a tree written with the parentheses that the documented
  precedence asks for, and no more, is parsed to itself.
- **PrintedIsRead**: `parse(to_string(e))` is `e`, if it has no implication; those are
  printed the wrong way round (`ImplicationsAreRead`, section 6).
- **ExportIsReadable**: in every style a document is written so that the parser
  reads all of it back, with its structure, keys, numbers and those strings that
  need no escape. Commas, empty containers, quotes and numbers all have to agree. A
  string that begins with "base64:" or "data:" is left out: it may not load at all
  (`StringsAreLoaded`), and one with an escape comes back as that (`StringsComeBack`).
- **WhitespaceIsIgnored**, **ParserReadsOnlyValues**, **NumbersAreJson**: what
  the parser takes and what it refuses: a blank between any two tokens; no text
  that is not a value (printing what was read gives the text again); every
  number of the grammar, and nothing else that looks like one.
- **MembersAreReachable**: each key is reached by the pointer that escapes it,
  which needs the two replacements of `unescape_segment()` in their order.
- **SetIsLocal**: an assignment through a pointer stores the value there and
  leaves every other value where it was, although it converts nulls, extends
  arrays and adds members on its way; if it throws, what it has created stays and
  everything that was there is still there. Segments with a minus sign are left
  out: they wrap around and can empty an array (`ArraysExpand`, section 6).
- **SettingsComeBack**: the settings of the last save are what a load gives,
  whatever calls came between, if their lines can hold them (`Writable`: nothing
  is escaped). `saveToFile()` without settings succeeds and leaves the old file,
  so settings that were all removed come back too; the property leaves that out.
- **ReadingIsStable**, **LayoutIsIgnored**: anything read from a file can be
  written and is read again as itself; comments, empty lines and blanks change
  nothing. Both are about the trims and the split at the first "=".
- **TypedValuesComeBack**, **ReadersAgree**: what a typed setter wrote, through a
  file and a restart, is what the getter of the same type gives, but for literals,
  which are stored as a bool (`LiteralsAreStrings`, section 6); and the getters
  with a default, without one and with an optional agree on any text.
- **YamlComesBack**: what the exporter leaves unquoted the parser reads as the
  same string. **AliasesLeadToAnchors**: after all the frames that were pushed,
  popped and moved, the raw pointers lead to the anchors' values; it speaks of anchors
  and aliases that are values of members with keys of their own, since pointers to
  entries of a sequence, which grows, and to values that a second key overwrites
  dangle. **CommentsChangeNothing**: a comment behind a line, or on a line
  indented like the scope it stands in, means nothing; one that is indented less
  closes the scope (section 6). **UnitIsFree**: the width of an indentation means
  nothing.
- **WrittenIsRead**, **OthersAreKept**: an aliased document behaves as if the
  aliases were the values they lead to: what is written through one path is read
  through every other, and nothing else changes, even if the call throws.
- **XmlComesBack**, **XmlLayoutIsIgnored**, **HtmlComesBack**: a tree or page that the
  text can say comes back as it was written, and blanks between tags do not matter.
  Contents that read like a reference, texts beside children and CDATA do not come
  back (`ReferencesComeBack`, `MixedContentComesBack`, `TextNodesComeBack`).
- **XmlReadingForgets**, **HtmlReadingForgets**: an object that reads again keeps
  nothing of the former document, not even after a failure, as long as the former
  root was an element and, for pages, head and body had inherited no namespace;
  `reset()` leaves these (`RootsAreReset`, `PagesAreReset`, section 6).
- **TakenWhenWhole**, **MessageComesBack**, **HeadIsFinal**: wherever the stream
  is cut, a message is taken when its last character is there and not before; it
  is the message that was sent; and what is read of a head is never revised.
- **DigestIsStandard**, **ShortcutsAgree**, **TagsSeparate**: chunks do not
  matter, the two paddings of sha256 agree, and HMAC tags are equal for the keys
  RFC 2104 makes equal only.
- **DecryptUndoesEncrypt**, **CiphertextIsCanonical**, **StreamIsOneShot**: what
  `decrypt()` accepts is exactly what `encrypt()` makes; a stream gives the same
  until a chunk meets a part of a block, and in CBC until a block has come out.
  Beyond that it does not (`ChunksDoNotShow`, section 6).
- **ReadsFindTheirItems**, **CutOffIsNoticed**: what went into an array comes out of
  it, whatever was edited around it, by reads that begin where an item does; and what
  is cut off is an error and never another value. Containers take fewer bytes than a
  word counts (`ContainersFit`): the code wraps the product of count and size. Of a cursor that an edit has left
  inside an item the code promises nothing, and neither do they.
- **PacksComeBack**, **CutOffPackIsRefused**, **TextsComeBack**, **BitsMoveAsOne**: a
  pack is loaded whole or not at all; texts in hexadecimal, percent signs and base64
  without padding give their bytes back; bits that are shifted or rotated to the
  right stay in order. Padded base64 and rotations to the left do not
  (`Base64ComesBack`, `BitsRotateLeft`, section 6).
- **MapsAgree**, **KeepsAliases**: the three maps say the same, and the table
  implements `Aliases`, so that no call redirects an index it does not name. An erase
  may let any group go: which of several equal values `erase_value_by_index()`
  deletes is not asked (section 6).
- **WordsAreReadOnce**, **PlainFormMeansTheSame**, **OptionsHaveTheirPlaces**,
  **QuestionsAgree**, **ArgumentsComeBack**: a word is an option or one option's
  value, every command line has a plain form with the same meaning, what stands
  after options and between them joins to the line again, and the questions about
  it agree. `anyBefore()` and an option that comes twice are another matter
  (`ProgramComesFirst`, `FirstOccurrenceCounts`, section 6).
- **UriComesBack**, **NormalizedIsSame**, **ParsingForgets**, **UrisAreOrdered**:
  an object that has been parsed, changed and parsed again is what its text says,
  with the exceptions that the properties name; `operator<` is an order.
- **DescriptorsAreOwned**, **PortIsTrue**, **DatagramsStayWhole**,
  **AnswersGoBack**: no failing call loses or shares a descriptor or leaves a
  wrong port; datagrams are not mixed, and answers go to their senders, whose
  addresses have to read the same from both ends (section 6).
- **RowsArePacked**, **BmpComesBack**, **SizesAgree**, **OverlaysRepeat**,
  **ShapesAreExact**: bytes and pixels agree after any calls; BMP files of both
  orders come back; the ways to scale agree; a shape is its definition.
- **SymbolReadsBack**, **PatternsSurvive**, **WordsAreFarApart**,
  **VersionIsSmallest**, **TablesAgree**: an independent reader finds the text in
  the symbol, with check codewords that repair what the level promises, and the
  four tables agree for all versions. The first speaks of sound requests: a mask
  below 8, a mode that fits the text, and a version that is found or has room for
  it (`TextsAreHeldWhole` and section 6 for the others).

### Why the bounds are enough

- *KeyDB.* The file's arithmetic depends on how many records, marks and
  duplicates there are, not on which keys: with two keys and six chunks a
  session can overwrite a key twice, delete it and store it again, and with two
  values the wrong duplicate is told from the right one. `MaxChunks` stops a
  FastSave that would not fit; `MaxOpens` the constructor calls. The crash run
  has one open: the property looks at what the next one reads. In a session that
  began with `load()` it does not hold, because FastSave acknowledges there what it
  does not write (`FastSaveIsWritten`, section 6). A cut-off `save()` is cut
  between two chunks and not within one: for `load()` half a record is one more
  read of an uninitialized length, as an absent one is. The
  extra key `NulKey` is the empty key that a read past the end of the file
  builds.
- *Logt.* With two threads and two channels both races on the registry, a push
  during `shutdown()`, two calls of `shutdown()` one after the other and every interleaving of
  worker and closer occur; two messages show order. Routing needs three channels
  (one fails, one filters, one must get it) and a single thread: two
  threads that call `addfile()` at the same time can read one `last_channel_id`,
  and then the second opens, as its own, the channel that the first has failed to
  open and already routes messages to. If that happens while the worker writes
  one, a channel is open that did not get it (a data race of the code), and
  `FatalReachesAll` does not hold; nobody promises routing for that. `MaxMessages` bounds what is pushed; for `ShutdownReturns` it
  is a condition and not a bound, see there. `ReadChannelId` stops one past the last id.
- *HttpExchange.* Two connections let a client reconnect after a timeout or a
  second client interfere; two requests on one connection show a late answer and
  a buffer with parts of both; two starts show a restart. The three kinds have
  requests and responses with a body and without, each with each but one, and
  answers that are told apart by status and body. `http_answered` has one kind,
  with a body both ways, which takes the most turns. `MaxConnections`, `MaxRequests` and
  `MaxStarts` are in the guards of `Connect`, `SendRequest` and `Start`.
- *Condition.* Every rule looks at an operator, its two operands and at most the
  operands of those: all the trees of three operands meet every rule, and the
  trees of four and more are those that rules with two compound operands
  (distribution, shortcuts) look at. Three functions give tables of eight rows,
  where merging takes two rounds and covers are not unique.

- *Json.* Every parser function decides on the next character or two, so each
  decision is met by tokens in all orders up to four and by single errors in a
  longer text. Documents of three values hold a container in a container, and a
  container beside another member, which is what locality is about. `MaxSize` is in the guards of
  the edits, `MaxText` in that of `ToFile`: without it a string with a quote
  grows with every save and load. `MaxInt` stands for the largest integer, and
  `SizeMax` (99) and `MaxLength` (20) for `SIZE_MAX` and the longest vector, so
  that both sides of each occur, and `SizeMax` plus 1 is 0.

- *Ini.* Lines are read one at a time and remember the current section only:
  texts of three characters meet each decision within a line, and the longer
  ones put such a line after a section's header and between two settings of one
  key. `MaxKeys` is in the guards of the calls that add.
- *Documents.* The YAML parser decides on a line by its indentation, its first
  characters and the frame on top: the lines and their number make every pair of
  neighbours occur, with an anchor before and an alias behind. XML trees of a few
  nodes have a child, a sibling and a text between them.
- *Small bytes, blocks and words.* Digests, ciphers, arrays and pictures have
  boundaries at a block, a word and a byte: with blocks of 2 or 5 bytes and bytes
  of 3 bits every length around two boundaries is met. `MaxMessage`, `MaxPlain`,
  `MaxItems`, `MaxFiles`, `MaxArgs`, `MaxUriEdits`, `MaxDatagrams` and
  `MaxYamlEdits` are in the guards of the steps that add.
- *YamlValues.* Two calls are enough for one to make or lose a pointer and the
  other to meet it.
- *QrCode.* The tables are compared for every version; the symbols are made for
  the smallest, the first with several blocks, the first with version information
  and the first with the longer length field.

### Fairness

- `Logt!Fairness`: the worker, and every thread that has begun a call, goes on:
  the scheduler runs threads that are not blocked, and every critical section
  is left again. Nobody has to begin a call. Weak fairness does not cover a
  thread that starves because others lock the same channel for ever; liveness is
  checked with the calls of `DeliveryCalls`, among which only `addfile()` holds
  a channel's mutex over a step, once for each id.
- `HttpExchange!Fairness`, with `NonBlockingAccept = TRUE`: `tick()` is called in a loop, as its header asks; what
  has been sent arrives; `receive_response()` polls. No timeout ever has to
  happen, nor any start, stop, connection or request.
- `LogDelivery` asks for delivery only; it follows from the worker's fairness.
- All the others are sequential calls of their user and state no fairness.

Deadlock is checked everywhere except in the Condition and `components` runs, where a
caller whose tree has emptied nodes in it can only destroy it, a message has
arrived and a command line is complete. `KeyDB` has `Done` for the end of its
bounds.

## 4. What is proved

Every theorem holds for every value of the constants under the assumptions its
module names: `ConstantsAssumption` in `KeyDB`, `Logt` and `HttpExchange`,
`MultindexAssumption`, `UdpAssumption`, `CipherAssumption`, `BytesAssumption`, and
`BlockAssumption` in `Digest`
(sequences without repetition, numbers that are natural, calls and filters of the
right sets, a block with room for its length and for a digest, one whose length fits a byte,
rounds that are a permutation, items of bytes and of numbers that fit). TLC evaluates
each of them in every run that uses the module. Some theorems need more, which is named
where they are stated and explained below: `OneProgram`, which TLC evaluates with
`MCSessions`, `NewFile`, `Alone`, `OneThread` and `ContainersFit`.

| theorem | module | states | inductive invariant |
|---|---|---|---|
| `NoLockIsPublished` | `KeyDB_proofs` | `[]LockNeverPublished` | `IInv`, `CannotWrite` |
| `TypesHold` | `KeyDB_proofs` | `[]TypeOK` | `TypeInv` |
| `CloseIsClean` | `KeyDB_proofs` | `CleanClose` | `CloseInv` |
| `SessionsAreAStore` | `KeyDB_proofs` | `ImplementsKVStore` | `StoreInv` |
| `NothingIsLost` | `KeyDB_proofs` | `[]NoSilentLoss` | `CrashInv` |
| `TypesHold` | `Logt_proofs` | `[]TypeOK` | `TypeInv` |
| `Drains`, `InOrder` | `Logt_proofs` | `[]ShutdownDrains`, `[]FifoPerChannel` | `IInv` |
| `TheEndIsFinal` | `Logt_proofs` | `ClosingIsFinal` | none, each step by itself |
| `LogIsDelivery` | `Logt_proofs` | `Delivery!SafeSpec` | `IInv` |
| `FatalIsNeverFiltered` | `Logt_proofs` | `FatalReachesAll` | `RoutesAreFilled`, `FatalIsShown` |
| `TypesHold` | `HttpExchange_proofs` | `[]TypeOK` | `Inv` |
| `ServedOnce`, `AnswersMatch` | `HttpExchange_proofs` | `[]RequestsAreServedOnce`, `[]AnswerMatches` | `Inv` |
| `MapsStayInStep` | `Multindex_proofs` | `[]MapsAgree` | `MapsAgree` |
| `TableIsOfAliases` | `Multindex_proofs` | `KeepsAliases` | `MapsAgree` |
| `DatagramsAreExchanged` | `Udp_proofs` | `SocketsExchangeDatagrams` | `UdpInv` |
| `StandardsHold` | `Digest_proofs` | `[]DigestsAreStandard` | `StreamsAreFed` |
| `CiphersHold` | `Cipher_proofs` | `[]CiphersAreInverse` | `CipherInv` |
| `ItemsAreFound` | `Bytes_proofs` | `[]BytesAreFound` | `BytesInv` |

### 4.1 KeyDB

**`NoLockIsPublished`**, for any number of programs. The property is not
inductive, since it says nothing of the flags from which headers are made. `IInv`
adds: every chunk on disk and in every buffer is a header without the bit, a
record or junk, and has exactly that shape (`Good`); every stream is a record of
four fields with a position above 0 (`StreamOK`); no object's `m_policy` has the
bit. The last needs `Load` and `Open` to read only good headers
(`LoadReadsHeader`). The core is `WritePolicyFile`: `lock()` would write the bit
only to a stream that is open for output and good, and after `readPolicy()`
no such stream is good (`ReadPolicyStream`). Since the read and the write of `lock()`
are two steps, that is an invariant of its own between them (`CannotWrite`), which no
step of another program can disturb: streams are not shared. So the theorem is
about every interleaving of two tests and two writes; it says why the lock excludes
nobody, and not that it does.

**`TypesHold`**, for any programs killed at any point. The hard part is that
`load()` has a result. Its loop is the function `LoopState` by recursion over the
number of records, and a definition by `CHOOSE` is worth something only if such a
function exists: `LoopExtends` extends one by a record, and a least number of
records without one would contradict it (`LeastOf`, from the well-foundedness of
`<`). The same minimal counterexample gives the types of what the loop has
gathered (`LoopType`).

**`CloseIsClean`**, when no other program has the file open (`Alone`: another could
write between the two halves of the destructor). `save()` leaves a prefix of the image
on disk and the rest in the buffer (`SaveCloses`); `Closing` says that this is
still so when the destructor goes on, and `CloseEnd` puts the two together. The
destructor writes the keys in the order of the map,
numbered by how many come before; that the n-th key exists and is one
(`NthKey`) is counting, by the pigeonhole principle. Reading the image back then
takes one record a turn until the header's count is reached (`HasRead`, `Rebuilt`).

**`SessionsAreAStore`**: one program that is not killed and does not call
`load()` on an object that is alive, as the constructor does when it opens the
file (`OneProgram`, stated in `KeyDBRefinement`: such a `load()` brings an
earlier map back and is no step of a store). `StoreInv` says that
between sessions the file is the image of some map of the caller's values
(`KeepsMap`); and that in a session that cannot write, disk and buffer together
are the image of the map the object has (`ReadsMap`), which is why closing such a
session, without a save, loses nothing. In the others the destructor saves all,
whatever the file holds by then: in part first (`SaveSettles`), and the rest at
the end of the stream. `StoreStep` maps each step to `Put`, `Remove`,
`Start`, `Stop` or a stutter.

**`NothingIsLost`**, for any number of keys and programs: one session on a new
file, of any stores and deletes in any order, closed or killed at any step, also
between the record and the header and between the two halves of the destructor (`NewFile`: one constructor call; calls add,
copy, delete, close and crash; a policy that saves at once does so with
FastSave). `CrashInv` has one of three things for the file whenever it could be
left behind: records whose last for each key is the acknowledged map, with a
header that counts its keys (`Tells`); the same with one more record behind than
that header knows (`Torn`); or no magic number. A fourth comes with the destructor's
`save()`: a prefix of the image, which is empty, whole, or shorter than its header says
(`PrefixIsSafe`, `LeavesSafe`); `Short` files the property leaves out, because the
code may load them (`CutIsNoticed`, section 6). For the first two `ReadsOn` and
`AllIsRead` are the invariant of the loop of `load()`: whatever duplicates there
are, it has read each of the first n records and keeps the last of each key
(`HasReadAll`), or has already stopped too early to succeed (`HasStopped`); to
succeed on a `Torn` file it would have to find more keys than the header counts.
What `NewFile` leaves out is left out because the property does not hold there
(section 6): after a `load()` the stream takes no output, so FastSave
acknowledges what it does not write, and a full `save()` is buffered.

### 4.2 Logt

**`TypesHold`**: `TypeOK` is not inductive because `newid` is used as an index:
`NewIds` adds that it is a channel's id wherever a channel is filled, registered
or closed, and 0 between calls. Only the test in `WriteChannelId` establishes it,
whatever the race on `last_channel_id` does.

**`Drains`** and **`InOrder`**, from one invariant: the queue holds exactly the
numbers after `Taken` in order (`Numbered`), a writing worker holds the number
`Taken`, each channel's numbers increase and stay at or below what it may have
been given by now (`Shown`, one less for the channels that the message in hand has
still to reach), and a worker that has ended saw `stopped`. For most
actions none of that changes (`AsideKeeps`); `Push`, `Pop`, `PopFails`,
`WriteMessage` and `WriteMessageReturns` have a lemma each.

**`TheEndIsFinal`**: once the worker has been joined no step writes to a channel.

**`LogIsDelivery`**: `Logt` implements the safety part of `LogDelivery`. A message
is delivered when the worker is done with it, so that it waits while it is being
written; `Push` is `Accept` unless the worker has ended, when it stutters;
`PopFails` after `stopped` is `Close`. The fairness of `LogDelivery!Spec` is
checked by TLC (`ImplementsDelivery`).

**`FatalIsNeverFiltered`**: with one thread that configures and logs
(`OneThread`), a Fatal message is the last one shown on every valid channel of
its route. With two it is false, see *Logt* under the bounds. `RoutesAreFilled`
says that whatever routes are made of (bitsets, copies of bitsets in the hands of
a thread or of the worker, messages) are channels that have been filled in, so
that a channel of a waiting message cannot become valid while the message is
written; `FatalIsShown` is where the worker has got to.

### 4.3 HttpExchange

`Inv` is `Types` and `Behaves`. `Types` has what the indices need: a client's
connection is its own and below `connections`, ids of clients and of buffers are
below `m_next_client_id`, and every connection is in the backlog once or has one
id (`Accepted`). `Behaves` has:

- `FreshInv`: what is under way to the server on a connection, whether on the
  wire, in the socket or in `m_client_buffers`, is of requests sent on it, and no
  request that is still to begin there has been handled. With it the erasure of
  the whole buffer with each response costs a request and never repeats one:
  **`ServedOnce`**. A buffer left behind by `stop()` belongs to an id that is
  never given again.
- `TurnInv`: on a connection without timeouts the two sides take turns: the
  request is under way in full and nothing comes back, or nothing is under way
  but the answer, or part of it if a side has closed. Hence **`AnswersMatch`**.
  A timeout breaks the turns, and what TLC and this proof say ends there.

What the parsers find in a buffer (`HeaderEnd`, `Body`, `HasCompleteBody`) is
covered by lemmas about prefixes of messages (`StartOfMessage`, `WholeMessage`).

### 4.4 Multindex, Udp, Digest, Cipher and Bytes

**`MapsStayInStep`**: `MapsAgree` is inductive as it stands. **`TableIsOfAliases`**:
each call is a step of `Aliases`. Users see values and the sets of indices that
share one; such a set belongs to one uid (`OtherGroups`), so that a call which
changes a set leaves the others as they are.

**`DatagramsAreExchanged`**: the action property and the invariants it is made of,
from `UdpInv`: descriptors of the objects are open and owned by one, the port an
object remembers is the one its descriptor is bound to (`DescriptorsAreOwned`,
`PortIsTrue`); every datagram that waits was sent, whole, to the port it waits at
(`QueuesOK`); none was ever sent to port 0 of this host (`SentOK`), so that no
descriptor without a port can have one. The kernel gives the lowest free number,
which exists because finitely many are open (`Lowest`).

**`StandardsHold`**, for blocks and lengths of any size, any messages and keys.
`StreamsAreFed`: until `end()`, however the message was cut, a stream has taken
its whole blocks and buffers the rest, and counts its bytes (`Fed`). A piece keeps
that, also one that fills the buffer and several blocks more (`FilledIs`,
`UpdatedIs`; the blocks of a join are those of its whole part and of what is left
over, `BlocksJoin`). Then `DigestsAreStandard` follows in every state (`Follows`):

- The three ways of padding, in place, by `update()` and with the text in
  advance, write as many zeros as the standard, since only one multiple of the
  block is near enough (`OneMultiple`, `PaddingFits`).
- `hash_stream()` reads piece by piece; that its recursive function is the hash of
  what has been read is shown by a minimal counterexample (`HashStreamIs`).
- Tags: from a padded text the text can be read back (`PaddingsDiffer`), so that
  different texts have different digests (`StandardsDiffer`: a digest is the
  sequence of blocks that went into it, so this is about padding and keys and
  not about collisions of the compression); a key that is hashed
  fits into a block for the providers that have one (`HmacIs`).

**`CiphersHold`**, for blocks of any size, any permutation of them and any texts.

- The blocks of a result are determined one after the other: each is the block of
  the text, chained in cbc to the block before, through the rounds
  (`IsEnciphered`), and two results that both are so are equal, since a first
  block in which they differ would have equal blocks before it (`EncryptedIsOne`).
  So decrypting and encrypting undo each other on whole blocks, either way round
  (`BlocksDecrypt`, `BlocksEncrypt`).
- Padding comes off (`PaddingComesOff`), and a text from which `decrypt()` takes a
  padding is the padded text that is left (`PaddingIsCanonical`): all bytes of it
  are looked at, and no other length of padding brings the text to whole blocks.
- In ecb the blocks of a join are those of its parts (`EcbJoin`), so that reading
  block by block, with a short or empty read at the end, writes what `encrypt()`
  returns (`StreamedIs`).
- `CipherInv` is the invariant of a stream in the hands of a program: until a chunk
  has met a part of a block, what has come out is the encryption of the whole
  blocks of what went in, and the buffer is the rest. In cbc that is known only
  until the first block has come out, because every call begins with the initial
  vector again.

**`ItemsAreFound`**, for words of any size, items of any length, as long as a
container's bytes fit into a word (`ContainersFit`), and any number of them. The code
multiplies count and size in a word, and so does `Wrapped`; where nothing wraps, it is
the product.

- A number that fits comes back from its bytes: from the last byte backwards, the
  sum is what is left of the number without the bytes before (`NumberOfNative`).
  `Above` and `Number` are recursive functions, of which `Recursion` says that
  they exist. So an item that stands whole at the cursor is read as that item and
  the cursor ends behind it, and one that is cut off is an error (`IsReadOf`,
  `ItemRead`); only a container without elements leaves its two words unread.
- The content is the encoding of the items one after the other (`Held`). Inserting,
  erasing and replacing take the content apart at `Place(i)`, where the encoding
  of item i stands between those before and behind it (`ItemPlace`, `CodedJoin`).
- `ReadsFindTheirItems` speaks of the last read. `Remembers` says that it was one
  of an array that held the same items, from which it follows (`ReadsFind`).
- A reader of a cut array is a recursive function too. After i items it stands
  behind item i or has noticed the cut (`Reads`); that a turn keeps this is
  `ReaderTurns`, and a first item for which it failed would have one before it
  for which it held (`CutOff`).

### 4.5 What is only model-checked

- Liveness: `ShutdownReturns`, `RequestAnswered` and the fairness of
  `ImplementsDelivery`. Fairness speaks of ENABLED, which the prover does not take.
- Everything in `text_formats` and most of `components`: functions by recursion
  over trees and texts. A proof needs induction with an operator as parameter,
  and operators declared `RECURSIVE`, and the installed provers take neither.
- `PackingIsLossless`: the bit operations of `BitsMoveAsOne` are sums of powers of
  two with an exponent that varies, which the SMT solver does not take; packs and
  texts are written and read by folds and `RECURSIVE` operators. So are pictures
  (`Bitmap`) and symbols (`QrCode`).

## 5. The plan

The order of the modules follows how much can go wrong in them: files and
crashes first, then threads, then messages, then algorithms.

1. *Modelled and checked*: `KeyDB` with its abstract store; `Logt` with
   `LogDelivery`; `HttpMessages`, `HttpExchange` and `HttpText`; `Condition` and
   `ConditionText`; the documents (`Json`, `Ini`, `Yaml`, `Xml`, `Html`) and what
   programs do with their values; the components of `MCComponents`.
2. *Proved*: section 4, all the safety properties of `KeyDB`, `Logt`,
   `HttpExchange`, `Multindex`, `Udp`, `Digest` and `Cipher` that the runs check,
   the reads of `Bytes`, and the safety of the refinements of `KVStore`, `LogDelivery` and `Aliases`.
3. *Next*: `NothingIsLost` for sessions that begin with `load()` but end without a
   kill; `PacksComeBack`, on top of `ItemsAreFound`, with a loading loop that is a
   recursive function.

## 6. Disagreements between the code and what it says

Three of them have a run of their own, which must end in a violation, and are
findings in `PROJECT.json`:

| run | what TLC finds |
|---|---|
| `keydb_duplicates` | the comment in `instant_save()` (`keydb.cpp:356`) says a full load "automatically" handles duplicated keys; overwriting the key stored last leaves a record that the loop of `load()` never reads, and the file is reported `Corrupted` |
| `keydb_exclusive` | `lock()` is "for exclusive access" (`keydb.hpp:220`); two programs own the lock of one file, since the bit never reaches the file (`keydb.cpp:440`) |
| `condition_shortcuts` | `simplify()` "will return a clean new tree" (`condition.cpp:181`); with a shortcut inside the left operand of another, the second finds operands the first has moved out, and the result has emptied nodes, or functions without id |

The next are stated beside the properties that hold, and TLC refutes each of them:
put the name as an `INVARIANT` (or a `PROPERTY`, where it says so) into the
configuration named last, in place of the properties there.

| stated as | the words | what the code does | configuration |
|---|---|---|---|
| `CutIsNoticed` | `keydb.hpp:98`: `Corrupted` is a corrupted file | a kill inside a truncating `save()` leaves fewer records than the header counts; `load()` never looks at the stream and may return `Success` (`keydb.cpp:260`) | `KeyDB_fast` |
| `FastSaveIsWritten` (property) | `keydb.cpp:89-91`: the stream has to be in read-write mode for FastSave | after `load()` it is open for input, FastSave writes nothing and reports success (`keydb.cpp:224`); the destructor's full save is what rescues the data | `KeyDB_fast`, `MaxOpens = 2` |
| `TickReturns` (property) | `tcpserver.hpp:85`: "not blocking" | outside Windows the listening socket stays blocking, and the server waits in `accept()` while connected clients wait for it (`tcpserver.cpp:314`) | `Http_answered`, `NonBlockingAccept = FALSE`, `CHECK_DEADLOCK FALSE` |
| `ReconnectCloses` (property) | `tcpclient.cpp:45`: "Close existing connection if any" | `connect()` calls `disconnect()` under the mutex that it locks, and never returns (`tcpclient.cpp:47`) | `Http_exchange` |
| `ImplicationsAreRead` | `condition_parser.cpp:233`: "<- means right implies left" | `to_string()` prints the two implications the other way round (`condition.cpp:816`) | `Components` |
| `StringsComeBack` | `json.md:78`: "what you put in is what you get back" | a string or key with a quote, a backslash or a control character is escaped twice, and its escape comes back (`json.cpp:1168`, `1209`) | `Text_formats` |
| `StringsAreLoaded` | the same | a string that begins with "base64:" or "data:" and is neither makes the reader throw, and the whole file is lost (`json.cpp:812`) | `Text_formats`, `Scalars <- MCPrefixed` |
| `ArraysExpand` (property) | `json.md:338`: arrays "auto-expand via `resize(index + 1)`" | a segment `-1` is `SIZE_MAX`; `resize(0)` empties the array and the access behind it is undefined (`json.cpp:123`) | `Text_formats` |
| `ProgramComesFirst` | `arguments.hpp:239`: "Does include the executable name" | `anyBefore()` begins behind it (`arguments.cpp:184`) | `Components` |
| `FirstOccurrenceCounts` | `arguments.hpp:229`: "the first occurrence of the specified name" | every occurrence takes the place of the one before (`arguments.cpp:325`) | `Components` |
| `BitsRotateLeft` | `bytearray.hpp:406`: rotate "at bit level" | from three bytes on the bits that leave a byte go to the wrong neighbour (`bytearray.cpp:235`) | `Components` |
| `Base64ComesBack` | `json.md:363`: base64 texts are "auto-decoded" | one "=" and two are exchanged (`bytearray.cpp:127`) | `Components` |
| `TextsAreHeldWhole` | `qrcode.hpp:112`: data is packed "up to the capacity" | a given version that is too small cuts the text silently (`qrcode.cpp:566`) | `Components` |
| `LiteralsAreStrings` | `ini.hpp:16`, `ini.md:38`: `const char*` is a string | a literal goes to the overload for bool and is stored as `true` (`ini.cpp:123`) | `Components` |
| `ChunksDoNotShow` | `aes.md:164`: streams for files in chunks | `update()` enciphers a chunk that completes the buffer once more from its first byte (`aes.cpp:316`) | `Components` |
| `ReferencesComeBack` | `xml.md:175`: "Escape special characters appropriately" | `&amp;` is undone before the numbers, so that the text `&#60;` comes back as `<` (`xml.cpp:762`) | `Text_formats`, `XmlValues <- MCReferences` |
| `MixedContentComesBack` | `xml.md:86` lists mixed content | a node has one text, which every stretch between two children replaces (`xml.cpp:537`) | `Text_formats` |
| `TextNodesComeBack` | `xml.md:62`: Text nodes | CDATA becomes a text child, which is written as text and read as the parent's (`xml.cpp:469`) | `Text_formats` |
| `RootsAreReset` (property) | `xml.hpp:218`: "reset to default state" | `reset()` leaves the type of the root (`xml.cpp:702`) | `Text_formats` |
| `PagesAreReset` (property) | the same | head and body keep the namespaces they had inherited | `Text_formats` |

Met while modelling, visible in the models, and asserted nowhere:

- the rules for a constant on the right of a right implication are swapped
  (`condition.cpp:491`): `A <- {false}` becomes `A` and `A <- {true}` becomes
  true, although the comment says `A <- B` is `A | !B`. `SimplifyKeepsMeaning`
  leaves such trees out.
- `getValueAsBool()` compares with lower-case words (`ini.cpp:109`), although
  `ini.md:79` calls the words case-insensitive: `Yes` gives the default.
- `escapeNonAscii` drops the byte that follows an escaped character
  (`json.cpp:1079` and `1086` both advance); `std::to_string()` writes doubles
  below a millionth as zero; a string that starts with "base64:" and goes on as base64
  is read back as bytes; a pointer's number that is too large throws after a null has
  become an array; the parser takes a key's first value when it comes twice, ignores what
  follows the value and refuses white space in front of it.
- `deleteKey()` of a key that is not there, with FastSave, writes a mark at
  offset 0 over the magic number until the header is rewritten
  (`keydb.cpp:140`; `keydb.hpp:203`: "If the key does not exist, do nothing.").
- `addKey()` with AutoSave and without FastSave leaves what the stream
  still buffers to be lost in a crash, because `save()` never flushes (`keydb.cpp:305-336`).
- the filter `Quiet` (-1) lets every message through: `logt.cpp:321` skips a
  message below the filter and none is below -1; `logt.hpp:62` says "For not
  logging anything".
- debug messages reach stdout with the default filter, which `doc/logt.md:266`
  says drops them; the first argument of `stdcout()`, with which
  `doc/logt.md:300` says stdout is controlled, is read nowhere.
- after a timeout the next call on the same connection takes the late response
  for its own.
- `parse()` ignores what follows a complete expression; `deep_copy()` drops the
  functions that were bound.

- *HTTP text*: an empty header value comes back as one blank, leading blanks are
  lost, a path with a blank is cut, a zero byte ends the body; with lines that end
  in a line feed only, `deserialize()` finds the end of the head earlier than the
  search for an empty line does, and the receiver waits for more body than was
  promised; a negative Content-Length never completes; a response without a
  status leaves the status uninitialized.
- *INI values*: a missing
  key without a default is a list of one empty word; numbers too wide are narrowed
  silently; floats lose what `to_string` does not write.
- *YAML*: a blank or less indented comment line in a nested block closes it, what
  follows deeper is lost and pending aliases dangle; a sequence at the
  indentation of its key discards the mapping; strings such as `true` or `12` are
  written unquoted, `{}` and `[]` are read as strings, an escaped quote ends the
  quotes; `features.comments` and `multi_line` are ignored (`yaml.md:101`). In a
  program's hands, assigning to an alias overwrites the alias while every other
  access follows it; `remove_member()` and `size()` do not follow it; pointers to
  elements dangle when a sequence grows.
- *XML, HTML*: short tags follow the inverted rule (`xml.md:76`) and drop
  namespace declarations; declaration and doctype together cannot be read back;
  a prefix that is declared twice means the outermost one;
  mismatched end tags are accepted; an attribute without "=" reads an
  uninitialized character. A page's `reset()` takes the names of head and body,
  and its const `serialize()` changes the tree.
- *Digests, ciphers*: `end()` does not reset; `hmac<crc32>` throws for keys over a
  byte; CBC starts again at IV in every call, `end()` always encrypts and never unpads
  (`aes.md:176`).
- *Bytes*: a `readString()` that fails leaves the cursor past the length; edits do not
  move the cursor; a container of 2^32 bytes or more is read in part, since count
  times size is a 32-bit product (`bytearray.hpp:257`).
- *Multindex*: `erase_value_by_index()` may delete another value that is equal
  (`multindex.hpp:238`); `erase()` and `uniquefy()` with a reference to a key of
  the table die half way.
- *Words, arguments*: `find(s, start)` only adds `start` to the result; `split()`
  drops an empty last piece; the secondary command is parsed again as an argument;
  `m_failed` is never set and
  `parse_Windows()` does nothing.
- *URI*: `toString()` doubles "?" and "#"; an object used again keeps a port; a
  port beyond an int leaves it half assigned; a password is dropped.
- *UDP*: `fill_sockaddr()` lacks `htonl()` (`udp.cpp:36`), so only addresses that
  read the same from both ends are reached; `receiveFrom()` without a timeout
  blocks for ever (`udp.cpp:210`) although `udp.hpp:108` says it does not; a moved
  socket's descriptor is closed twice.
- *Bitmap, QR*: resizing loses the alignment of rows; a file with equal colours in
  its palette reads black as light; `fill_mode::alternate` draws nothing. Padding
  begins with 0x11 when the number of bytes is odd; masks above 7 flip nothing; a
  given mode that does not fit the text encodes something else.

## 7. What is not modelled

`PROJECT.json` lists every component with its reason. In short:

- *Of the modelled components*: `keydb` objects without a path, and its
  write-ahead log (`keydb.cpp:492-703`), which consists of stubs that nothing
  calls; `logt`'s formatters, preprocessor, time stamps and thread names, and
  concurrent calls of `shutdown()`; name lookup, addresses, `SIGPIPE` (the
  application is taken to ignore it); chunked bodies, which the code does not
  have; binding of functions in conditions, the printed form of a truth table;
  the compression functions and rounds of digests and ciphers, published
  algorithms that known answers test better; conversions to numbers, iteration
  and comparison helpers of the document formats; pictures of colours; the QR
  decoder, a stub.
- *Wrappers of the operating system* (files, memory, permissions, consoles,
  processes, which are Windows only): one call each, no state of their own.
- *What does not build*: `eventloop` and `tasker` (no header), `dictionary`,
  `general_cache` and `hparray` (they do not compile when used).
- *Guards of a few lines* (`singleinst`, `lazyconstruct`, `cache`): nothing in
  them takes more than one step to go wrong.
- *Compile-time code and floating point* (`enum`, `symmath`, `symalgo`, `math`,
  `scalable`): nothing a model checker can tell.
- *Pure text helpers* (`string`, `xstring`, `regexfilter`, `i18n`, `atxsort`):
  functions of a line or two each, which tests reach.
