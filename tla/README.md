# Verification of the Cardputer Tuya controller

TLA+ models of the controller firmware in this repository, TLC runs that check
them on small instances, and proofs that hold for every instance.

## 1. The system: inventory

| Component | Source | State | Operations | Hard behaviours |
|---|---|---|---|---|
| Control loop | `main/device/loop.cpp`, `main/main.cpp` | `once`, the current session, the place in two nested loops | wait for WiFi, build a session, reconnect, poll, give the start-up command | every decision is taken on a WiFi or socket status that may change before the next line |
| Tuya session | `main/device/session/TuyaSession.*` | `linked`, `SEQ_NO`, `hmac_key`, `current`, `inBuffer`/`inLen`, `outBuffer`, the `WiFiClient` | `connectDevice`, `sendLocalNonce`, `handleSignal`, `setDPS`, `sendMessage`, `sendJSON` | three-message handshake over a connection that drops; key change in the middle; no retry |
| Network helpers | `main/device/hal/network.cpp` | the socket's receive buffer | `connectWifi`, `connectToDevice`, `waitAndSend`, `waitForReceive`, `ipv4_parse` | silent drops, unbounded reads, ignored results, parsing that writes part of its result |
| Tuya frames | `main/backend/tuya/libtuya.*` | a 512-byte buffer | `prepareTuyaCode`, `checksumTuyaCode`, `encodeTuyaCode`, `encryptDataECB`, `decryptDataECB`, key derivation | length arithmetic: padding, HMAC area, prefix of 15 bytes, JSON that fills the buffer |
| Settings in flash | `main/device/persistent/*.hpp` | one NVS entry per value; two for a string; the pointer to the key | read, write, `setKey` | a string is written in two steps, and the device may lose power between them; writes may fail; a wrapper keeps a pointer to its key, not the key |
| Data streams | `main/std/types.hpp` | a cursor into a buffer | `DataReader`, `DataWriter`, `DataWriterLL` | bounds at the end of the buffer |
| Matter headers | `main/backend/matter/codec/**` | none | encode and decode packet and payload headers | fields present or absent by flag; encoder and decoder written apart |
| Matter TLV | `main/backend/matter/tlv/**` | a tree of elements | length computation, serialisation, parsing, tree surgery | lengths of lengths; short and long form; ownership when nodes move |
| SPAKE2+ | `main/spake2/**` | scalars and points of a run | compute the shares, the shared secrets and the confirmations; compress points | nothing includes it and it does not build (section 10); the compression of points stands alone |
| Tetris | `tetris/src/tetris.cpp`, `tetris.py` | field, current piece | move, rotate, fix, clear lines, spawn | overlap of piece and field; lines that clear while scanning; two implementations of one game |
| Python client | `python/*.py` | the session once more | frame codec, address parser, session | a second implementation that must agree with the first |
| Utilities | `main/device/std/utils.cpp`, `string.hpp`, `main/spake2/bigint/hex.hpp` | characters and a length; none otherwise | fixed strings, views, writers; byte order, hex, time stamp | views of memory that changes under them; counters that wrap; calendars |
| Matter framework glue, M5Stack, logging, RTC | `main/backend/matter-fw/**`, `main/device/m5stack/*`, `main/device/hal/rtc.cpp`, `main/device/std/debug.cpp` | none of their own | callbacks that log, display, NTP | not modelled |

How they interact. There is one task, `loopTask`, that calls `setup()` and never
returns from it (the `IOTask` thread is empty).  `setup()` owns the session; the
session owns the `WiFiClient`, the buffers and the key; the network helpers
block the task for up to 10 s (connect) or 100 ms (receive).  Concurrency comes
from outside: the WiFi driver, the TCP stack and the bulb change state between
any two lines of the task.

## 2. Plan

| Step | Modules | Runs | Proofs | State |
|---|---|---|---|---|
| 1 | `TuyaSession`: loop, session, network, bulb; `TuyaLink`: what a session promises | `session`, `session_live` | all safety properties, `NothingRefused` and the refinement | done |
| 2 | `TuyaFrame`: the passes over the 512-byte buffer; `PyTuya`, `TuyaFramePair`: the Python codec beside it | `frame`, `py_frame` | all properties, for every buffer and length | done |
| 3 | `NvString`: two-step writes, power loss, refused writes, change of key; `NvTyped`: the wrappers of single values | `nvstring`, `helpers` | all their properties | done |
| 4 | `MatterCodec`: encoders against decoders; `DataWriterLL` | `matter`, `stream` | all properties of `MatterCodec`, for every message | done |
| 5 | `Tetris`; `TetrisPy`, `TetrisPair`: the Python game beside it | `tetris`, `tetris_end` | all safety properties: both games, both ways of clearing lines | done |
| 6 | `TlvTree`: ownership of nodes; `TlvCodec`, `TlvWire`: computed against written lengths | `tlv_tree`, `tlv_wire` | all properties of `TlvTree`, for every number of elements | done |
| 7 | `Ipv4`, `Hex`, `TimeStamp`, `FixedString`, `Points`, composed with `NvTyped` in `Helpers` | `helpers` | `SameVerdict`, `FailureDialsNoHost`, `AcceptsAddresses`, `CountsDays`, `StringsSay`, `TypedReadBack`, each by itself and in the composition | done |
| 8 | SPAKE2+ over a small group; the Python session against `TuyaLink` | | | dropped, see section 10 |

The safety properties that remain with TLC are those of `TlvWire` and
`PointsComeBack`; section 10 says why.

Proofs live in `TuyaSessionProofs`, `TuyaFrameProofs`, `NvStringProofs`,
`MatterCodecProofs`, `TetrisProofs`, `TlvTreeProofs` and `HelpersProofs`.
`SetInduction` serves them: the prover cannot instantiate an induction theorem
that takes a predicate, so it states induction, the least element and recursion
with *sets* and *functions* (`Induction`: a set that holds 0 and the successor
of each of its numbers holds them all; `Recursion`: a first value and a step make
a function), and derives the three from the pigeonhole principle for finite
sets.

The most important behaviour is that of step 1: whether the controller and the
bulb end with the same key, whether the command is given once, and whether the
link comes back after a drop.

## 3. TuyaSession

`TuyaSession.tla` is one machine with three groups of actions.

* `LoopTask`: the code.  `pc` is the place in `setup()` and in the session
  method it is in.  The task is cut wherever it looks outside: `WiFi.status()`
  (`StayInSession`/`LeaveSession`), `client.connected()` (`CheckSocket`,
  `CheckSignal`, `SendLocalNonce`), the receive buffer (`Receive`,
  `ReceiveNothing`), a write (`SendLocalNonce`, `HandleGreeting`, `SetDPS`).
  What the code computes between two of these is one step: `HandleGreeting`
  decrypts the nonce, answers under the old key, derives the new key and sets
  `linked`, since nothing outside is looked at in between but the socket that
  takes the answer.  The command is `device.setDPS(obj)` in `loop.cpp:109`,
  under `USE_ARDUINO_JSON`; no `device` is declared there, and the session is the
  only object that has a `setDPS`, so `SetDPS` takes it for the session's.
* `Bulb`: a device that follows the Tuya 3.4 handshake as the session code
  expects it to: greet a hello, link on a finish that proves the nonce, obey a
  command under the session key, ignore anything else.  External.
* `Environment`: the WiFi and the bulb go and come, the socket is found dead,
  somebody uses the switch.  External.

Correspondence: `wifi` is `WiFi.status() == WL_CONNECTED`, `sock` is
`client.connected()`, `linked`, `seqNo`, `hmacKey`, `current` are the session's
fields, `inFrame` is what is at offset 0 of `inBuffer` while `inLen > 0`, `once`
is the local of `setup()`.  `toDev` and `toCtl` are the two directions of the
TCP stream; a new connection starts both empty.  A key is a record: `zero`
(calloc), `local`, or `session` with the nonce it was made from; the local nonce
is a constant string, so the session key depends on the bulb's nonce alone.

Abstractions.  Bytes, JSON, time stamps, device ids and logging are left out; a
cipher text is readable with its key or it is noise (`Garbage`, `"blank"`).
`Receive` takes any non-empty prefix of the stream, because `waitForReceive`
reads whatever has arrived, and keeps only its first frame, because
`handleSignal` parses only that one.  With `Splits` a frame may arrive in two
parts; the first part holds at least the header, shorter fragments are not
modelled.  `SEQ_NO` is a natural number: `SequenceOrder` and the three frames a
connection carries keep it far from 2^32.

### Runs

| Run | Constants | Checks |
|---|---|---|
| `session` | 2 nonces, unnoticed drops, split frames, 3 parts in flight | `TypeOK`, `KeyAgreement`, `FrameKeys`, `SequenceOrder`, `CommandOnce`, `ReportsReadable`, `LinkKeepsKey`, `ImplementsLink` |
| `session_live` | 2 nonces, unnoticed drops, split frames, 2 parts in flight | `NothingRefused`, `StableLinks`, `StableLinksOrHangs` |

`NothingRefused` and `StableLinks` speak of behaviours in which every loss
closed the socket and every frame arrived whole: `CleanHistory`, that is
always `Noticed` and `WholeFrames`, is their hypothesis, and the same run has
the behaviours without it.  `FairSpec` is used there.

Two nonces are enough to tell a key from a stale one: no definition compares
more than two.  `MaxQueue` (parts of frames towards the controller) is the only
bound; 3 lets a greeting or a report meet another report and a split frame.  The
frames towards the bulb are bounded by the protocol, reconnections, drops and
restarts by nothing.

Fairness (`Fairness`): weak for the loop task (a FreeRTOS task whose every wait
has a time-out) and for the bulb; strong for `Receive`, because bytes that have
arrived stay in the receive buffer until a poll finds them.  The WiFi and the
bulb may be away for as long and as often as they like: the liveness properties
start from `<>[]Stable`, a WiFi and a bulb that are up from some moment on.  Two
things are taken for granted of a network that *is* up: a dial does not fail
while both are there (`Dial`), and a bulb that is up does not close its socket
of its own accord.  A network that keeps refusing dials or a bulb that keeps
hanging up would let the controller dial for ever, and no property speaks of it.

What the live runs show: if every earlier loss closed the socket, the session
links and the command is given (`StableLinks`).  If a loss went unnoticed -- the
WiFi is away for the moment of one write, or the bulb restarts behind an open
socket -- the session may hang for ever with an open socket, because the hello
and the finish are sent once and nothing times out.  `StableLinksOrHangs` states
that this is the only other end.

### Proofs

`TuyaSessionProofs.tla` proves, for all constants that satisfy the assumptions,
`TypeCorrect`, `KeysAgree`, `KeysOfFrames`, `ReportsAreReadable`,
`LinkedKeyStays`, `SequenceIncreases`, `CommandAtMostOnce`, `NothingIsRefused`
and `SessionImplementsLink`.

`KeyAgreement` is not inductive: it says nothing of a finish or a greeting still
in flight.  `HandshakeInv` follows the handshake's token through the streams:
while the socket is open (`Attached`) there is at most one hello, then at most
one greeting, and while either is about the session is not linked, holds the
local key and has nothing else in flight (`OneHello`, `OneGreeting`,
`BeforeHello`); after the greeting everything in flight belongs to the key of
the linked session (`LinkedKey`, `AfterGreeting`).  Frames of a closed
connection may still reach the bulb; that is why the invariant speaks of the
attached connection only, and `Closed` is needed to know that a new session
does not inherit one.  `SeqInv` adds that the next number is above all used ones
on an open socket.  The refinement adds `NonceInv`: what a linked end holds is a
nonce of the bulb or `Garbage`, never "no nonce".

`NothingRefused` has a hypothesis about the whole history, `CleanHistory`: every
loss was noticed and every frame arrived whole.  `CleanInv` is what such a
history keeps beside the other invariants: the frames on their way to the bulb
are in turn (`InTurn`: the one it waits for, and behind a finish at most the
command that depends on it), a greeting in flight or in the buffer is about the
nonce the bulb waits for (`GreetingKept`), and the finish of a linked session
was not dropped (`LinkHeld`).  A step from a clean state to a clean state keeps
it; the temporal step puts that together.

Model-checked only: `StableLinks` and `StableLinksOrHangs`, since liveness is out
of the prover's reach.

## 4. TuyaFrame

`TuyaFrame.tla` takes one frame through one buffer, at the byte level that
`TuyaSession` leaves out.  A byte is named by what wrote it (`<<"json", 3>>`,
`<<"cipher", <<"json", 3>>>>`), so that two passes that meet on a byte can be
told apart.  `mem` is `outBuffer` or `inBuffer` and `Slack` bytes behind it.

`kind` is the path through the code: a handshake message (`encodeTuyaCode`:
`Prepare`, `CopyMessage`, `Checksum`), a command (`sendJSON`: `Prepare`,
`FillJSON`, `Checksum`), or a status report (`Arrive`, external, and
`DecryptReport`, which is `getTuyaPayload`, `decryptDataECB` and the version
prefix of `handleSignal`).  Each action is one call, in the order of the code.

Two things are worth knowing before reading it.  `sendJSON` rounds the length up
itself and then lets `encryptDataECB` pad once more: a whole block of cipher
text lands on the place of the HMAC, which `checksumTuyaCode` then writes; what
the bulb decrypts ends in zero bytes and not in PKCS#7 padding (`PlainByte`).
And `handleSignal` takes the size field for the length of the cipher text, so it
decrypts the HMAC, the suffix and up to fifteen bytes beyond the frame; the byte
that is then taken for padding is one of those (`Padding` is a choice).

Run `frame` has the real 512 bytes, both handshake messages (16 and 48 bytes)
and documents of 2 to 20, 30 to 34 and 410 to 436 bytes: every position in a
block, and the lengths around the last that fits (`Fits`).  A behaviour ends
when its frame is done, so deadlock is not checked.

`PyTuya.tla` is the codec of `python/tuya.py`, whose slices of a bytearray are
copies: `payload` is the copy that `prepare_tuya_code` and `checksum_tuya_code`
fill, `code` is the frame they return.  `TuyaFramePair.tla` lets both codecs make
the frame of the same message, call by call; `frame` and `py_frame` are runs of
this module.  The Python codec reaches the header and the payload, and run
`py_frame` refutes `PySealed`: neither the suffix nor the HMAC gets into the
frame.

| Property | What it says |
|---|---|
| `FrameAsSent` | the finished frame is header, encrypted payload with the document entire, HMAC, suffix |
| `SignedAsSent` | the HMAC was computed over the bytes that are sent |
| `InsideBuffer` | a frame that fits keeps every pass over it inside the buffer |
| `DocumentGiven` | the parser is given the whole document, whatever the padding byte says |
| `PySamePayload` | the Python codec puts the same header and payload in the same places of a frame of the same length |

The code does not check that a frame fits.  `Fits` is a hypothesis of the
properties, and the hazard is listed.

`TuyaFrameProofs.tla` proves all five and `TypeOK` for every `Size`, `Slack` and
set of lengths.  `FrameInv` says, pass by pass, which parts of the frame stand
already (`FrameSoFar`: header and suffix after the first, payload after the
second, HMAC after the third), that nothing beyond `Extent` is touched
(`CleanBehind`), and what is known of a report (`ReportSoFar`).  The arithmetic
is in two lemmas: padding adds 1 to 16 bytes, so the extra block stays below the
suffix; and the length given to the parser exceeds the document by at least 25.
For the port, `PairIsFrame` shows that the pair is still a run of `TuyaFrame`, so
that all of this holds of it, and `PyInv` says what the port's two buffers hold
after each of its calls; `PySamePayload` follows from both (`PySealed`, which
the code violates, does not).

## 5. NvString and NvTyped

`NvString.tla` is `_NvString_` over NVS: `length` and `chars` are the two flash
entries, `code` is the buffer `_code_`, `SetLength` and `SetChars` are the two
writes of an assignment (the argument `_length_ = min(...)` is evaluated before
the call of `putBytes`), `Read` and `ReadString` the two kinds of reader,
`Restart` a power loss at any moment.  With `failing` NVS may refuse any write.
The bytes behind the terminator of a C string are `Noise`: when the first write
was refused the second may copy them.  NVS itself is atomic per entry (external).

`SetKey` turns the object to the two entries of another key (`parked` holds the
entries of the keys it does not have now) and leaves the buffer as it is.

Run `nvstring`: two keys, a buffer of 2, and strings of no, one and three
characters over an alphabet of 2: empty, shorter and too long, in any order
(`MCNvString`).  The keys are symmetric.
`ReadBack`: an assignment whose two writes succeeded is what every reader
returns until the next one, whatever failed before.  `OldOrEmpty`: while NVS
refuses nothing, `bytes()` returns after a power loss the last string that got
into flash, or the empty one, never a mixture; an object that has had another
key is left out (`turned`), because a torn entry does show the characters of the
other key's string there.  `toString()` is not covered by
it: its array is not zeroed, so a torn string reads as old bytes.  The empty
string is no exception in the code but for one thing: an entry of no bytes is
not written, so the characters of the string before it stay in flash.

`NvStringProofs.tla` proves `TypeOK`, `ReadBack` and `OldOrEmpty` for every
alphabet and size.  `ReadBack` needs `StoredInv`: what was stored is what is in
flash.  `OldOrEmpty` needs `TornInv`: while nothing is refused the characters in
flash are those of `kept`, and where the length is another string's the buffer
is still zero wherever the characters do not reach.

`NvTyped.tla` is the six wrappers of `nv_typed.hpp`: the NVS type under which
each writes and reads (`puts`, `gets`), what it reads without an entry, and the
place in memory where it looks for its name (`at`).  `Reuse` is the caller
writing another name to that place; Preferences and NVS are external, and NVS
may lose the entries of other types under the same name.  `TypedReadBack`: an
object reads what it wrote until its key, the text of its key, or its name's
entry changes.  A part of run `helpers` (section 9); two objects, names and
places let two wrappers of any two classes share a name, a place, or neither.
`HelpersProofs.tla` proves it for any numbers: `EntryInv` says that what an
object may claim stands in its entry, which needs that every class reads the
type it writes.

## 6. MatterCodec and DataWriterLL

`MatterCodec.tla` composes the four functions of `PayloadCodec` and
`PacketCodec`: `EncodedMessage` writes what the encoders write, byte by byte,
`DecodedMessage` reads what the decoders read, and the actions let a message be
encoded, get an extension from another node, be cut, and be decoded.  Numbers
are sequences of bytes, lowest first; `DataReader` and `Read` are what the input
stream of `types.hpp` does with them.

The codec includes `../core/Utils.hpp` and `../core/Types.hpp`, which are not in
the repository, and finishes with `writer.toByteArray()` where the writer of
`types.hpp` offers `toBytes()`.  That its `DataReader` and `DataWriter` are those
of `types.hpp`, and its `ByteArray` and `Bytes::concat` the `bytes_t` and
`concat` there, is an assumption of the model: they are the only classes of these
names here, and have the other methods the codec calls.

`checkSize` throws when the bytes do not suffice, but only `if (end && ...)`, and
the end of a vector without storage is null.  So a decoding can stop in two ways
(`Stopped`): `Failed` is the exception, `NullRead` a reading through the null
pointer.  What comes after the latter is undefined (an exception of the
processor on the ESP32), and nothing is said of it.  The reader of the datagram
has an end unless the datagram is empty and its vector has no storage (`storage`
in `Decode`, either way); `PayloadCodec` reads from a new vector with the bytes
the first decoder left, which has no storage when none were left.

Run `matter` has 768 messages: every combination of the optional fields,
two vendors, all marks the encoder treats differently, cut after every byte.
`RoundTrip` says exactly which messages come back as sent (`Agreed`): not those
of a vendor's protocol, whose id is written as 4 bytes and read as 2 and 4; not
those with a destination node and group, which are written and then refused;
not those with privacy or control marks, which are dropped.  `ExtensionSkipped`
is about what other nodes do to a message, `CutReadsNullOnlyWhenEmpty` about what
the network does: a cut message is refused or gives the same headers and the
beginning of the payload, and it is read through the null pointer only in an
empty datagram, and *always* in one that was cut exactly where `decodePacket`
stops, behind the packet header and its extension.  That is what the code does
and nothing a caller should rely on: the property says where the missing check
bites and that it does nowhere else.  A behaviour ends when the message is
decoded or refused, so deadlock is not checked.

`MatterCodecProofs.tla` proves the three for every set of messages, every
extension, every content of the fields and every payload.  The invariant
(`MatterInv`) only says that the bytes on their way are the beginning of an
encoded and perhaps extended message, and that what is decoded is decoded from
them.  The rest is about the functions, and goes by three arguments.

* *Ahead.*  If a reader has `f \o t` before it, a reading of the length of `f`
  gives `f` and leaves `t` (`ReadFront`).  The encoders' output is brought to the
  form `f1 \o (f2 \o ...)` and read off field by field (`PacketHeaderBack`,
  `PayloadHeaderBack`), which needs that the flag bytes show the marks that were
  added up in them (`PacketMasks`, `SecurityMasks`, `PayloadMasks`) and that an
  optional field is written exactly when its flag is set (`PresentBack`).  For
  the messages that are not `Agreed` it shows what is read in their place
  (`Misread`), so that `RoundTrip` is an equivalence in the proof too.
* *Short.*  A decoder that reads the beginning of a byte string (`Begins`) fails
  or reads what the decoder of all of it reads (`ReadShort`, and from it each
  decoder), and leaves as many bytes less as were cut: a cut is not misread.
* *Checked.*  A reader with an end keeps it or throws, through every decoder
  (`ReadChecked`, `DecodersChecked`), and one without reads through the null
  pointer at once (`NullDecoders`).  So all depends on whether the second decoder
  starts with nothing (`DecodedOutcome`), and by the lengths of *Short* that is
  where the cut message is as long as its packet header and extension
  (`CutAtPacket`).

`DataWriterLL.tla` is the third writer of `types.hpp`.  Run `stream` refutes
`StaysInBuffer`: `ensureCapacity(n)` is described as checking that there is room
and ignores `n`, so it notices an overflow one write late.

## 7. Tetris

`Tetris.tla` is the game of `tetris.cpp`: `field` is the set of filled cells,
`piece` is `currentPiece`.  `update()` asks three buttons, a long press and the
clock one after the other; each of them is a step of its own (`Rotate`, `Shift`,
`Drop`), since any of them may be the only one that fires.  `Drop` is
`movePiece(0, 1)`: `Fall`, or `FixPiece` with line clearing and spawning.

Fairness is `WF_vars(Drop)`: `update()` drops the piece whenever half a second
has passed, whatever the buttons do.

`TetrisPy.tla` is `tetris.py`, whose field is a list of rows; `clear_lines` walks
upwards, deletes full rows and inserts empty ones, and takes another look at the
same line.

`TetrisPair.tla` puts the two side by side.  They do not play alike under the
same hands: `tetris.cpp` turns the piece once for a press of A (`wasPressed()`)
and drops it while A is held for 300 ms, `tetris.py` turns it at every look at a
pressed A and has no such drop; each looks when its own loop comes to it, and
each deals with a random generator of its own.  So the pair has steps in which
both make the same calls (`PressA`, the first look at a pressed A; `ReleaseA`;
`PressShift`; `BothTick`) and steps that part them: `HoldA` (A still down:
Python turns again), `LongPressA` (C++ drops), `SeenByOne` (a press or a tick
that only one of them notices, or notices first), and a `BothTick` after which
they are dealt different pieces.  `together` is history: no parting step has
been taken.  After one only `tetris.cpp` is followed (`Alone`), with all of its
steps, so that the run checks `Tetris` by itself as well; what the pair does to
field and piece is always a step of `Tetris`.

Run `tetris`: a field of 4 by 5 with I, J, O and S, which have the four shapes of
trouble: a block left of the field after a turn, one above it, no rotation, and a
hollow.  J and L never get to the field (see `tetris_end`), Z mirrors S, and T
is left out to keep the run short.  `NoOverlap`: the piece covers free cells of
the field alone.  `RowsComeDown` is about every landing (`FixPiece`): it compares
the row-by-row `clearLines` with what clearing means (`Cleared`).
`EveryPieceLands`: no buttons hold a piece up.  `SameGame`: while they are
`together`, both games hold the same piece in the same place and show the same
cells; it is a claim about pieces, validity, landing and the two ways of clearing
lines, not about how the buttons are read.

`TetrisProofs.tla` proves the three safety properties for every size of the
field and every set of tetrominoes.

* `NoOverlap` is inductive as it stands: a piece that moved has passed
  `isValidPosition`, and a new one is on a field that it fits or that was
  emptied.  What `clearLines` leaves plays no part.
* `RowsComeDown` is about nothing else.  `Visited(f, y)` is the field when the
  loop looks at row `y`: everything from `y` on is as it was, and everything
  above has come down by the full lines it met on its way (`Between`).
  `VisitNext` is one round, `ClearLinesClears` the induction over the rows:
  `clearLines` computes `Cleared(f)`.  That the loop is a function at all is
  shown with `Recursion` (`ClearExists`).
* `SameGame` needs the same of `clear_lines`, which goes up from the bottom, may
  look at one row several times, and therefore does not go row by row.
  `Settling(f, s, y)` is what it has made of `f` when row `y` holds what was row
  `s`; a full row makes `s` one less (`SettlingDeletes`), another makes both one
  less (`SettlingGoesUp`).  It ends because every deletion leaves one more empty
  row at the top, which is never deleted again (`Rounds`, `RoundLess`): at most
  two rounds for each row.  `PyClearLinesClears` is the result, again
  `Cleared(f)`.  `SameState` then ties the games to each other while they are
  `together`: the same piece (`SamePiece`: letter and index, blocks as a set and
  as a list) and rows that are filled where the field is.  Moving, turning,
  validity and spawning agree on it, so that every step in which both make the
  same call keeps it; the steps that part them claim nothing.

For these proofs the loops are recursive functions in the models, from the row
and the field to the field at the end, as in the code.

Run `tetris_end` refutes `EndsWhenBlocked`.  J and L have a block above row 0,
so `isValidPosition` refuses them where they are spawned, on an empty field too,
and the field is wiped as if the game were over.

## 8. TlvTree, TlvCodec and TlvWire

`TlvTree.tla` is the memory behind the TLV library: variables of type
`tree_node`, the elements of their `std::list`s, and the pointer of every node
to its parent.  `heap.children[n]` is `m_children`, `heap.parent[n]` is
`m_parent`, `heap.item[n]` is `m_data`; a list that is assigned or cleared
destroys its elements (`Destroy`).  One action per operation: construction, the
end of a variable, `add_child`, `graft`, `prune`, and copy and move, by
constructor and by assignment.  The assertions of the code are the guards:
a caller that violates one is outside the model.

`graft` calls itself for every child of what it grafts, and it reads the
children of the source while it adds to the target, which may be above the
source in the same tree.  `GraftAll` is that recursion as the machine runs it: a
stack of calls (`Call`: where to, what from, the next child), of which
`GraftStep` lets the innermost go on by one child or return.  No node takes more
than two steps, so `2 * |Addresses|` steps are enough for any copy (proved, see
below).

Run `tlv_tree` has two variables, four elements and one item.  `OneOwner` says
that every element hangs in one list and points to the node that owns it;
`MoveKeepsTree` and `CopyIsDeep` compare the trees before and after, also when
source and target are in the same tree.  Four elements are what a copy needs
to go two levels deep beside its original.  A copy is *added* to the children
that are there: `CopyIsDeep` states it, since no doc says what was meant.
Variables and elements are symmetric.

`TlvTreeProofs.tla` proves the three for any finite sets of variables and
elements, any items and any bound: `EveryElementHasOneOwner`, `CopiesAreDeep`,
`MovesKeepTheTree`.  Assumed are only that variables and elements are different
finite sets of addresses without `Null`, and that the bound is not above the
number of elements.

* `OneOwner` is not inductive: it does not say that a list names elements
  only, and only those that are alive.  `Forest` is
  (`AlwaysForest`): a list names elements that are alive (`Listed`) and take its
  node for their parent (`PointedUp`), each once (`Distinct`); an element is in
  the list of its parent (`Hanging`); what is gone holds nothing (`Bare`); and
  going up ends (`Rooted`: in every set of nodes one has its parent outside).
  `ForestBut` is the same but for elements that were just taken from a list and
  are about to be destroyed.  `ForestOneOwner` gets `OneOwner` from it.
* `Owned`, `TreeIn` and `AncestorsIn` are recursive functions over the lists and
  pointers, and need not be defined on a heap with a circle.  That in a forest
  they satisfy their equations (`OwnedUnfolds`, `TreeUnfolds`,
  `AncestorsUnfold`) is shown by induction from the leaves (`FromLeaves`): what a
  node has when all its children have it, every node has.  There is no induction
  theorem for that which the prover can use; `Exhaust` derives it from the
  finite number of addresses.
* A move takes the children, destroys the old ones, prunes the source where it
  hangs, and then makes the children its own.  In between the lists are those of
  no forest.  `MovedSteps` lets the children be adopted first, so that one forest
  follows the other (`GivenForest`, `DestroyKeeps`, `PruneKeeps`), and
  `MovedKeeps` shows that the order makes no difference to what comes out, also
  when the source is below the target and perishes with the old children.
* A copy is a loop, and `GraftInv` its invariant: `cp` maps each new element to
  the one it is a copy of, no two to the same (`CopyOf`); the lists of the
  copies are the beginnings of those of the originals, after what was there
  (`CopyLists`); each call under way is as far as its list (`CallsFit`), and a
  node without one is done (`ListsDone`).  The original is not the target nor
  owns it, so nothing that is still to be read is changed (`OldKept`), although the
  copy may be growing above it.  `CopyingAt` counts: after `k` steps `k` and the
  open calls are twice the new elements and one, hence the loop ends
  (`GraftEnds`); there is always an element left for it (`GraftRoom`).
* `SameTree`: a map between two heaps that takes lists to lists and keeps items
  keeps trees.  With `cp` it says that a copy is deep, with the identity that all
  that a step does not reach stays as it was, and with the identity but for the
  source that a move keeps the tree.

`TlvCodec.tla` is the encoding as operators, byte by byte; `TlvWire.tla` lets a
tree be built by `Construct` and `AddChild`, encoded, cut and decoded.  Run
`tlv_wire` has five items around the limits of the short form (127), the long
form (255) and one- and two-byte tags, and two elements below the roots.
`RoundTrip` is an equivalence.  A tree comes back exactly when no element inside
of it is `Awkward`: the length of a length is computed from tag and value
together and written for the value alone, so an element of, say, 126 bytes with
a tag of two counts one byte more in its parent than it has.  `Writable` leaves
out primitive elements with children, which are never written.  `CutIsRefused`
needs an element at the root: a forest that is cut between two trees is a
shorter forest.  A behaviour ends when the bytes are read, so deadlock is not
checked there.

## 9. Helpers

`Helpers.tla` puts the firmware's sequential helpers into one run.  They share
nothing; `job` is the one that is at work in a behaviour, the others stay in one
initial state.

| Module | Code | State and actions | Properties |
|---|---|---|---|
| `Ipv4` | `ipv4_parse` of `network.cpp` and of `ipv4.py` | the locals of both; `ReadSymbol` is one round of both loops, `CppFinish` and `PyFinish` what follows the loops | `SameVerdict`, `FailureDialsNoHost`, `AcceptsAddresses` |
| `Hex` | `binary_hex`, `tallymarker_hextobin`, `b2h`, `h2b` | the text and the bytes; one step per round of a loop | `BytesComeBack` |
| `TimeStamp` | `getTimestamp` | a calendar that is walked day by day (external) | `CountsDays` |
| `FixedString` | `_String_`, `_StringView_`, `_StringWrite_` | characters and length of texts, one view, one writer; an action per constructor or assignment (a copy of a writer or a view is equal to it and left out) | `StringsSay` |
| `NvTyped` | section 5 | | `TypedReadBack` |
| `Points` | `ecc_point_compression.c` | a point of a curve, compressed and decompressed | `PointsComeBack` |

What they say:

* `SameVerdict`: the two parsers agree on every text whose length fits a
  `uint8_t`.  `AcceptsAddresses`: and what they accept is four groups of digits
  below 256.  `FailureDialsNoHost`: `connectDevice` ignores the verdict and dials
  what is in the array; whatever was refused, and however the length was cut,
  the last byte is zero, so no other device is dialled.
* `BytesComeBack`: each reader ends with the bytes each writer wrote, if they are
  fewer than half the values of the counter; at half, the `uint8_t` of
  `tallymarker_hextobin` is back at 0 and the loop does not end, which the
  property leaves out and the model does.
* `CountsDays`: no day is skipped or counted twice.
* `StringsSay`: a text says what it was assigned, a writer what was written, and
  a view is a window on whatever its text holds now.  A writer does not tell the
  text its new length; the text then says no more than its own length, and what
  it says after a shorter writing is left open.  A text that is assigned from a
  view of itself is wiped before it is copied: it ends up empty (`AssignSelf`).
* `PointsComeBack`: every point survives compression, the ones with `y = 0` too.

Bounds.  `MaxText` and `Wrap` are 8, the length of the shortest text that has
every kind of error and an address of four groups, and the first that wraps;
the symbols are two digits that overflow (255, 522), the dot and another.
`HexWrap` is 8 with up to 4 bytes, so that the counter wraps.  The years are 1970 to
2101, over a century that is a leap year and one that is not.  Two texts of two characters and
strings of up to three.  The primes are 7, 11, 19 and 23, on every curve with
`a = -3`.  All of them may stop, so deadlock is not checked.

Fairness is `WF(HexJob)`: a loop runs to its end.

Proofs.  `HelpersProofs.tla` proves six of the eight, for every value of the
constants.

* `SameVerdict` and `FailureDialsNoHost`, for every set of symbols, every length
  and every width of the length.  `InStep` is the invariant: both parsers are at
  the same symbol with the same locals, or both are done with the same verdict,
  or one of them has only the end of the text before it.
* `AcceptsAddresses`, for texts of every length.  It has two directions and an
  invariant for each, together in `AddressInv`.  An accepted text is an address:
  `Starts` says where the groups of the text so far begin, that each group a dot
  has ended is one of an address with the value in the result, and that the open
  one has the value in `data`.  An address is accepted: `KeepsUp` says that for
  every text of the right length and of four good groups that begins like what
  has been read, whatever follows, the parser still reads, is in the group the
  text is in and has its value so far (`Follows`); `FollowsMore` takes it one
  symbol further and `FollowsToTheEnd` to the verdict.  Both rest on `ValueNext`
  and `ValueGrows`: a digit more is ten times the number and the digit, and the
  first digits of a number are not more than the number, so that the overflow of
  a group is never seen too early.
* `CountsDays`, for all years from 1970 on: `LeapDayCounted` shows that the three
  divisions step exactly at the leap years, `MonthsJoin` that one month ends
  where the next begins.
* `StringsSay`, for strings and buffers of every size.  `Shows` says of an
  array and a string that they agree up to where the string ends, and that the
  array ends there too or has a terminator: it takes the place of the search for
  the first terminator.  `StringInv` keeps it for every text and the writer, over the full size
  for a text nobody wrote to behind its back and over its own length otherwise.
* `TypedReadBack`, see section 5.
* `HelpersKeepTheirPromises`: the six hold in the composition, since the modules
  share no variable.

## 10. Not modelled, and what only TLC shows

* Liveness (`StableLinks`, `StableLinksOrHangs`, `EveryPieceLands`,
  `BytesComeBack`) is out of the prover's reach.
* `TlvCodec` is written with recursive operators over trees, which the prover
  does not accept: `CutIsRefused` and `RoundTrip` of `TlvWire` are checked on
  bounded trees only.
* `PointsComeBack` is a theorem of number theory (a square root modulo a prime
  that is 3 modulo 4) and is checked for four primes.
* SPAKE2+ (`spake2p-p256.hpp`, `spake2p-p256-old.hpp`, `crypto.hpp`,
  `state.hpp`, `raii/`).  No file of the build includes them, and they include
  headers that are not where they look for them.  What they would compute
  depends on mbedTLS: `mbedtls_ecp_muladd` refuses zero and any scalar that is
  not below the order of the group, and one of the files reduces its scalars by
  the prime.  There is no program here whose behaviour a model could be compared
  with.  The C file for point compression stands alone and is modelled.
* The session of the Python client (`device.py`, `tcp.py`).  `connect_device`
  calls `connect_to_device` without the port it requires; `send_message` passes a
  dictionary to a codec that reads attributes; `handle_signal` passes a tuple
  where a frame is expected.  No step behind the connection can be reached.
* Byte order (`bswap32`, `store32`), the seconds of a day in `getTimestamp`, and
  CRC frames and protocol 3.5, which are not built: single expressions or dead
  code.
* Display, logging, RTC and the ESP-Matter glue keep no state of their own; the
  vendored big integers are taken as integers.
