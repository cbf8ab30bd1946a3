# A TLA+ verification of coalesce

coalesce is the transport half of an SSH-2 implementation in C: identification
exchange, key-exchange messages, binary packets, AES-CTR and HMAC-SHA2, a buffer
and a thin socket layer, with a demo client and server. It is single threaded
and blocking; what makes it hard is the stream between two such programs, state
that both ends must keep in step for the life of a connection, calls that fail
half-way, and length arithmetic.

Paths below are relative to the repository (`src/session.c`, `tests/...`).

## The system

| component | state | operations | correct if |
|---|---|---|---|
| session (`session.c`) | per direction: `encrypted`, CTR state, MAC key, `seq`; V_C, V_S | `session_init`, `session_exchange_ident`, `session_set_keys`, `session_activate`, `session_send(_buf)`, `session_recv` | payloads come out as they went in, in order, under the right keys; nothing unsent is returned under a MAC; no keystream is used twice; both ends hold the same V_C and V_S |
| packet layer (`packet.c`) | `ssh_pkt_t`, the caller's `seq` | `pkt_send(_buf)`, `pkt_recv` | frames follow RFC 4253 and are taken by both receivers |
| buffer (`buffer.c`) | `data`, `rpos`, `len`, `cap` | lifecycle, `buf_reserve`, `buf_put_*`, `buf_get_*`, `buf_consume` | what is put is read back; `rpos <= len <= cap` |
| network (`net.c`) | the socket | `net_read_full`, `net_write_full`, `net_read_line`, listen, accept, connect, close | full or failed, never short; no byte taken too early |
| key exchange (`kex.c`) | `ssh_kex_init_t`, `ssh_kex_proposal_t` | `kex_init_default`, `_encode`, `_decode`, `kex_negotiate`, `kex_derive_key` | both ends choose the same, the client's first |
| AES-CTR, SHA-2, HMAC (`aes.c`, `sha256.c`, `sha512.c`) | counter and offset; partial block | init, update/crypt, final | the result does not depend on how the input is cut |
| field, curve, signature (`fe25519.c`, `curve25519.c`, `ed25519.c`) | the caller's keys, secrets and signatures | X25519; key pair, sign, verify | no limb wraps; two ends compute one secret; what is signed verifies, and only that |
| base64 (`base64.c`) | none | encode, decode | a text says the bytes it was made of, or is refused |
| random numbers (`rand.c`) | none | `rand_bytes` | filled or failed; most callers cannot report a failure |
| demo (`main.c`) | two programs | `server`, `client`, `parse_target` | each has the other's packet if nothing fails; both end |

The caller drives everything: `main.c` (or a test) opens a socket, runs
`session_exchange_ident`, then `session_send`/`session_recv`; `session.c` calls
`aes.c`, `sha256.c`, `rand.c`, `net.c` and fills the caller's `ssh_buf_t`;
`kex.c` reads and writes buffers and is not called by `session.c`: key material
reaches a direction only through `session_set_keys` and `session_activate`. The
two ends share nothing but the stream.

The hard behaviours are listed one by one, each at its line, in `PROJECT.json`
under `hazards`. In short: a write that fails after the cipher has advanced; a
read that fails after the first block; callers that go on after -1; keys that
change between two packets in flight; `session_set_keys` on a live direction; a
packet right behind the identification line; allocations that fail in the middle
of a string; `size_t` and one-byte arithmetic at every limit; subtractions of
limbs that nothing has carried; programs that do not look at what a call returned.

## Modules

* **Session** - one direction of a session: `out` and `in` are the sender's and
  the receiver's `ssh_direction_t`, `wire` the TCP stream, `snd` and `rcv` where
  the two calls and their callers are; `pkts` and `delivered` are histories. The
  stream is cut into the pieces `session_recv` reads as a unit: the length field
  and the rest of a plaintext packet, the 16-byte blocks of an encrypted one and
  its MAC. A cell names the packet it belongs to, so that a reader gets the bytes
  that were meant exactly if it reads the cells of one packet in order and in the
  same cipher state; any other read gives arbitrary bytes (`pc` "junk" and
  "short"), and every outcome the code has for arbitrary bytes is allowed,
  `buf_reserve`'s endless loop ("hung") included. HMAC is ideal.
  `SendBegin`, `WriteCell`, `WriteFail`, `SendReturn` are `session_send`;
  `RecvHead`, `RecvBody`, `RecvMac`, `RecvExtract` the reads of `session_recv`
  and what follows each; `RecvDamaged`, `JunkRead`, `JunkEnd` the same code on
  bytes nobody sent; `InstallOut`, `InstallIn` and their failures the callers'
  `session_set_keys` and `session_activate` around NEWKEYS; `InstallEarly` a
  caller that installs keys as soon as it has them. A packet counts as sent in
  full when `session_send` returns 0 (`done`). A `session_set_keys` that fails has
  either changed nothing or replaced the cipher and not the MAC (`SetKeysFailed`); a
  caller that ignores its -1 activates the direction as it is and goes on. Keys are
  named by the exchange they come from, which each caller counts (`kex`), so that the
  two ends still mean the same by a number after one of them has failed. A failing
  `InstallEarly` is left out: with callers that close it is a close, and no run lets
  callers both install early and ignore -1.
* **OrderedDelivery** - the abstract service: what was accepted is delivered in
  order. Session implements it (`Abstract`, an INSTANCE with a mapping).
* **Framing** - the arithmetic of one frame, with the code's own limits: padding
  and length of `session_send` and `pkt_send`, the checks of `session_recv` and
  `pkt_recv`, `buf_put_raw` and the doubling loop of `buf_reserve`, with `size_t`
  modulo `SizeMod`, `packet_length` cut to its `uint32_t` (`FieldMod`) and the padding
  to its byte. `pkt_send` takes any payload and any block size: where the frame does
  not fit the buffer that is computed from the cut length (`Overrun`), the `memcpy` is
  undefined and the program dies or sends the cut frame.
* **Ident** - both ends of `session_exchange_ident`, with `net_read_line` a byte
  at a time and `session_ident_check` over byte classes.
* **Demo** - extends Ident to the two programs of `main.c`. `Parse`, `Connect` and
  `Listen` come before the exchange and `ClientSends`, `ServerWaits`,
  `ServerAnswers`, `Receives`, `ReceivesNothing` and `Close` after it, each the
  stretch of `client` or `server` from one blocking call to the next;
  `session_send_buf` and `session_recv` are one step each, with the outcomes they
  have in Session and Framing for a plaintext packet. A packet is a symbol for its
  payload and bytes like those of a line behind it, so that a reader out of step
  would read one for the other. `Atoi` is the C library's `(int) strtol`: blanks, a
  sign, the limits of a `long`, the lower half of it as an `int`. A close with bytes
  unread, or bytes that come after a close, reset the connection (`ResetBy`), and
  `BreakDown` then takes from the peer what it has not read yet. `Die` is SIGPIPE and
  the use of a buffer that was not allocated, in which the program may also double a
  garbage capacity for ever ("hung"). `trouble` remembers what came from outside, to
  which a peer's reset does not belong.
* **Buffer** - `ssh_buf_t`: all writers and readers, a writer as the list of
  appends it makes, each of which may fail to grow the buffer.
* **Kex** - two ends that build, send, decode KEXINIT and negotiate, each
  allocation of which may fail.
* **Streams** - `sha256_*`, `sha512_*`, `hmac_sha256_*`, `kex_derive_key` and
  `aes_ctr_crypt` with an ideal compression function and block cipher: a hash
  state is the sequence of blocks compressed, a keystream byte is named by
  counter and offset, and the results are compared with the standards' one-shot
  definitions.
  Its `base64` jobs encode, change one character and decode with **Base64**, which
  holds `base64_encode` and `base64_decode` as operators.
* **Field25519** - `fe25519.c` limb by limb: each limb is kept modulo the machine
  word, so that a difference below zero wraps, with the number of limbs, their
  bits, the fold constant 19, the word and a24 as parameters.
* **Curve25519** - two ends that generate a key, compute its public key and agree;
  one call of `curve25519_eval` is a state machine (`Eval`, a `LadderStep` per bit
  of the scalar, `Store`). The reference is the group law by chord and tangent on
  the Montgomery curve or, for the other half of the u's, its twist.
* **Ed25519** - scalars modulo the order, points in extended coordinates,
  compression and decompression, key pair, sign, verify; SHA-512 is a constant
  operator. The reference is the affine Edwards law and RFC 8032's equation.
* **Curves** - the two side by side, each behaviour one of them.
* **MC...** - values for TLC.
* **...Proofs** - theorems: **SessionProofs**, **FramingProofs**, **KexProofs**,
  **BufferProofs**, **StreamsProofs**, **CurvesProofs**, **IdentProofs**, and
  **DemoProofs**, which uses the lemmas of IdentProofs for the exchange in the two
  programs.

Operators whose comment begins with "Mutant" or "A mutant" are deliberately wrong variants of
the definition that follows them; they are used to see that the properties
notice such mistakes, and the specifications do not refer to them.

## Runs

| run | question | states |
|---|---|---|
| Session_delivery | refinement, synchrony, keys, sequence numbers, delivery of everything unless a write, an allocation or `session_set_keys` fails; callers close at -1 | 48 k |
| Session_damage | bytes damaged, keys installed too early: no gap under a MAC | 0.9 M |
| Session_retry | callers ignore every -1: authenticity, keystream | 7.0 M |
| Session_early | *violation*: keys used before NEWKEYS | |
| Framing_frames | every boundary length, lengths where the two words wrap, block sizes a byte cannot pad to, both senders and receivers, peers' frames | 75 k |
| Framing_padding | *violation*: a malformed frame is not rejected | |
| Demo_connection | both programs to their end: the target, lines before the string, limits, `session_ident_check` against RFC 4253's grammar, agreement, alignment, the packets and who knows of them, what a reset takes along | 213 k |
| Ident_invalid | *violation*: a line that is too long and an empty softwareversion are accepted | |
| Buffer_calls | any calls, failing allocations | 0.6 M |
| Kex_negotiate | same choice exactly when there is one, failed allocations anywhere | 66 k |
| Streams_cuts | SHA-2, HMAC, key derivation, counter mode: any cuts, any key lengths; base64 with a character changed | 2.5 k |
| Curves_rfc | steps of the ladder against RFC 7748's formulas, ladders against the group law, equal secrets, signatures against RFC 8032's equation | 6.4 k |

Bounds. Session sends three to five packets of one or two blocks, NEWKEYS among
them, with at most two faults and two or three cells in flight: enough for a
packet under each of three keys, for a rekey with a packet of the old keys still
on its way, for faults in successive packets, and for a packet longer than the
buffer. `SeqMod` is 3, so that the sequence number wraps; nothing in the code
depends on its size. `MaxJunk` blocks decrypted by a misled read suffice at 1 or 2,
since any wrong position is as wrong as another. Framing has the code's limits;
only the two words are narrower, 2^30 for `size_t` and 2^18 for `packet_length`, so
that TLC reaches the lengths around which either wraps; block sizes are 0, 13, 16, 252,
253, 300 and the largest there is. The run says nothing of
the frames of the finding (`Beyond`), which have their own. Ident scales 255 to 6
and 50 lines to 3; every string is tried at one end with no line before it, every
kind of line at both ends with a plain string. In Demo `user[]` and `host[]` have
three places, so that a name fits, fits without its NUL and does not fit, ports
are the code's own, an `int` has 20 bits and a `long` 24, so that there are numbers too
long for each (1048598 is 22 again), and a target is read before the connection is there, which is
why it is forgotten then. Buffer has
two-bit bytes and two-byte lengths, so that every power of the base and the sign
bit occur, and starts below and above `BUF_MIN_CAP`; in Kex the ciphers vary
and the languages are offered or not, and after a string that could not be
allocated the later fields are NULL or, from some field on, one place late
(the assumption about what misaligned reading yields). Streams
has blocks of four and five bytes, the last of one or two words of length, and
hashes up to 13 bytes in any pieces, so that every fill of the buffer meets every
length of a piece; keys of HMAC are shorter than, as long as and longer than a
block, derived keys take up to three rounds, and the counter wraps in both bytes;
base64 texts are of zero to five bytes, with capacities that are one short.
Curves is the code in another size: 4093 = 2^12 - 3 in three limbs of four bits
for 2^255 - 19 in five of 51. It is the smallest prime of that form on which all
that the code relies on exists: p = 5 mod 8, a24 = 67 with a twisted Edwards curve
whose addition is complete, and points u = 9 and y = 4/5 whose order 521 is prime
and an eighth of the group's. A limb has three times its bits where the code has
64 for 51: a sum of two and 2p fits in both, and a product is taken in
twice the word. `FromU64` puts its small constants in one limb in the code and in
as many as they need here. Keys are four random values, zero (the failed generator),
public keys that are zero, not below p, on the curve, on the twist, of small order,
or no point; signatures are those made, with halves exchanged, with S moved by
the order, and foreign points. `MCSha512` is one mixing function: what is checked
of signatures is that sign and verify hash the same, not what the hash is.

Fairness. `WF(Sender)` and `WF(Receiver)`, or one per end: a call that has begun
runs on as long as the socket lets it, which is what a blocking single-threaded
program does. Callers need not send or close; nothing requires a fault. In Demo it
is `WF(ClientStep)` and `WF(ServerStep)`: the operating system schedules both
programs, and a read that has its bytes, or the end of the stream, returns. Nobody
need start a client, and no connection need break or program die; if the
connection breaks, both ends come to see it.
`CHECK_DEADLOCK FALSE` stands where a misled reader may block for ever
(Session_damage, Session_retry) and where a behaviour is one
frame that ends (Framing), where a bound on calls is reached (Buffer) and where
every key is agreed on or every signature judged (Curves).

Findings (details in `PROJECT.json`):
1. `session.c:347`: for `padding_length` from `packet_length` to
   `packet_length + 2` the payload length wraps and `buf_reserve` loops for ever.
   The check at 342 should compare with `packet_length`.
2. `session.c:149`: keys installed on a direction that already encrypts are used
   at once, against `session.h:71`; safe only if the caller waits for NEWKEYS.
3. `session.c:47`: a 256-byte line that ends CR CR LF is accepted.
4. `session.c:65`: an empty softwareversion followed by comments is accepted.

Also seen while modelling:
* `main.c:183`: if the client's `session_send_buf` fails before it has written
  anything, the client waits for an answer and the server for the packet, until
  one of them is killed; `ProgramsEnd` is stated with that exception
  and with one for a program that hangs in a buffer it could not allocate.
* `main.c:144`: the server returns 0 after `session_recv` has failed, and so does the
  client (`main.c:194`), which prints nothing either; neither looks at `buf_init` or
  `buf_put_*`. The wiki
  (`.qoder/repowiki/knowledge/en`, "Integer-Return Error Propagation") says that a
  failed `session_recv` prints a diagnostic and returns -1. An end that goes this way
  is "returned" in Demo, and no property takes that for a success: `EchoArrives` says
  what it takes for it to happen, `EchoMeansDelivered` is about what was received.
* `base64.c:76`: pads are counted and never compared with what is missing: `QQ`,
  `QQ=` and `Zm9v=` are decoded, although `base64.h:7-9` has -1 for invalid input.
  `Base64OfRfc4648` asks for no refusal of these and for no more bytes than their
  letters hold. Line ends are no part of this: the code skips them on purpose, and
  RFC 4648 leaves that to its user.
* `main.c:33`: `atoi` cuts what it reads to an `int`, so `host:4294967318` is taken as
  port 22. `TargetHonoured` asks for the number that stands there where an `int` can
  hold it, and for a port that exists everywhere. The server's own `atoi(argv[2])`
  has the same cut and is not modelled.
* `packet.c:69`, `packet.c:82`: `pkt_send` writes a padding length or a packet length
  that is cut off for block sizes over 252 and payloads near 4 GB; nothing in the
  repository calls it so.
* `curve25519.c:84`, `ed25519.c:342`: a failed generator leaves keys of zeros and
  no word of it.
* `ed25519_verify` takes a public key whose y is written as y + p, which RFC 8032
  (5.1.3) refuses, and keys of small order, which it leaves open.
* `base64_decode` takes left-over bits that are not zero, which RFC 4648 (3.5) allows.

## Proofs

The theorems hold for every value of the constants that the `ASSUME` of a module
allows, not only for those of the runs. Each invariant below was first checked by
TLC on the run of its component.

| theorem | states | besides the module's assumption |
|---|---|---|
| SessionProofs `TypeCorrect`, `KeystreamSafe` | `TypeOK`, `NoKeystreamReuse` | |
| SessionProofs `Authentic` | `AuthenticUnderMac` | |
| SessionProofs `NoGap` | `NoGapUnderMac` | callers close at -1 |
| SessionProofs `SeqCounts` | `SeqCountsCalls` | |
| SessionProofs `KeysFollow` | `KeysFollowNewKeys` | close at -1, keys at NEWKEYS |
| SessionProofs `Synchronised` | `InSync` | the same, and no damaged byte |
| SessionProofs `Implements` | `ImplementsOrderedDelivery` | the same, and no damaged byte |
| FramingProofs `TypeCorrect`, `LegalFrames`, `PayloadsReturn` | `TypeOK`, `FrameLegal`, `RoundTrip` | |
| FramingProofs `CopiesInside` | `CopyInBounds`, which leaves out the frames of finding 1 | |
| KexProofs `TypeCorrect`, `Same`, `FirstOfBoth` | `TypeOK`, `SameChoice`, `ChoiceIsClientsFirst` | |
| BufferProofs `TypeCorrect`, `RoundTrips`, `WritersAppend` | `TypeOK`, `ReadsBack`, `PutsOnlyAppend` | |
| IdentProofs `LineFits`, `SameStrings`, `NothingReadAhead`, `JunkRefused`, `RfcAccepted` | `IdentTypeOK`, `Agreement`, `PacketsLeftUnread`, `NoJunkAccepted`, `RfcPeersAccepted` | |
| DemoProofs `TypeCorrect`, `StringsAgree`, `PacketsLeft`, `NoJunk`, `RfcPeers` | `TypeOK` and the four of Ident, in the two programs | |
| DemoProofs `Delivered`, `EchoComplete` | `EchoMeansDelivered`, `EchoArrives` | |
| DemoProofs `TargetKept` | `TargetHonoured` | |
| StreamsProofs `DigestsOfWhole`, `MacsOfWhole` | `DigestOfWhole`, `MacOfWhole` | |
| StreamsProofs `KeysOfRfc4253` | `KeyOfRfc4253` | |
| StreamsProofs `StreamPositions` | `StreamPosition` | |
| StreamsProofs `Base64RoundTrip` | `Base64OfRfc4648` | |
| CurvesProofs `LadderArithmetic` | `LadderIsRfc7748` | |
| CurvesProofs `AdditionIsRfc8032`, `ScalarmultLadder` | (no run) point addition and the ladder of `ge_scalarmult` compute RFC 8032's formulas, no limb wraps | points as the code makes them (`Hands`) |
| CurvesProofs `EncodingIsRfc8032`, `DecodingIsRfc8032` | (no run) the bytes of a point and back | decoding: `sqrtm1` is a root of -1, for the equation |
| CurvesProofs `ScReduceIsRemainder`, `ScMuladdIsModular` | (no run) scalars modulo the order | reduced scalars, a clamped one excepted |

**Session.** `TypeOK` is not inductive, because an action that works on a packet
needs one: `TypeInv` adds that the sender has one while it writes and the receiver
one from the body to the extraction, and that the key in use is none of a later exchange
than the last (`KexAhead`): the next keys are then new also after an exchange whose
`session_set_keys` has failed, which leaves the direction with the cipher of that
exchange or of the one before. Of callers that close at -1 it says that the two numbers
are the same, which the theorems about both ends need. `NoKeystreamReuse` and
`AuthenticUnderMac` need no such caller: they hold with a half-installed direction in
use. `NoKeystreamReuse` compares packets with each
other; `KeystreamInv` also compares each with the cipher state the next one will use
(`Behind`): a failed write keeps it since the counter is not taken back, new keys
since their epoch is higher. `MacInv` says of a read that is going on under a MAC
which cells it has taken, of the stream that under one MAC key the packets come in
the order sent; a MAC that fits is then that of the packet being read. `GapInv` adds
that each packet's MAC key belongs to its cipher key, and that with callers who close
at -1 nothing in front of what is read has been skipped. `SeqCountsCalls` needs
that the packet being written or read is not yet counted. For synchrony the cells of
the stream are the packets from the one after the last delivered, each from its first
cell not yet read, and the receiver's direction is the one that packet was protected
in; a NEWKEYS read and not yet acted on is the case in between.
The refinement maps the packets to what was handed over and `delivered` to itself;
every action is `Send`, `Deliver` or a stutter, by the invariant of synchrony.

The hypotheses are about the callers and the line, and the code has both kinds of
caller: `Disconnect` is what `main.c` does, `EarlyInstall` what `session.h` allows a
caller to try (finding 2 shows that `KeysFollowNewKeys` is false then), and a damaged
byte (`"flip"`) shifts a plaintext stream, after which `InSync` is not true of the
code either. Assumed in the model: each key exchange gives fresh keys, the 128-bit
counter does not wrap under one key, HMAC is ideal.

**Framing.** `FramingInv` is the type invariant with `FramedInv`, what a frame of
either sender looks like from its arithmetic (`%` and the padding of at least four,
one block more when there is less), and `TakenInv`, what a receiver has accepted so
far. `Beyond` are the frames for which `session_recv`'s subtraction wraps.
`LegalFrames` speaks of the payloads and block sizes for which RFC 4253 has a frame at
all (`HasFrame`: 4 to 255 bytes of padding and a length that its field can count): the
padding that the code chooses is the least there is, so it fits its byte and the casts
lose nothing there (`PktFrames`). `session_send`, whose block is 8 or 16 and whose
payload is limited, has such a frame always. `FramingAssumption` asks of the words only
that each holds the limits, and `size_t` two of the narrower.

**Kex.** `ChoiceInv` has three parts. `OfferedInv`: an end's lists, and those it sends,
are its offer but for a list that could not be copied. `DecodedInv`: a packet that is
misread misses a list that counts, and any other holds the peer's offer, or an empty
list, in every field that counts. `AgreedInv`: what an end has agreed is what
`match_list` makes of the two offers, because a missing or an empty list leaves nothing
to choose. Both ends thus choose by the same two lists.

**Buffer.** `TypeOK` needs that doubling passes every length (`TwiceGrows`).
`ReadsBack` alone says nothing of what has not been read: `LogInv` adds that the
encodings of the values put lie one behind the other from the start of the data,
that they are all of it if no put has failed, and that the cursor of a reader in
step is where its next value begins; `GotInv` says that what was read is what
`Decoded` makes of the log. Under it are lemmas about the encodings, for every base:
`NumberReadBack` (the digits of a number that fits say the number), `ZerosInFront`,
`CanonicalIs` (a big number in RFC 4251's form keeps its value) and `Written` (the
pieces a writer appends are the encoding of its value). `BufferAssumption` has each
integer fit its type, and each length, with one pad byte, 32 bits: `buf_put_string`
and `buf_put_mpint` cast a longer one, which no caller in the repository has.

**Ident and Demo.** `ExchangeInv` says of each end what of its own string is on the
wire and that what it has consumed is a beginning of what the peer writes, made of
whole lines that were skipped and the line being read. An end that succeeds has
stopped at the first line that begins as SSH, which is the peer's string, since the
lines before it begin otherwise: from that follow what both hold, what is unread and
what is refused. `RfcChecked` shows that `session_ident_check` refuses nothing that
RFC 4253's grammar has. `IdentAssumption` says that what an end sends is its string,
one line, after whole lines that do not begin as SSH-2. `DemoInv` adds where each
program is and what it has of the other's packet, `QuietDemo` that as long as nothing
outside fails no call has. Demo's steps are steps of the exchange or leave its
variables alone, which is why the lemmas of IdentProofs serve both.

`TargetHonoured` needs only that a client that refuses or connects has what
`ParseTarget` makes of its target (`AddressInv`); the rest is about `parse_target`.
`FairAccepted` and `AcceptedNamed` are its two directions, and `AtoiHonest` says that
`atoi` of digits only is, if an `int` holds it, the number whose digits, from the right,
are worth ten times more each. `DemoAssumption` says that a target is a sequence of
characters, that 22 is a port, that an `int` holds every port and a `long` every `int`.

A reset by the peer is in the model, so `EchoArrives` has to be earned: `QuietDemo` says
that as long as nothing outside fails the connection is not lost either, because an end
that closes has read all the peer will ever send - the server the client's one packet,
the client the answer, behind which the peer sends nothing.

**Streams.** `DigestOfWhole` speaks of the end only. `HasTaken` says of a context what it
is in between: its state is the blocks of the bytes handed over, its buffer begins with
the rest, which is shorter than a block, and its words of length say the bits of all of
them. `UpdateTakes` shows that an update of any size keeps it, with the code's three
steps - fill the buffer, take whole blocks, keep the rest - and `FinalIs` that the padding
in one block or two is the standard's; what the buffer holds behind the rest does not
matter. HMAC is two such contexts, a key derivation one for each round: between two
rounds the key is whole digests (`Rounds`). For the counter, `Position` says that offset
and counter are those of the next byte, also where the low word carries.
`StreamsAssumption` has every message short enough for its bits to fit the length words
(`Countable`), which for SHA-256 is less than 2^61 bytes; a counter may wrap.

The reference for base64 is RFC 4648 with padding (`RefDecode`): letters, at most two
pads, all in fours, and the bytes in the letters' bits. `InLoop` says of the decoder
between two characters that it holds the whole bytes of the letters seen, that its
accumulator's low bits are the rest, and that it has failed for a reason; `DecodeIsRef`
takes it to the end, `EncodeSays` shows that the bits of the text written are those
of the source. `Base64OfRfc4648` says besides that nothing accepted gives more than its
letters say.

**Curves.** `LadderArithmetic` is about the arithmetic under X25519, for every number and
size of limbs, word and prime that `FieldAssumption` allows. Its last conjuncts are the
room that the code relies on without saying so: 64 and 128 bits for the sums, products
and carries of five limbs of 51 bits satisfy them by a wide margin, and so do the twelve
bits of the run, by a narrow one. Two sizes of limbs go through the code: `Limited` ones, as a product leaves them
(below `Radix`, the lowest by less than `Fold` above it), and `Loose` ones, below four
times `Radix`, which an addition or a subtraction of limited ones gives (`AddIs`,
`SubIs`: the 2p that a subtraction adds are enough, fe25519.c:117) and which a product
takes (`MulIs`, `Mul121666Is`). Each such lemma says that no limb wraps and that the
result writes the same number modulo P (`Same`). A pass of carries moves what it takes
out of a limb to the next (`PassWrites`) and folds the top back in (`CarryPassIs`),
the second pass ends with at most one in the lowest limb (`SecondPass`), and the columns
of a product are the product because the rows are (`AllRows`). `LadderTight`, the
inductive invariant, says that between two bits all limbs are limited; `DoubledStands` and
`SummedStands` are then RFC 7748's formulas, `PowStands` says that the loop of
`fe25519_pow`, from the highest bit down, is the power from the lowest up, and
`ToBytesIs` that `fe25519_tobytes` writes the one number below P.

The points of Ed25519 keep to the same two sizes of limbs, with two exceptions that the
code makes without a comment and that the proofs have to carry: `ge_add` doubles
Z1 Z2 without a carry, and `ed25519_verify` negates X and T without one. `Hands` is the
set of points that arise: coordinates `Limited`, X and T also as a negation leaves them.
`AdditionIsRfc8032` shows that a sum of two of them is one again and that its
coordinates are the four products of RFC 8032, 5.1.4, modulo P; `ScalarmultLadder`
follows, since `ge_scalarmult` does nothing but add. `EncodingIsRfc8032` takes them out:
y and the parity of x are those of the fully reduced quotients. `DecodingIsRfc8032`
takes them in: whatever the string, a point that `ge_frombytes` returns is in `Hands`;
that the square of its X is the quotient asked for needs the literal `sqrtm1` to be a
root of -1 (`RootOfMinusOne`), which the proof system cannot compute for 255 bits and
which MCCurves assumes of the instance, so TLC evaluates it. Quotients are powers to
P - 2 here; that these are inverses is Fermat's theorem and is left as a hypothesis in
the place where it is needed. `sc_reduce_wide` shifts in 512 bits from the top and
subtracts the order at most once for each, `ScReduceIsRemainder`; `ScMuladdIsModular`
is the product of verify and sign. The comment at ed25519.c:80 has both factors below
2^253, which a clamped scalar with its bit 254 is not; the theorem asks only for 32
bytes, and the product still fits the 64 it is written to.

Sums and recursive functions are proved about by a least counterexample (`Smallest`,
from the well-foundedness of the naturals), since the induction theorems of the
library take an operator.

Only model-checked: the liveness properties (`EventuallyDelivered`, `RecvReturns`,
`Finishes`, `ProgramsEnd`), which are beyond the proof system; and of Curves
`LadderKeepsMultiples`, `AgreedSecret`, `SignaturesVerify` and `VerdictIsRfc8032`, which
rest on the group laws and on the inverse by Fermat's theorem, facts about primes that
are out of the prover's reach. The three violations are runs only.

## Not modelled

Two stretches of modelled code are taken by their result. `sc_ge`, `sc_sub` and
`sc_muladd` of `ed25519.c` work on words and bytes with borrows and carries, the model on
integers, with the shifts, comparisons and subtractions of the code. After a string that
`kex_init_decode` could not allocate, the real code reads on inside that string, and what
it finds depends on its bytes; in Kex the later fields are NULL or one place late, and a
call has one such failure.

The AES and SHA-2 rounds (out of TLC's reach, and nothing in them depends on a
state; MACs are ideal and keystreams are named by key and position); the two
sources of `rand_bytes`, `net_init`, non-blocking mode and error texts (system
calls, no state; only whether a call succeeds is modelled); `ssh_pkt_t`'s lifecycle
and the sequence counters of the packet layer; `session_free`, which frees two
pointers that nothing sets; constant-time evaluation, which is no property of
behaviours.

## What could come next

* The packet layer's counters and lifecycle; a session of two directions composed of
  two instances of Session, with Kex between.
* In Kex, the bytes of a string that is read out of step, in place of lists one place
  late, and more than one failed allocation in a call.
* In Ed25519, the words and bytes of the scalar arithmetic, with their borrows and carries.
* The group laws of the two curves, from which `AgreedSecret` and `SignaturesVerify`
  would follow.
