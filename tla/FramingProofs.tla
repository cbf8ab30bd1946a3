---------------------------- MODULE FramingProofs ----------------------------
(***************************************************************************)
(* Theorems about module Framing: for every payload length, block size,    *)
(* buffer and limit, not only those around the boundaries that TLC tries.  *)
(***************************************************************************)
EXTENDS Framing, TLAPS

(* Arithmetic.                                                              *)

LEMMA Multiple ==
  ASSUME NEW b \in Nat \ {0}, NEW k \in Int, NEW a \in Int, a = b * k
  PROVE  a % b = 0
OBVIOUS

LEMMA Divide ==
  ASSUME NEW a \in Nat, NEW b \in Nat \ {0}
  PROVE  /\ a = b * (a \div b) + (a % b)
         /\ a \div b \in Nat /\ a % b \in 0 .. b - 1
OBVIOUS

LEMMA SmallRemainder ==
  ASSUME NEW b \in Nat, NEW a \in 0 .. b - 1
  PROVE  a % b = a
OBVIOUS

\* The padding fills the last block, is long enough, and there is no shorter one,
\* if no size_t wraps.
LEMMA PadFills ==
  ASSUME NEW len \in Nat, NEW block \in Nat, block >= 4,
         5 + len < SizeMod, 2 * block < SizeMod
  PROVE  /\ Pad(len, block) \in MIN_PADDING_SIZE .. block + 3
         /\ (5 + len + Pad(len, block)) % block = 0
         /\ \A p \in MIN_PADDING_SIZE .. 255 :
              (5 + len + p) % block = 0 => Pad(len, block) <= p
<1>. DEFINE n == 5 + len
            q == n \div block
            r == n % block
            pad == Pad(len, block)
<1>3. n \in Nat /\ n < SizeMod /\ SizeMod \in Nat
  BY FramingAssumption
<1>0. block \in Nat \ {0}
  OBVIOUS
<1>1. n = block * q + r /\ q \in Nat /\ r \in 0 .. block - 1
  <2>. HIDE DEF n
  <2>. QED
    BY <1>0, <1>3, Divide DEF q, r
<1>2. pad = IF block - r < 4 THEN (block - r) + block ELSE block - r
  <2>1. n % SizeMod = n
    <3>. HIDE DEF n
    <3>. QED
      BY <1>3, SmallRemainder
  <2>2. pad = IF block - r < 4 THEN ((block - r) + block) % SizeMod ELSE block - r
    BY <2>1 DEF Pad, MIN_PADDING_SIZE
  <2>3. (block - r) + block \in 0 .. SizeMod - 1
    <3>. HIDE DEF r
    <3>. QED
      BY <1>1, <1>3
  <2>4. ((block - r) + block) % SizeMod = (block - r) + block
    <3>. HIDE DEF r
    <3>. QED
      BY <1>3, <2>3, SmallRemainder, Zenon
  <2>. QED
    BY <2>2, <2>4
<1>. HIDE DEF n, q, r, pad
<1>4. pad \in 4 .. block + 3
  BY <1>1, <1>2
<1>5. (n + pad) % block = 0
  <2>1. CASE pad = block - r
    <3>1. n + pad = block * (q + 1) /\ n + pad \in Int /\ q + 1 \in Int
      BY <1>1, <1>3, <1>4, <2>1
    <3>. QED
      BY <1>0, <3>1, Multiple
  <2>2. CASE pad = (block - r) + block
    <3>1. n + pad = block * (q + 2) /\ n + pad \in Int /\ q + 2 \in Int
      BY <1>1, <1>3, <1>4, <2>2
    <3>. QED
      BY <1>0, <3>1, Multiple
  <2>. QED
    BY <1>2, <2>1, <2>2
<1>6. ASSUME NEW p \in MIN_PADDING_SIZE .. 255, (n + p) % block = 0
      PROVE  pad <= p
  <2>1. p \in Nat /\ p >= 4 /\ n + p \in Nat
    BY <1>3 DEF MIN_PADDING_SIZE
  <2>. DEFINE k == (n + p) \div block
  <2>2. n + p = block * k /\ k \in Nat
    <3>1. ASSUME NEW a \in Nat, a % block = 0
          PROVE  a = block * (a \div block) /\ a \div block \in Nat
      <4>1. a = block * (a \div block) + (a % block) /\ a \div block \in Nat
        BY <1>0, Divide
      <4>2. block * (a \div block) \in Nat
        BY <4>1
      <4>. QED
        BY <3>1, <4>1, <4>2
    <3>. QED
      BY <1>6, <2>1, <3>1
  <2>. HIDE DEF k
  <2>3. block * k = block * q + (r + p) /\ block * (k - q) = r + p
    BY <1>1, <1>3, <2>1, <2>2
  <2>4. k > q
    <3>1. SUFFICES ASSUME k <= q PROVE FALSE
      BY <1>1, <2>2
    <3>2. block * (k - q) <= 0
      <4>1. \A a \in Nat, d \in Nat : a * (-d) <= 0
        OBVIOUS
      <4>2. q - k \in Nat /\ k - q = -(q - k)
        BY <1>1, <2>2, <3>1
      <4>. QED
        BY <4>1, <4>2
    <3>. QED
      BY <1>1, <2>1, <2>3, <3>2
  <2>5. CASE k = q + 1
    <3>1. p = block - r
      BY <1>1, <2>1, <2>3, <2>5
    <3>. QED
      BY <1>1, <1>2, <2>1, <3>1
  <2>6. CASE k >= q + 2
    <3>1. block * (k - q) >= 2 * block
      <4>1. \A a \in Nat, d \in Nat : a * (d + 2) >= 2 * a
        OBVIOUS
      <4>2. k - q - 2 \in Nat /\ k - q = (k - q - 2) + 2
        BY <1>1, <2>2, <2>6
      <4>. QED
        BY <4>1, <4>2
    <3>2. p >= 2 * block - r
      BY <1>1, <2>1, <2>3, <3>1
    <3>. QED
      BY <1>1, <1>2, <2>1, <3>2
  <2>. QED
    BY <1>1, <2>2, <2>4, <2>5, <2>6
<1>. QED
  BY <1>4, <1>5, <1>6 DEF n, pad, MIN_PADDING_SIZE

\* With the padding in its byte and the length in its word, the casts of the two
\* senders lose nothing.
LEMMA LaidWhole ==
  ASSUME NEW len \in Nat, NEW block \in Nat, Pad(len, block) \in 0 .. 255,
         1 + len + Pad(len, block) < FieldMod
  PROVE  /\ Laid(len, block).plen = 1 + len + Pad(len, block)
         /\ Laid(len, block).pad = Pad(len, block)
<1>. DEFINE pad == Pad(len, block)
<1>. HIDE DEF pad
<1>1. 1 + len + pad \in 0 .. FieldMod - 1 /\ FieldMod \in Nat
  BY FramingAssumption DEF pad
<1>2. (1 + len + pad) % FieldMod = 1 + len + pad
  BY <1>1, SmallRemainder, Zenon
<1>3. pad % 256 = pad
  BY DEF pad
<1>4. /\ Laid(len, block).plen = (1 + len + pad) % FieldMod
      /\ Laid(len, block).pad = pad % 256
  BY DEF Laid, pad
<1>. QED
  BY <1>2, <1>3, <1>4, Zenon DEF pad

\* What a frame of RFC 4253 has to be.
Framed(f, len, block) ==
  /\ (4 + f.plen) % block = 0
  /\ f.pad \in MIN_PADDING_SIZE .. 255
  /\ f.plen = 1 + len + f.pad

LEMMA LaidIsFramed ==
  ASSUME NEW len \in Nat, NEW block \in Nat, Pad(len, block) \in MIN_PADDING_SIZE .. 255,
         (5 + len + Pad(len, block)) % block = 0, 1 + len + Pad(len, block) < FieldMod
  PROVE  Framed(Laid(len, block), len, block)
<1>1. Pad(len, block) \in 0 .. 255
  BY DEF MIN_PADDING_SIZE
<1>2. /\ Laid(len, block).plen = 1 + len + Pad(len, block)
      /\ Laid(len, block).pad = Pad(len, block)
  BY <1>1, LaidWhole
<1>3. 4 + (1 + len + Pad(len, block)) = 5 + len + Pad(len, block)
  BY <1>1
<1>. QED
  BY <1>2, <1>3, Zenon DEF Framed

\* session_send: payloads up to its limit, blocks of its own.
LEMMA SessionFrames ==
  ASSUME NEW len \in Nat, len <= MAX_PAYLOAD_SIZE, NEW block \in {8, 16}
  PROVE  Framed(Laid(len, block), len, block)
<1>1. 5 + len < SizeMod /\ 2 * block < SizeMod /\ block \in Nat /\ block >= 4
  BY FramingAssumption
<1>2. /\ Pad(len, block) \in MIN_PADDING_SIZE .. block + 3
      /\ (5 + len + Pad(len, block)) % block = 0
  BY <1>1, PadFills
<1>3. Pad(len, block) \in MIN_PADDING_SIZE .. 255
  BY <1>2 DEF MIN_PADDING_SIZE
<1>4. 1 + len + Pad(len, block) < FieldMod
  <2>. DEFINE pad == Pad(len, block)
  <2>1. pad \in MIN_PADDING_SIZE .. 255
    BY <1>3
  <2>. HIDE DEF pad
  <2>2. 1 + len + pad < FieldMod
    BY <2>1, FramingAssumption DEF MIN_PADDING_SIZE
  <2>. QED
    BY <2>2 DEF pad
<1>. QED
  BY <1>1, <1>2, <1>3, <1>4, LaidIsFramed

\* pkt_send: any payload and block that have a frame.
LEMMA PktFrames ==
  ASSUME NEW len \in Nat, NEW block \in Nat, block >= 8,
         \E p \in MIN_PADDING_SIZE .. 255 :
           (5 + len + p) % block = 0 /\ 1 + len + p < FieldMod
  PROVE  Framed(Laid(len, block), len, block)
<1>. DEFINE pad == Pad(len, block)
<1>1. PICK p \in MIN_PADDING_SIZE .. 255 :
             (5 + len + p) % block = 0 /\ 1 + len + p < FieldMod
  OBVIOUS
<1>2. /\ p \in Nat /\ p >= 4 /\ p <= 255 /\ 5 + len + p \in Nat
      /\ FieldMod \in Nat /\ SizeMod \in Nat /\ 2 * FieldMod + 256 < SizeMod
  BY FramingAssumption DEF MIN_PADDING_SIZE
<1>3. block <= 5 + len + p
  <2>1. SUFFICES ASSUME 5 + len + p < block PROVE FALSE
    BY <1>2
  <2>2. 5 + len + p \in 0 .. block - 1
    BY <1>2, <2>1
  <2>3. (5 + len + p) % block = 5 + len + p
    BY <2>2, SmallRemainder
  <2>. QED
    BY <1>1, <1>2, <2>3
<1>4. 5 + len < SizeMod /\ 2 * block < SizeMod /\ block >= 4
  BY <1>1, <1>2, <1>3
<1>5. /\ pad \in MIN_PADDING_SIZE .. block + 3
      /\ (5 + len + pad) % block = 0 /\ pad <= p
  BY <1>1, <1>4, PadFills
<1>. HIDE DEF pad
<1>6. pad \in MIN_PADDING_SIZE .. 255 /\ 1 + len + pad < FieldMod
  BY <1>1, <1>2, <1>5 DEF MIN_PADDING_SIZE
<1>. QED
  BY <1>5, <1>6, LaidIsFramed DEF pad

-----------------------------------------------------------------------------
(* Type correctness.                                                        *)

\* Who calls whom, with which block size.
CallInv ==
  /\ call \in Calls
  /\ call.from = "session" =>
       call.block = IF call.encrypted THEN SSH_CIPHER_BLOCK ELSE SSH_PLAIN_BLOCK
  /\ call.encrypted => call.to = "session" /\ call.from # "pkt"

TypeInv == TypeOK /\ CallInv

LEMMA SizePositive == SizeMod \in Nat \ {0}
BY FramingAssumption

LEMMA Wrapped == \A a \in Int : a % SizeMod \in 0 .. SizeMod - 1
BY SizePositive

LEMMA BlockRange ==
  CallInv /\ call.from # "peer" =>
    /\ Block \in Nat /\ Block >= 8 /\ call.len \in Nat
    /\ call.from = "session" => Block \in {8, 16} /\ Block = call.block
BY DEF CallInv, Calls, Block, SSH_CIPHER_BLOCK, SSH_PLAIN_BLOCK

LEMMA LaidFrame ==
  ASSUME NEW len \in Nat, NEW block \in Nat \ {0}
  PROVE  Laid(len, block) \in Frame
<1>1. Pad(len, block) \in Int
  <2>1. (5 + len) % SizeMod \in Nat
    BY Wrapped
  <2>2. \A a \in Nat : a % block \in Int
    OBVIOUS
  <2>. DEFINE r == ((5 + len) % SizeMod) % block
  <2>3. r \in Int
    BY <2>1, <2>2
  <2>. HIDE DEF r
  <2>4. block - r \in Int /\ (block - r) + block \in Int
    BY <2>3
  <2>5. ((block - r) + block) % SizeMod \in Int
    BY <2>4, Wrapped
  <2>. QED
    BY <2>4, <2>5 DEF Pad, r
<1>. DEFINE pad == Pad(len, block)
<1>. HIDE DEF pad
<1>2. pad \in Int
  BY <1>1 DEF pad
<1>3. (1 + len + pad) % FieldMod \in Nat
  <2>1. 1 + len + pad \in Int /\ FieldMod \in Nat \ {0}
    BY <1>2, FramingAssumption
  <2>2. \A x \in Int : x % FieldMod \in Nat
    BY <2>1
  <2>. QED
    BY <2>1, <2>2
<1>4. pad % 256 \in 0 .. 255
  BY <1>2
<1>. QED
  BY <1>3, <1>4 DEF Laid, Frame, pad

LEMMA TypeInit == Init => TypeInv
<1>. SUFFICES ASSUME Init PROVE TypeInv
  OBVIOUS
<1>. USE FramingAssumption
<1>0. ASSUME NEW from \in {"session", "pkt", "peer"}, NEW len \in Nat,
             NEW encrypted \in BOOLEAN, NEW block \in Nat,
             call \in Call(from, len, encrypted, block)
      PROVE  /\ call \in Calls /\ call.from = from /\ call.block = block
             /\ call.encrypted = encrypted /\ (encrypted => call.to = "session")
  BY <1>0 DEF Call, Calls
<1>a. ASSUME \E len \in Lens : call \in Call("session", len, FALSE, SSH_PLAIN_BLOCK)
      PROVE  CallInv
  BY <1>0, <1>a DEF CallInv, SSH_PLAIN_BLOCK
<1>b. ASSUME \E len \in Lens : call \in Call("session", len, TRUE, SSH_CIPHER_BLOCK)
      PROVE  CallInv
  BY <1>0, <1>b DEF CallInv, SSH_CIPHER_BLOCK
<1>c. ASSUME \E len \in Lens, block_size \in BlockSizes :
             call \in Call("pkt", len, FALSE, block_size)
      PROVE  CallInv
  <2>1. PICK len \in Lens, block_size \in BlockSizes :
               call \in Call("pkt", len, FALSE, block_size)
    BY <1>c
  <2>2. len \in Nat /\ block_size \in Nat
    OBVIOUS
  <2>3. /\ call \in Calls /\ call.from = "pkt" /\ call.block = block_size
        /\ call.encrypted = FALSE
    BY <1>0, <2>1, <2>2
  <2>. QED
    BY <2>2, <2>3 DEF CallInv
<1>d. ASSUME \E encrypted \in BOOLEAN :
             call \in Call("peer", 0, encrypted, SSH_PLAIN_BLOCK)
      PROVE  CallInv
  BY <1>0, <1>d DEF CallInv, SSH_PLAIN_BLOCK
<1>1. CallInv
  BY <1>a, <1>b, <1>c, <1>d DEF Init
<1>2. frame \in Frame
  <2>1. frame = [plen |-> 0, pad |-> 0] \/ frame \in PeerFrames
    BY DEF Init
  <2>. QED
    BY <2>1 DEF Frame
<1>3. buf \in [len : Nat, cap : Nat]
  BY DEF Init
<1>4. 0 \in 0 .. SizeMod - 1
  OBVIOUS
<1>. QED
  BY <1>1, <1>2, <1>3, <1>4 DEF TypeInv, TypeOK, CallInv, Init

LEMMA TypeNext == TypeInv /\ [Next]_vars => TypeInv'
<1>. SUFFICES ASSUME TypeInv, [Next]_vars PROVE TypeInv'
  OBVIOUS
<1>. USE FramingAssumption
<1>0. /\ pc \in {"idle", "refused", "crashed", "sent", "copy", "grow", "done"}
      /\ call \in Calls /\ frame \in Frame /\ frame.plen \in Nat /\ frame.pad \in 0 .. 255
      /\ payLen \in 0 .. SizeMod - 1
      /\ buf \in [len : Nat, cap : Nat] /\ newCap \in Nat
      /\ rc \in {0, -1} /\ oom \in BOOLEAN /\ CallInv
  BY DEF TypeInv, TypeOK, Frame
<1>c. CallInv' /\ call' \in Calls
  BY <1>0 DEF CallInv, Next, Send, Recv, SessionSend, PktSend, PeerSend,
              SessionRecv, PktRecv, PutRaw, Double, Realloc, vars
<1>1. CASE SessionSend
  <2>1. frame' \in Frame
    <3>1. Block \in Nat \ {0} /\ call.block = Block /\ call.len \in Nat
      BY <1>0, <1>1, BlockRange DEF SessionSend
    <3>2. Laid(call.len, call.block) \in Frame
      BY <3>1, LaidFrame
    <3>. QED
      BY <1>0, <1>1, <3>2, Zenon DEF SessionSend
  <2>2. pc' \in {"sent", "refused"} /\ UNCHANGED <<payLen, buf, newCap, rc, oom>>
    BY <1>1 DEF SessionSend
  <2>. QED
    BY <1>0, <1>c, <2>1, <2>2 DEF TypeInv, TypeOK
<1>2. CASE PktSend
  <2>1. frame' \in Frame
    <3>1. Block \in Nat \ {0} /\ call.len \in Nat
      BY <1>0, <1>2, BlockRange DEF PktSend
    <3>2. Laid(call.len, Block) \in Frame
      BY <3>1, LaidFrame
    <3>. QED
      BY <1>0, <1>2, <3>2, Zenon DEF PktSend
  <2>2. pc' \in {"sent", "refused", "crashed"} /\ UNCHANGED <<payLen, buf, newCap, rc, oom>>
    BY <1>2 DEF PktSend
  <2>. QED
    BY <1>0, <1>c, <2>1, <2>2 DEF TypeInv, TypeOK
<1>3. CASE PeerSend
  BY <1>0, <1>3, <1>c DEF PeerSend, TypeInv, TypeOK
<1>4. CASE SessionRecv
  <2>1. SessionPayloadLen(frame) \in 0 .. SizeMod - 1
    <3>0. frame.plen \in Int /\ frame.pad \in Int
      BY <1>0
    <3>1. 4 + frame.plen - 4 - 1 - frame.pad \in Int
      BY <3>0
    <3>. QED
      BY <3>1, Wrapped, Zenon DEF SessionPayloadLen
  <2>2. [buf EXCEPT !.len = 0] \in [len : Nat, cap : Nat]
    BY <1>0
  <2>. QED
    BY <1>0, <1>4, <1>c, <2>1, <2>2 DEF SessionRecv, Finish, TypeInv, TypeOK
<1>5. CASE PktRecv
  <2>1. (frame.plen - 1 - frame.pad) % SizeMod \in 0 .. SizeMod - 1
    <3>1. frame.plen \in Int /\ frame.pad \in Int
      BY <1>0
    <3>2. \A a, b \in Int : a - 1 - b \in Int
      OBVIOUS
    <3>3. frame.plen - 1 - frame.pad \in Int
      BY <3>1, <3>2, Zenon
    <3>. QED
      BY <3>3, Wrapped, Zenon
  <2>2. [buf EXCEPT !.len = 0] \in [len : Nat, cap : Nat]
    BY <1>0
  <2>. QED
    BY <1>0, <1>5, <1>c, <2>1, <2>2 DEF PktRecv, Finish, TypeInv, TypeOK
<1>6. CASE PutRaw
  <2>1. \A c \in Nat : [len |-> buf.len + payLen, cap |-> c] \in [len : Nat, cap : Nat]
    BY <1>0
  <2>2. (buf.cap * 2) % SizeMod \in Nat
    BY <1>0, Wrapped
  <2>. QED
    BY <1>0, <1>6, <1>c, <2>1, <2>2 DEF PutRaw, Copy, Finish, BUF_MIN_CAP, TypeInv, TypeOK
<1>7. CASE Double
  <2>1. (newCap * 2) % SizeMod \in Nat
    BY <1>0, Wrapped
  <2>. QED
    BY <1>0, <1>7, <1>c, <2>1 DEF Double, TypeInv, TypeOK
<1>8. CASE Realloc
  <2>1. \A c \in Nat : [len |-> buf.len + payLen, cap |-> c] \in [len : Nat, cap : Nat]
    BY <1>0
  <2>. QED
    BY <1>0, <1>8, <1>c, <2>1 DEF Realloc, Copy, Finish, TypeInv, TypeOK
<1>9. CASE UNCHANGED vars
  BY <1>0, <1>9, <1>c DEF vars, TypeInv, TypeOK
<1>. QED
  BY <1>1, <1>2, <1>3, <1>4, <1>5, <1>6, <1>7, <1>8, <1>9 DEF Next, Send, Recv

\* Every variable keeps its type, for every payload length and block size: no
\* wrapped sum or difference leaves size_t, the length field or the byte.
THEOREM TypeCorrect == Spec => []TypeOK
<1>1. Spec => []TypeInv
  BY TypeInit, TypeNext, PTL DEF Spec
<1>. QED
  BY <1>1, PTL DEF TypeInv

-----------------------------------------------------------------------------
(* What the senders put on the wire.                                        *)

Sent == pc \notin {"idle", "refused", "crashed"}

\* A frame of one of the two senders that RFC 4253 has, for as long as there is one
FramedInv ==
  Sent /\ call.from # "peer" /\ (call.from = "pkt" => HasFrame) =>
    /\ Framed(frame, call.len, Block)
    /\ call.from = "session" => call.len > 0 /\ 4 + frame.plen <= MAX_PACKET_SIZE

LEMMA FramedNext ==
  ASSUME TypeInv, FramedInv, [Next]_vars
  PROVE  FramedInv'
<1>0. CallInv /\ call \in Calls
  BY DEF TypeInv, CallInv
<1>1. CASE SessionSend
  <2>1. CASE SessionSendable /\ frame' = Laid(call.len, call.block)
    <3>1. /\ Block \in {8, 16} /\ call.block = Block /\ call.len \in Nat
          /\ call.from = "session" /\ call' = call
      BY <1>0, <1>1, BlockRange DEF SessionSend
    <3>2. call.len <= MAX_PAYLOAD_SIZE /\ call.len > 0 /\ 4 + frame'.plen <= MAX_PACKET_SIZE
      BY <2>1, <3>1 DEF SessionSendable
    <3>3. Framed(frame', call.len, Block)
      BY <2>1, <3>1, <3>2, SessionFrames
    <3>4. Block' = Block
      BY <3>1 DEF Block
    <3>. QED
      BY <3>1, <3>2, <3>3, <3>4, Zenon DEF FramedInv
  <2>2. CASE pc' = "refused"
    BY <2>2 DEF FramedInv, Sent
  <2>. QED
    BY <1>1, <2>1, <2>2 DEF SessionSend
<1>2. CASE PktSend
  <2>1. CASE frame' = Laid(call.len, Block) /\ HasFrame
    <3>1. /\ Block \in Nat /\ Block >= 8 /\ call.len \in Nat /\ call.from = "pkt" /\ call' = call
      BY <1>0, <1>2, BlockRange DEF PktSend
    <3>2. Framed(frame', call.len, Block)
      BY <2>1, <3>1, PktFrames DEF HasFrame
    <3>3. Block' = Block
      BY <3>1 DEF Block
    <3>. QED
      BY <3>1, <3>2, <3>3, Zenon DEF FramedInv
  <2>2. CASE pc' \in {"refused", "crashed"}
    BY <2>2 DEF FramedInv, Sent
  <2>3. CASE ~HasFrame
    <3>1. call.from = "pkt" /\ call' = call
      BY <1>2 DEF PktSend
    <3>2. ~HasFrame'
      BY <2>3, <3>1 DEF HasFrame, Block
    <3>. QED
      BY <3>1, <3>2 DEF FramedInv
  <2>. QED
    BY <1>2, <2>1, <2>2, <2>3 DEF PktSend
<1>3. CASE PeerSend
  BY <1>3 DEF PeerSend, FramedInv
<1>4. CASE Recv \/ UNCHANGED vars
  <2>1. call' = call /\ frame' = frame /\ (Sent' => Sent)
    BY <1>4 DEF Recv, SessionRecv, PktRecv, PutRaw, Double, Realloc, vars, Sent
  <2>2. Block' = Block /\ (HasFrame' <=> HasFrame)
    BY <2>1 DEF HasFrame, Block
  <2>. QED
    BY <2>1, <2>2, Zenon DEF FramedInv
<1>. QED
  BY <1>1, <1>2, <1>3, <1>4 DEF Next, Send

\* Whenever RFC 4253 has a frame for a payload and a block size, both senders write
\* one: pkt_send too, which checks no limit, for every length and block size.
THEOREM LegalFrames == Spec => []FrameLegal
<1>1. Init => FramedInv
  BY DEF Init, FramedInv, Sent
<1>2. Spec => [](TypeInv /\ FramedInv)
  BY <1>1, TypeInit, TypeNext, FramedNext, PTL DEF Spec
<1>3. TypeInv /\ FramedInv => FrameLegal
  <2>. SUFFICES ASSUME TypeInv, FramedInv, pc = "sent", call.from # "peer",
                       call.from = "pkt" => HasFrame
                PROVE  /\ (4 + frame.plen) % Block = 0
                       /\ frame.pad >= MIN_PADDING_SIZE
                       /\ frame.plen = 1 + call.len + frame.pad
    BY Zenon DEF FrameLegal
  <2>1. Framed(frame, call.len, Block)
    BY Zenon DEF FramedInv, Sent
  <2>2. frame.pad \in MIN_PADDING_SIZE .. 255
    BY <2>1 DEF Framed
  <2>3. frame.pad >= MIN_PADDING_SIZE
    BY <2>2 DEF MIN_PADDING_SIZE
  <2>. QED
    BY <2>1, <2>3, Zenon DEF Framed
<1>. QED
  BY <1>2, <1>3, PTL

-----------------------------------------------------------------------------
(* What the receivers make of a frame.                                      *)

\* The payload ends where the padding begins.
Inside == 1 + payLen + frame.pad = frame.plen

\* Before a receiver returns: what it has accepted, and a buffer still empty;
\* after: the buffer holds the payload.  No frame that had to be taken is lost.
TakenInv ==
  /\ pc \in {"idle", "refused", "crashed", "sent", "copy", "grow"} => rc = 0 /\ oom = FALSE
  /\ pc \in {"copy", "grow"} =>
       /\ payLen > 0 /\ buf.len = 0
       /\ frame.plen <= MAX_PACKET_SIZE /\ (~Beyond(frame) => Inside)
  /\ pc = "done" /\ rc = 0 =>
       /\ oom = FALSE
       /\ buf.len = payLen /\ (payLen > 0 => buf.len <= buf.cap)
       /\ frame.plen <= MAX_PACKET_SIZE /\ (~Beyond(frame) => Inside)
  /\ pc = "done" /\ rc # 0 => oom \/ ~Due

\* What has to be taken depends on the call and the frame alone.
LEMMA DueStays ==
  ASSUME UNCHANGED <<call, frame>>
  PROVE  Due' <=> Due
BY DEF Due, HasFrame, Block

\* The subtraction of size_t that gives payload_len is one of integers.
LEMMA PayloadLength ==
  ASSUME NEW f \in Frame, f.plen <= MAX_PACKET_SIZE, f.pad + 1 <= f.plen
  PROVE  /\ SessionPayloadLen(f) = f.plen - 1 - f.pad
         /\ (f.plen - 1 - f.pad) % SizeMod = f.plen - 1 - f.pad
<1>1. f.plen \in Nat /\ f.pad \in Nat
  BY DEF Frame
<1>2. f.plen - 1 - f.pad \in 0 .. SizeMod - 1 /\ SizeMod \in Nat
  BY <1>1, FramingAssumption
<1>3. (f.plen - 1 - f.pad) % SizeMod = f.plen - 1 - f.pad
  BY <1>2, SmallRemainder, Zenon
<1>4. 4 + f.plen - 4 - 1 - f.pad = f.plen - 1 - f.pad
  BY <1>1
<1>. QED
  BY <1>3, <1>4 DEF SessionPayloadLen

\* A frame that has to be taken passes every check of either receiver.
LEMMA DuePasses ==
  ASSUME TypeInv, FramedInv, pc = "sent", Due
  PROVE  /\ frame.plen <= MAX_PACKET_SIZE /\ ~Beyond(frame)
         /\ frame.plen - 1 - frame.pad = call.len
         /\ call.to = "pkt" => PktFrameOk(frame)
         /\ call.to = "session" => SessionLengthOk(frame) /\ SessionPaddingOk(frame) /\ call.len >= 1
<1>1. call.from # "peer" /\ (call.from = "pkt" => HasFrame)
  BY DEF Due
<1>2. /\ call.len \in Nat /\ Block \in Nat /\ frame.plen \in Nat /\ frame.pad \in Nat
  BY <1>1, BlockRange DEF TypeInv, TypeOK, Frame
<1>3. /\ (4 + frame.plen) % Block = 0
      /\ frame.pad >= 4
      /\ frame.plen = 1 + call.len + frame.pad
      /\ call.from = "session" => call.len > 0 /\ 4 + frame.plen <= MAX_PACKET_SIZE
  <2>1. /\ Framed(frame, call.len, Block)
        /\ call.from = "session" => call.len > 0 /\ 4 + frame.plen <= MAX_PACKET_SIZE
    BY <1>1, Zenon DEF FramedInv, Sent
  <2>2. frame.pad \in MIN_PADDING_SIZE .. 255
    BY <2>1 DEF Framed
  <2>3. frame.pad >= 4
    BY <2>2 DEF MIN_PADDING_SIZE
  <2>. QED
    BY <2>1, <2>3, Zenon DEF Framed
<1>4. frame.plen <= MAX_PACKET_SIZE
  BY <1>2, <1>3, FramingAssumption DEF Due
<1>5. call.to = "session" => call.len >= 1
  BY <1>2, <1>3 DEF Due
<1>6. call.encrypted => (4 + frame.plen) % SSH_CIPHER_BLOCK = 0 /\ frame.plen >= 12
  <2>1. SUFFICES ASSUME call.encrypted
                 PROVE  (4 + frame.plen) % 16 = 0 /\ frame.plen >= 12
    BY DEF SSH_CIPHER_BLOCK
  <2>2. Block = 16
    BY <1>1, <2>1 DEF TypeInv, CallInv, Calls, Block, SSH_CIPHER_BLOCK
  <2>3. (4 + frame.plen) % 16 = 0
    BY <1>3, <2>2
  <2>4. 4 + frame.plen >= 9 /\ 4 + frame.plen \in Nat
    BY <1>2, <1>3
  <2>. QED
    BY <1>2, <2>3, <2>4
<1>7. /\ frame.plen >= 5 /\ (call.to = "session" => frame.plen >= 6)
      /\ frame.pad + 1 <= frame.plen /\ frame.pad < frame.plen /\ frame.pad + 1 < 4 + frame.plen
      /\ frame.plen - 1 - frame.pad = call.len
  BY <1>2, <1>3, <1>5
<1>8. ~Beyond(frame)
  BY <1>2, <1>7 DEF Beyond
<1>9. SessionPaddingOk(frame)
  BY <1>3, <1>7 DEF SessionPaddingOk, MIN_PADDING_SIZE
<1>10. call.to = "session" => SessionLengthOk(frame)
  BY <1>4, <1>6, <1>7 DEF SessionLengthOk
<1>11. PktFrameOk(frame)
  BY <1>3, <1>4, <1>7 DEF PktFrameOk, MIN_PADDING_SIZE
<1>. QED
  BY <1>4, <1>5, <1>7, <1>8, <1>9, <1>10, <1>11

LEMMA TakenSessionRecv ==
  ASSUME TypeInv, FramedInv, TakenInv, SessionRecv
  PROVE  TakenInv'
<1>0. /\ frame \in Frame /\ frame.plen \in Nat /\ frame.pad \in Nat /\ buf \in [len : Nat, cap : Nat]
      /\ pc = "sent" /\ call.to = "session" /\ frame' = frame /\ call' = call
      /\ rc = 0 /\ oom = FALSE /\ oom' = FALSE
  BY DEF TypeInv, TypeOK, Frame, TakenInv, SessionRecv
<1>1. CASE SessionLengthOk(frame) /\ SessionPaddingOk(frame) /\ SessionPayloadLen(frame) >= 1
  <2>1. /\ payLen' = SessionPayloadLen(frame) /\ buf' = [buf EXCEPT !.len = 0]
        /\ pc' = "copy" /\ rc' = rc
    BY <1>1, Zenon DEF SessionRecv
  <2>2. frame.plen <= MAX_PACKET_SIZE /\ frame.pad + 1 < 4 + frame.plen
    BY <1>1 DEF SessionLengthOk, SessionPaddingOk
  <2>3. ASSUME ~Beyond(frame) PROVE 1 + SessionPayloadLen(frame) + frame.pad = frame.plen
    <3>1. frame.pad + 1 <= frame.plen
      BY <1>0, <2>2, <2>3 DEF Beyond
    <3>2. SessionPayloadLen(frame) = frame.plen - 1 - frame.pad
      BY <1>0, <2>2, <3>1, PayloadLength
    <3>. QED
      BY <1>0, <3>2
  <2>4. SessionPayloadLen(frame) > 0
    <3>1. SessionPayloadLen(frame) \in Int
      <4>1. 4 + frame.plen - 4 - 1 - frame.pad \in Int
        BY <1>0
      <4>2. \A a \in Int : a % SizeMod \in Int
        BY SizePositive
      <4>. QED
        BY <4>1, <4>2, Zenon DEF SessionPayloadLen
    <3>. QED
      BY <1>1, <3>1
  <2>. QED
    BY <1>0, <2>1, <2>2, <2>3, <2>4 DEF TakenInv, Inside
<1>2. CASE ~(SessionLengthOk(frame) /\ SessionPaddingOk(frame) /\ SessionPayloadLen(frame) >= 1)
  <2>1. pc' = "done" /\ rc' = -1
    BY <1>2, Zenon DEF SessionRecv, Finish
  <2>2. ~Due
    <3>1. SUFFICES ASSUME Due PROVE FALSE
      OBVIOUS
    <3>2. /\ SessionLengthOk(frame) /\ SessionPaddingOk(frame) /\ call.len >= 1
          /\ frame.plen - 1 - frame.pad = call.len /\ frame.plen <= MAX_PACKET_SIZE
      BY <1>0, <3>1, DuePasses
    <3>3. call.len \in Nat
      BY DEF TypeInv, TypeOK, Calls
    <3>4. SessionPayloadLen(frame) = call.len
      BY <1>0, <3>2, <3>3, PayloadLength
    <3>. QED
      BY <1>2, <3>2, <3>4
  <2>3. ~Due'
    BY <1>0, <2>2, DueStays
  <2>. QED
    BY <2>1, <2>3 DEF TakenInv
<1>. QED
  BY <1>1, <1>2

LEMMA TakenPktRecv ==
  ASSUME TypeInv, FramedInv, TakenInv, PktRecv
  PROVE  TakenInv'
<1>0. /\ frame \in Frame /\ frame.plen \in Nat /\ frame.pad \in Nat /\ buf \in [len : Nat, cap : Nat]
      /\ pc = "sent" /\ call.to = "pkt" /\ frame' = frame /\ call' = call
      /\ rc = 0 /\ oom = FALSE /\ oom' = FALSE /\ buf' = [buf EXCEPT !.len = 0]
  BY DEF TypeInv, TypeOK, Frame, TakenInv, PktRecv
<1>1. CASE PktFrameOk(frame)
  <2>1. /\ payLen' = (frame.plen - 1 - frame.pad) % SizeMod
        /\ IF payLen' > 0 THEN pc' = "copy" /\ rc' = rc ELSE pc' = "done" /\ rc' = 0
    BY <1>1, Zenon DEF PktRecv, Finish
  <2>2. frame.plen <= MAX_PACKET_SIZE /\ frame.pad + 1 <= frame.plen
    BY <1>0, <1>1 DEF PktFrameOk
  <2>3. payLen' = frame.plen - 1 - frame.pad
    BY <1>0, <2>1, <2>2, PayloadLength
  <2>4. 1 + payLen' + frame.pad = frame.plen /\ payLen' \in Nat
    BY <1>0, <2>2, <2>3
  <2>. HIDE <2>3
  <2>5. CASE payLen' > 0
    BY <1>0, <2>1, <2>2, <2>4, <2>5 DEF TakenInv, Inside
  <2>6. CASE payLen' = 0
    BY <1>0, <2>1, <2>2, <2>4, <2>6 DEF TakenInv, Inside
  <2>. QED
    BY <2>4, <2>5, <2>6
<1>2. CASE ~PktFrameOk(frame)
  <2>1. pc' = "done" /\ rc' = -1
    BY <1>2, Zenon DEF PktRecv, Finish
  <2>2. ~Due'
    BY <1>0, <1>2, DuePasses, DueStays
  <2>. QED
    BY <2>1, <2>2 DEF TakenInv
<1>. QED
  BY <1>1, <1>2

LEMMA CopyTakes ==
  ASSUME TypeInv, TakenInv, pc \in {"copy", "grow"},
         NEW cap \in Nat, Needed <= cap, Copy(cap),
         UNCHANGED <<call, frame, payLen, oom>>
  PROVE  TakenInv'
<1>1. payLen \in 0 .. SizeMod - 1 /\ buf.len = 0 /\ SizeMod \in Nat
  BY FramingAssumption DEF TypeInv, TypeOK, TakenInv
<1>2. Needed = payLen
  <2>1. payLen % SizeMod = payLen
    BY <1>1, SmallRemainder, Zenon
  <2>2. buf.len + payLen = payLen
    BY <1>1
  <2>. QED
    BY <2>1, <2>2 DEF Needed
<1>3. buf' = [len |-> payLen, cap |-> cap] /\ pc' = "done" /\ rc' = 0
  BY <1>1 DEF Copy, Finish
<1>. QED
  BY <1>2, <1>3 DEF TakenInv, Inside

LEMMA TakenNext ==
  ASSUME TypeInv, FramedInv, TakenInv, [Next]_vars
  PROVE  TakenInv'
<1>1. CASE SessionSend \/ PktSend \/ PeerSend
  BY <1>1 DEF SessionSend, PktSend, PeerSend, TakenInv
<1>2. CASE SessionRecv
  BY <1>2, TakenSessionRecv
<1>3. CASE PktRecv
  BY <1>3, TakenPktRecv
<1>4. CASE PutRaw
  <2>1. CASE Needed <= buf.cap
    BY <1>4, <2>1, CopyTakes DEF PutRaw, TypeInv, TypeOK
  <2>2. CASE ~(Needed <= buf.cap)
    BY <1>4, <2>2 DEF PutRaw, TakenInv, Inside
  <2>. QED
    BY <2>1, <2>2
<1>5. CASE Double
  BY <1>5 DEF Double, TakenInv, Inside
<1>6. CASE Realloc
  <2>1. CASE Copy(newCap) /\ UNCHANGED oom
    BY <1>6, <2>1, CopyTakes DEF Realloc, Room, TypeInv, TypeOK
  <2>2. CASE Finish(-1) /\ oom' = TRUE
    BY <2>2 DEF Finish, TakenInv
  <2>. QED
    BY <1>6, <2>1, <2>2 DEF Realloc
<1>7. CASE UNCHANGED vars
  <2>1. Due' <=> Due
    BY <1>7, DueStays DEF vars
  <2>. QED
    BY <1>7, <2>1 DEF vars, TakenInv, Inside
<1>. QED
  BY <1>1, <1>2, <1>3, <1>4, <1>5, <1>6, <1>7 DEF Next, Send, Recv

FramingInv == TypeInv /\ FramedInv /\ TakenInv

LEMMA FramingInvariant == Spec => []FramingInv
<1>1. Init => FramingInv
  BY TypeInit DEF Init, FramingInv, FramedInv, Sent, TakenInv
<1>2. FramingInv /\ [Next]_vars => FramingInv'
  BY TypeNext, FramedNext, TakenNext DEF FramingInv
<1>. QED
  BY <1>1, <1>2, PTL DEF Spec

\* What session_send and pkt_send frame, either receiver that can read it returns
\* whole, for every payload length, block size and capacity of the caller's
\* buffer: none of their different limits disagree.
THEOREM PayloadsReturn == Spec => []RoundTrip
<1>1. FramingInv => RoundTrip
  <2>. SUFFICES ASSUME FramingInv, pc = "done", Due
                PROVE  IF oom THEN rc = -1
                       ELSE rc = 0 /\ payLen = call.len /\ buf.len = call.len
    BY DEF RoundTrip
  <2>1. /\ call.from # "peer" /\ call.len \in Nat /\ frame.pad \in Nat
        /\ payLen \in Nat /\ rc \in {0, -1}
    BY FramingAssumption DEF FramingInv, TypeInv, TypeOK, Calls, Frame, Due
  <2>2. frame.plen = 1 + call.len + frame.pad
    BY <2>1, Zenon DEF FramingInv, FramedInv, Framed, Sent, Due
  <2>3. ~Beyond(frame)
    BY <2>1, <2>2 DEF Beyond
  <2>4. CASE rc = 0
    <3>1. oom = FALSE /\ buf.len = payLen /\ Inside
      BY <2>3, <2>4 DEF FramingInv, TakenInv
    <3>. QED
      BY <2>1, <2>2, <2>4, <3>1 DEF Inside
  <2>5. CASE rc # 0
    BY <2>1, <2>5 DEF FramingInv, TakenInv
  <2>. QED
    BY <2>4, <2>5
<1>. QED
  BY <1>1, FramingInvariant, PTL

\* Whatever arrives, buf_put_raw copies from inside the packet to inside the
\* buffer, unless it is a frame whose padding_length session_recv lets pass
\* although it is beyond the packet (finding Framing_padding).
THEOREM CopiesInside == Spec => []CopyInBounds
<1>1. FramingInv => CopyInBounds
  BY Zenon DEF FramingInv, TakenInv, Inside, CopyInBounds
<1>. QED
  BY <1>1, FramingInvariant, PTL
=============================================================================
