------------------------------- MODULE Framing -------------------------------
(***************************************************************************)
(* The arithmetic of the binary packet protocol: how session_send and      *)
(* pkt_send lay a payload out as a frame, which frames session_recv and    *)
(* pkt_recv accept, and how the payload gets into the caller's ssh_buf_t.  *)
(* A behaviour is one frame: a sender or a peer produces it, one of the    *)
(* two receivers reads it.  A frame is its two length fields; its bytes    *)
(* are the concern of module Session.  size_t wraps at SizeMod and the     *)
(* uint32_t that holds packet_length at FieldMod.                          *)
(***************************************************************************)
EXTENDS Integers

CONSTANTS
  MAX_PAYLOAD_SIZE, MAX_PACKET_SIZE,
  FieldMod,       \* 2^32 in the code; packet_length is cut there
  SizeMod,        \* 2^64 in the code; size_t arithmetic wraps there
  Lens,           \* bound: payload lengths handed to the senders
  BlockSizes,     \* bound: block_size arguments of pkt_send
  PeerFrames,     \* bound: frames of other origin, [plen, pad]
  Caps            \* bound: capacities of the caller's buffer

MIN_PADDING_SIZE == 4
BUF_MIN_CAP == 64
SSH_PLAIN_BLOCK == 8
SSH_CIPHER_BLOCK == 16

Frame == [plen : Nat, pad : 0 .. 255]

ASSUME FramingAssumption ==
  /\ MAX_PAYLOAD_SIZE \in Nat /\ MAX_PACKET_SIZE \in Nat
  /\ FieldMod \in Nat /\ MAX_PAYLOAD_SIZE + 256 < FieldMod
  /\ MAX_PACKET_SIZE + 256 < FieldMod
  /\ SizeMod \in Nat /\ 2 * FieldMod + 256 < SizeMod
  /\ Lens \subseteq Nat /\ Caps \subseteq Nat /\ BlockSizes \subseteq Nat
  /\ PeerFrames \subseteq Frame

VARIABLES
  pc,      \* "idle", "refused", "crashed", "sent", "copy", "grow", "done"
  call,    \* who makes the frame, of how long a payload, and who reads it
  frame,   \* the two length fields on the wire
  payLen,  \* payload_len of the receiver
  buf,     \* len and cap of the receiver's out buffer
  newCap,  \* new_cap in buf_reserve
  rc,      \* what the receiver returned
  oom      \* realloc has failed

vars == <<pc, call, frame, payLen, buf, newCap, rc, oom>>

Calls == [from : {"session", "pkt", "peer"}, to : {"session", "pkt"},
          encrypted : BOOLEAN, len : Nat, block : Nat]

-----------------------------------------------------------------------------
\* Mutant: padding that may be too short.
PadShort(len, block) == block - ((5 + len) % block)

\* Padding to a multiple of the block, at least MIN_PADDING_SIZE, in size_t
Pad(len, block) ==
  LET p == block - (((5 + len) % SizeMod) % block)
  IN IF p < MIN_PADDING_SIZE THEN (p + block) % SizeMod ELSE p

\* Mutant: the padding length is not cut to its byte.
LaidWide(len, block) ==
  [plen |-> (1 + len + Pad(len, block)) % FieldMod, pad |-> Pad(len, block)]

\* The two fields: a cast to uint32_t and one to a byte
Laid(len, block) ==
  [plen |-> (1 + len + Pad(len, block)) % FieldMod, pad |-> Pad(len, block) % 256]

\* The bytes laid out do not fit in the buffer, whose size is computed from
\* packet_length after the cast.
Overrun(len, block) == 1 + len + Pad(len, block) >= FieldMod

\* A frame of a direction that encrypts is read by session_recv alone.
Call(from, len, encrypted, block) ==
  {[from |-> from, to |-> to, encrypted |-> encrypted, len |-> len,
    block |-> block] : to \in IF encrypted THEN {"session"} ELSE {"session", "pkt"}}

Init ==
  /\ pc = "idle"
  /\ payLen = 0 /\ newCap = 0 /\ rc = 0 /\ oom = FALSE
  /\ \E c \in Caps : buf = [len |-> 0, cap |-> c]
  /\ \/ /\ \E len \in Lens :
             \/ call \in Call("session", len, FALSE, SSH_PLAIN_BLOCK)
             \/ call \in Call("session", len, TRUE, SSH_CIPHER_BLOCK)
             \/ \E block_size \in BlockSizes :
                  call \in Call("pkt", len, FALSE, block_size)
        /\ frame = [plen |-> 0, pad |-> 0]
     \/ /\ \E encrypted \in BOOLEAN :
             call \in Call("peer", 0, encrypted, SSH_PLAIN_BLOCK)
        /\ frame \in PeerFrames

\* The lengths session_send takes.
SessionSendable ==
  /\ 0 < call.len /\ call.len <= MAX_PAYLOAD_SIZE
  /\ 4 + Laid(call.len, call.block).plen <= MAX_PACKET_SIZE

\* Either sender returns -1 too when malloc, rand_bytes or the write fails.
SessionSend ==
  /\ pc = "idle" /\ call.from = "session"
  /\ \/ SessionSendable /\ frame' = Laid(call.len, call.block) /\ pc' = "sent"
     \/ pc' = "refused" /\ UNCHANGED frame
  /\ UNCHANGED <<call, payLen, buf, newCap, rc, oom>>

\* pkt_send takes no block size below 8, whatever else it is.
Block == IF call.from = "pkt" /\ call.block < 8 THEN 8 ELSE call.block

\* It checks no limit.  A memcpy past the end of its buffer is undefined: the
\* program dies or goes on with the frame cut off.
PktSend ==
  /\ pc = "idle" /\ call.from = "pkt"
  /\ \/ frame' = Laid(call.len, Block) /\ pc' = "sent"
     \/ pc' = "refused" /\ UNCHANGED frame
     \/ Overrun(call.len, Block) /\ pc' = "crashed" /\ UNCHANGED frame
  /\ UNCHANGED <<call, payLen, buf, newCap, rc, oom>>

PeerSend ==
  /\ pc = "idle" /\ call.from = "peer"
  /\ pc' = "sent"
  /\ UNCHANGED <<call, frame, payLen, buf, newCap, rc, oom>>

-----------------------------------------------------------------------------
Finish(r) == pc' = "done" /\ rc' = r

\* Mutant: total, not packet_length, is compared with the limit.
SessionLengthOkTotal(f) ==
  /\ IF call.encrypted
     THEN f.plen >= 12 /\ (4 + f.plen) % SSH_CIPHER_BLOCK = 0
     ELSE f.plen >= 6
  /\ 4 + f.plen < MAX_PACKET_SIZE

\* packet_length as session_recv checks it, in either mode
SessionLengthOk(f) ==
  /\ f.plen <= MAX_PACKET_SIZE
  /\ IF call.encrypted
     THEN f.plen >= 12 /\ (4 + f.plen) % SSH_CIPHER_BLOCK = 0
     ELSE f.plen >= 6

\* Mutant: no upper bound on padding_length.
SessionPaddingOkLow(f) == f.pad >= MIN_PADDING_SIZE

SessionPaddingOk(f) ==
  /\ f.pad >= MIN_PADDING_SIZE
  /\ f.pad + 1 < 4 + f.plen

SessionPayloadLen(f) == (4 + f.plen - 4 - 1 - f.pad) % SizeMod

\* session_recv: the checks in their order, then buf_reset.
SessionRecv ==
  /\ pc = "sent" /\ call.to = "session"
  /\ IF SessionLengthOk(frame) /\ SessionPaddingOk(frame)
          /\ SessionPayloadLen(frame) >= 1
     THEN /\ payLen' = SessionPayloadLen(frame)
          /\ buf' = [buf EXCEPT !.len = 0]
          /\ pc' = "copy" /\ UNCHANGED rc
     ELSE Finish(-1) /\ UNCHANGED <<payLen, buf>>
  /\ UNCHANGED <<call, frame, newCap, oom>>

PktFrameOk(f) ==
  /\ f.plen >= 5 /\ f.plen <= MAX_PACKET_SIZE
  /\ f.pad >= MIN_PADDING_SIZE /\ f.pad < f.plen

\* pkt_recv resets the buffer first and takes an empty payload.
PktRecv ==
  /\ pc = "sent" /\ call.to = "pkt"
  /\ buf' = [buf EXCEPT !.len = 0]
  /\ IF PktFrameOk(frame)
     THEN /\ payLen' = (frame.plen - 1 - frame.pad) % SizeMod
          /\ IF payLen' > 0 THEN pc' = "copy" /\ UNCHANGED rc ELSE Finish(0)
     ELSE Finish(-1) /\ UNCHANGED payLen
  /\ UNCHANGED <<call, frame, newCap, oom>>

\* What buf_reserve makes room for; the sum of two size_t
Needed == (buf.len + payLen) % SizeMod

\* memcpy in buf_put_raw; the receiver returns 0.
Copy(cap) ==
  /\ buf' = [len |-> buf.len + payLen, cap |-> cap]
  /\ Finish(0)

\* Mutant: one doubling is always enough.
RoomOnce(need, cap) == TRUE

\* The condition on which buf_reserve stops doubling.
Room(need, cap) == need <= cap

PutRaw ==
  /\ pc = "copy"
  /\ IF Needed <= buf.cap
     THEN Copy(buf.cap) /\ UNCHANGED newCap
     ELSE /\ newCap' = IF buf.cap > 0 THEN (buf.cap * 2) % SizeMod
                       ELSE BUF_MIN_CAP
          /\ pc' = "grow" /\ UNCHANGED <<buf, rc>>
  /\ UNCHANGED <<call, frame, payLen, oom>>

\* One turn of the doubling loop of buf_reserve.
Double ==
  /\ pc = "grow" /\ ~Room(Needed, newCap)
  /\ newCap' = (newCap * 2) % SizeMod
  /\ UNCHANGED <<pc, call, frame, payLen, buf, rc, oom>>

Realloc ==
  /\ pc = "grow" /\ Room(Needed, newCap)
  /\ \/ Copy(newCap) /\ UNCHANGED oom
     \/ Finish(-1) /\ oom' = TRUE /\ UNCHANGED buf
  /\ UNCHANGED <<call, frame, payLen, newCap>>

Send == SessionSend \/ PktSend \/ PeerSend

Recv == SessionRecv \/ PktRecv \/ PutRaw \/ Double \/ Realloc

Next == Send \/ Recv

Spec == Init /\ [][Next]_vars

\* A receiver that has its frame keeps running.
FairSpec == Spec /\ WF_vars(Recv)

-----------------------------------------------------------------------------
\* Every variable holds a value of its type.
TypeOK ==
  /\ pc \in {"idle", "refused", "crashed", "sent", "copy", "grow", "done"}
  /\ call \in Calls /\ frame \in Frame
  /\ payLen \in 0 .. SizeMod - 1
  /\ buf \in [len : Nat, cap : Nat] /\ newCap \in Nat
  /\ rc \in {0, -1} /\ oom \in BOOLEAN

\* RFC 4253, section 6, has a frame for this payload and this block size: of 4 to
\* 255 bytes of padding, and of a length that its field can count.
HasFrame ==
  \E pad \in MIN_PADDING_SIZE .. 255 :
    (5 + call.len + pad) % Block = 0 /\ 1 + call.len + pad < FieldMod

\* The frames a receiver has to take: all of session_send's, and pkt_send's
\* within the limits it does not check itself (session_recv refuses the empty
\* payload, both receivers a packet_length over MAX_PACKET_SIZE).
Due ==
  \/ call.from = "session"
  \/ /\ call.from = "pkt" /\ HasFrame /\ frame.plen <= MAX_PACKET_SIZE
     /\ call.len > 0 \/ call.to = "pkt"

\* A payload that session_send or pkt_send has framed is returned whole by
\* either receiver that can read the frame, unless memory runs out.
RoundTrip ==
  pc = "done" /\ Due =>
    IF oom THEN rc = -1 ELSE rc = 0 /\ payLen = call.len /\ buf.len = call.len

\* The frame of either sender is one of RFC 4253, section 6, whenever there is
\* one: a multiple of the block, with 4 to 255 bytes of padding and lengths that
\* add up.  session_send, which checks its limits, sends nothing else.
FrameLegal ==
  pc = "sent" /\ call.from # "peer" /\ (call.from = "pkt" => HasFrame) =>
    /\ (4 + frame.plen) % Block = 0
    /\ frame.pad >= MIN_PADDING_SIZE
    /\ frame.plen = 1 + call.len + frame.pad

\* A padding_length that session_recv lets pass although the packet does not
\* hold it: payload_len wraps (the finding of MalformedRejected).
Beyond(f) == f.pad + 1 > f.plen /\ f.pad + 1 < 4 + f.plen

\* Whatever other frame arrives, the payload that buf_put_raw copies lies inside
\* the packet that was read and inside the buffer it is copied to.
CopyInBounds ==
  pc = "done" /\ rc = 0 /\ ~Beyond(frame) =>
    /\ 1 + payLen + frame.pad = frame.plen
    /\ buf.len = payLen /\ (payLen > 0 => buf.len <= buf.cap)

\* A receiver with such a frame in hand returns.
RecvReturns == (pc = "sent" /\ ~Beyond(frame)) ~> pc = "done"

\* A frame that leaves no room for a payload, its padding too short or its
\* padding_length beyond the packet, makes session_recv return -1.
Malformed(f) == f.plen < 6 \/ f.pad < MIN_PADDING_SIZE \/ f.pad + 2 > f.plen

MalformedRejected ==
  (pc = "sent" /\ call.to = "session" /\ Malformed(frame))
    ~> (pc = "done" /\ rc = -1)
=============================================================================
