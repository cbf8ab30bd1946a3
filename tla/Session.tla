------------------------------- MODULE Session -------------------------------
(***************************************************************************)
(* One direction of a coalesce transport session: the `out` half of the    *)
(* sender's ssh_session_t, the `in` half of the receiver's, the TCP stream *)
(* between them and the callers that drive the two ends.  The directions   *)
(* share no state but the socket, so a session is two copies of this.      *)
(*                                                                         *)
(* The stream is a sequence of cells, one for every piece session_recv     *)
(* reads as a unit.  A plaintext packet is two cells (the length field and *)
(* the rest), an encrypted one is one cell for every cipher block, and one *)
(* more for the MAC.  Cells carry the packet they belong to instead of     *)
(* bytes: a reader gets the bytes the writer meant exactly when it reads   *)
(* the cells of one packet in order under the same cipher state.  Any      *)
(* other read yields arbitrary bytes, and every outcome the code has for   *)
(* arbitrary bytes is allowed.  HMAC-SHA256 is ideal: a tag verifies only  *)
(* for the packet and the sequence number it was computed for.             *)
(***************************************************************************)
EXTENDS Integers, Sequences, FiniteSets

CONSTANTS
  Payload,          \* the payloads callers send, NewKeys among them
  NewKeys,          \* SSH_MSG_NEWKEYS: keys change after it
  Blocks,           \* the cipher blocks of the packet that carries a payload
  MacEpochs,        \* key epochs negotiated with hmac-sha2-256; "none" in others
  SeqMod,           \* 2^32: packet sequence numbers wrap there
  Disconnect,       \* TRUE: a caller closes the session at the first -1
  EarlyInstall,     \* TRUE: the sender calls session_set_keys before NEWKEYS
  Faults,           \* the kinds of fault that may happen, of FaultKinds
  MaxFaults,        \* bound: faults in a behaviour
  MaxSends,         \* bound: calls of session_send
  MaxJunk,          \* bound: blocks decrypted by a read of a wrong length
  WireCap           \* bound: cells in flight (the socket buffers)

FaultKinds == {"write", "flip", "alloc", "keys"}

ASSUME SessionAssumption ==
  /\ NewKeys \in Payload
  /\ Blocks \in [Payload -> Nat \ {0}]
  /\ MacEpochs \subseteq Nat \ {0}
  /\ SeqMod \in Nat \ {0}
  /\ Disconnect \in BOOLEAN /\ EarlyInstall \in BOOLEAN
  /\ Faults \subseteq FaultKinds
  /\ MaxFaults \in Nat /\ MaxSends \in Nat /\ MaxJunk \in Nat
  /\ WireCap \in Nat \ {0}

VARIABLES
  out,        \* sender's ssh_direction_t
  in,         \* receiver's ssh_direction_t
  snd,        \* sender: pc, next cell of the packet being written, key exchanges
  rcv,        \* receiver: pc, packet being read, its next cell, its integrity,
              \* key exchanges
  wire,       \* cells written and not yet read
  pkts,       \* history: per session_send call, payload, direction state, done
  delivered,  \* history: what session_recv returned, under which MAC and keys
  faults      \* faults so far

vars == <<out, in, snd, rcv, wire, pkts, delivered, faults>>

-----------------------------------------------------------------------------
(* ssh_direction_t.  An epoch names the key material of one key exchange;   *)
(* epoch 0 is none.  ctr counts the keystream blocks used.                  *)

Direction == [encrypted : BOOLEAN, key : Nat, ctr : Nat,
              mac : MacEpochs \cup {0}, seq : 0 .. SeqMod - 1]

Fresh == [encrypted |-> FALSE, key |-> 0, ctr |-> 0, mac |-> 0, seq |-> 0]

\* Mutant: a direction that already encrypts keeps its cipher.
SetCipherOnce(d, k) ==
  IF d.encrypted THEN d ELSE [d EXCEPT !.key = k, !.ctr = 0]

\* aes_ctr_init
SetCipher(d, k) == [d EXCEPT !.key = k, !.ctr = 0]

\* Mutant: new keys start the packet count again.
SetKeysResetSeq(d, k) ==
  [SetCipher(d, k) EXCEPT !.mac = IF k \in MacEpochs THEN k ELSE 0, !.seq = 0]

\* session_set_keys when it returns 0: the cipher, then the MAC
SetKeys(d, k) ==
  [SetCipher(d, k) EXCEPT !.mac = IF k \in MacEpochs THEN k ELSE 0]

Activate(d) == [d EXCEPT !.encrypted = TRUE]

\* What session_set_keys may leave behind when it returns -1: nothing done, or
\* the cipher replaced and the MAC not; a caller that ignores the -1 may activate
\* that.
SetKeysFailed(d, k) ==
  LET left == {d, SetCipher(d, k)}
  IN IF Disconnect THEN left ELSE left \cup {Activate(x) : x \in left}

MacOf(d) == IF d.encrypted THEN d.mac ELSE 0

Advance(d, n) == IF d.encrypted THEN [d EXCEPT !.ctr = @ + n] ELSE d

\* Mutant: a counter wider than 32 bits.
CountWide(d) == [d EXCEPT !.seq = @ + 1]

Count(d) == [d EXCEPT !.seq = (@ + 1) % SeqMod]

\* cells of packet i before its MAC, and in all
DataCells(i) == IF pkts[i].dir.encrypted THEN Blocks[pkts[i].payload] ELSE 2
Cells(i) == DataCells(i) + (IF MacOf(pkts[i].dir) > 0 THEN 1 ELSE 0)

Cell(i, n) == [pid |-> i, part |-> n, shape |-> "whole"]
\* shapes: damaged, cut short by a failed write, split by a read
Shaped(c, shape) == [c EXCEPT !.shape = shape]

\* The receiver's cipher state turns packet i back into the bytes sent.
Decrypts(i) ==
  /\ in.encrypted = pkts[i].dir.encrypted
  /\ in.encrypted => in.key = pkts[i].dir.key /\ in.ctr = pkts[i].dir.ctr

CanFault(kind) == kind \in Faults /\ faults < MaxFaults
Faulted(happens) == faults' = IF happens THEN faults + 1 ELSE faults

-----------------------------------------------------------------------------
Init ==
  /\ out = Fresh /\ in = Fresh
  /\ snd = [pc |-> "idle", next |-> 1, early |-> FALSE, kex |-> 0]
  /\ rcv = [pc |-> "head", pid |-> 0, part |-> 1, intact |-> TRUE, kex |-> 0]
  /\ wire = <<>> /\ pkts = <<>> /\ delivered = <<>> /\ faults = 0

-----------------------------------------------------------------------------
(* The sender.                                                              *)

\* A caller that installs keys as soon as the key exchange has them, as
\* session.h allows, before it sends NEWKEYS.
InstallEarly ==
  /\ EarlyInstall /\ snd.pc = "idle" /\ ~snd.early
  /\ out' = SetKeys(out, snd.kex + 1)
  /\ snd' = [snd EXCEPT !.early = TRUE, !.kex = @ + 1]
  /\ UNCHANGED <<in, rcv, wire, pkts, delivered, faults>>

\* session_send up to its first write: MAC over the plaintext, then the cipher
\* runs over the whole packet and its state advances.  Calls refused before
\* that (length, malloc, rand_bytes) change nothing.
SendBegin(p) ==
  /\ snd.pc = "idle" /\ Len(pkts) < MaxSends
  /\ snd.early => p = NewKeys
  /\ EarlyInstall /\ p = NewKeys => snd.early
  /\ pkts' = Append(pkts, [payload |-> p, dir |-> out, done |-> FALSE])
  /\ out' = Advance(out, Blocks[p])
  /\ snd' = [snd EXCEPT !.pc = "writing", !.next = 1]
  /\ UNCHANGED <<in, rcv, wire, delivered, faults>>

\* One successful send() inside net_write_full.
WriteCell ==
  /\ snd.pc = "writing" /\ Len(wire) < WireCap
  /\ LET i == Len(pkts) IN
     /\ wire' = Append(wire, Cell(i, snd.next))
     /\ snd' = IF snd.next = Cells(i) THEN [snd EXCEPT !.pc = "written"]
               ELSE [snd EXCEPT !.next = @ + 1]
  /\ UNCHANGED <<out, in, rcv, pkts, delivered, faults>>

\* Mutant: a failed write gives its keystream back.
AfterFailureRollback == pkts[Len(pkts)].dir

\* What a failed write leaves: the cipher stays advanced, seq does not count.
AfterFailure == out

\* send() fails: by a fault, possibly after part of a cell left, or because
\* the peer is gone.  session_send returns -1 and has no memory of how far it
\* came.
WriteFail ==
  /\ snd.pc = "writing"
  /\ LET gone == rcv.pc = "closed" IN
     /\ gone \/ CanFault("write")
     /\ \/ UNCHANGED wire
        \/ ~gone /\ wire' = Append(wire, Shaped(Cell(Len(pkts), snd.next), "cut"))
     /\ Faulted(~gone)
     /\ out' = AfterFailure
     /\ snd' = [snd EXCEPT !.pc = IF gone \/ Disconnect THEN "closed" ELSE "idle",
                           !.early = FALSE]
  /\ UNCHANGED <<in, rcv, pkts, delivered>>

\* net_write_full has returned the full count: session_send returns 0.
SendReturn ==
  /\ snd.pc = "written"
  /\ LET i == Len(pkts) IN
     /\ out' = Count(out)
     /\ pkts' = [pkts EXCEPT ![i].done = TRUE]
     /\ snd' = [snd EXCEPT !.pc = IF pkts[i].payload = NewKeys THEN "install"
                                  ELSE "idle"]
  /\ UNCHANGED <<in, rcv, wire, delivered, faults>>

\* After NEWKEYS the sender installs and activates the next keys.
InstallOut ==
  /\ snd.pc = "install"
  /\ out' = Activate(IF snd.early THEN out ELSE SetKeys(out, snd.kex + 1))
  /\ snd' = [snd EXCEPT !.pc = "idle", !.early = FALSE,
                        !.kex = IF snd.early THEN @ ELSE @ + 1]
  /\ UNCHANGED <<in, rcv, wire, pkts, delivered, faults>>

\* session_set_keys returns -1: the caller ends the session, or goes on with a
\* direction that may hold the new cipher and the old MAC key.
InstallOutFail ==
  /\ snd.pc = "install" /\ ~snd.early /\ CanFault("keys")
  /\ out' \in SetKeysFailed(out, snd.kex + 1)
  /\ snd' = [snd EXCEPT !.pc = IF Disconnect THEN "closed" ELSE "idle", !.kex = @ + 1]
  /\ Faulted(TRUE)
  /\ UNCHANGED <<in, rcv, wire, pkts, delivered>>

Close ==
  /\ snd.pc = "idle"
  /\ snd' = [snd EXCEPT !.pc = "closed"]
  /\ UNCHANGED <<out, in, rcv, wire, pkts, delivered, faults>>

-----------------------------------------------------------------------------
(* The receiver: a caller that calls session_recv again and again.          *)

ReceiverAt(pc) == rcv' = [rcv EXCEPT !.pc = pc]

\* session_recv returns -1 and changes nothing more
ReturnError == ReceiverAt(IF Disconnect THEN "closed" ELSE "head")

\* session_recv returns 0 with payload p of packet i (0: bytes nobody sent)
Return(i, p) ==
  /\ delivered' = Append(delivered, [pid |-> i, payload |-> p,
                                     mac |-> MacOf(in), key |-> in.key])
  /\ ReceiverAt(IF p = NewKeys THEN "install" ELSE "head")

\* recv() takes a cell, or a part of it.  Bound: a cell split by such a read
\* feeds at most one more.
Take ==
  \/ wire' = Tail(wire)
  \/ /\ Head(wire).shape # "split"
     /\ wire' = <<Shaped(Head(wire), "split")>> \o Tail(wire)

\* Mutant: a short read passes for a full one.
DerailShort(i, n) == Take /\ ReceiverAt("junk")

\* The reader expects cell n of packet i and the stream holds something else:
\* what it reads is not what anybody sent (pc "junk").  A cell cut short is not
\* enough, the read waits for bytes of a later packet (pc "short").
Derail(i, n) ==
  LET c == Head(wire) IN
  IF c.pid = i /\ c.part = n /\ c.shape = "cut"
  THEN wire' = Tail(wire) /\ ReceiverAt("short")
  ELSE Take /\ ReceiverAt("junk")

\* The first read and the allocation after it.  A damaged length field may
\* derail the reader too.
RecvHead ==
  /\ rcv.pc = "head" /\ wire # <<>>
  /\ LET c == Head(wire)
         i == c.pid
         starts == c.part = 1 /\ c.shape \in {"whole", "flipped"} /\ Decrypts(i)
     IN
     \/ /\ starts
        /\ wire' = Tail(wire)
        /\ in' = Advance(in, 1)
        /\ \/ /\ rcv' = [rcv EXCEPT
                    !.pc = IF DataCells(i) > 1 THEN "body"
                           ELSE IF MacOf(in) > 0 THEN "mac" ELSE "extract",
                    !.pid = i, !.part = 2, !.intact = c.shape = "whole"]
              /\ UNCHANGED faults
           \/ CanFault("alloc") /\ Faulted(TRUE) /\ ReturnError
     \/ /\ ~starts \/ c.shape = "flipped"
        /\ Derail(IF Decrypts(i) THEN i ELSE 0, 1)
        /\ UNCHANGED <<in, faults>>
  /\ UNCHANGED <<out, snd, pkts, delivered>>

\* The cell at the head of the stream is the next one of the packet being read.
Continues ==
  /\ Head(wire).pid = rcv.pid /\ Head(wire).part = rcv.part
  /\ Head(wire).shape \in {"whole", "flipped"}

\* Mutant: the cipher runs over the first block again.
RestBlocksAll == rcv.part

\* Cipher blocks after the first, once the last of them is read
RestBlocks == rcv.part - 1

\* recv() inside the second net_read_full; the cipher runs when it is complete.
RecvBody ==
  /\ rcv.pc = "body" /\ wire # <<>>
  /\ LET last == rcv.part = DataCells(rcv.pid) IN
     IF Continues
     THEN /\ wire' = Tail(wire)
          /\ in' = IF last THEN Advance(in, RestBlocks) ELSE in
          /\ rcv' = [rcv EXCEPT
                !.part = @ + 1,
                !.intact = @ /\ Head(wire).shape = "whole",
                !.pc = IF ~last THEN "body"
                       ELSE IF MacOf(in) > 0 THEN "mac" ELSE "extract"]
     ELSE Derail(rcv.pid, rcv.part) /\ UNCHANGED in
  /\ UNCHANGED <<out, snd, pkts, delivered, faults>>

\* Mutants: a tag checked for anything but the bytes of the packet; d->seq
\* incremented before the MAC is computed.
MacVerifiesAnyBytes ==
  Head(wire).shape = "whole" /\ pkts[rcv.pid].dir.mac = in.mac
MacVerifiesNextSeq ==
  /\ rcv.intact /\ Head(wire).shape = "whole"
  /\ pkts[rcv.pid].dir.mac = in.mac
  /\ pkts[rcv.pid].dir.seq = (in.seq + 1) % SeqMod

\* The MAC is read and compared with the one for this packet under d->seq.
MacVerifies ==
  /\ rcv.intact /\ Head(wire).shape = "whole"
  /\ pkts[rcv.pid].dir.mac = in.mac
  /\ pkts[rcv.pid].dir.seq = in.seq

\* Mutant: a packet with a bad MAC is skipped and the call reads the next one.
MacFailedSkips == in' = Count(in) /\ ReceiverAt("head")

MacFailed == UNCHANGED in /\ ReturnError

RecvMac ==
  /\ rcv.pc = "mac" /\ wire # <<>>
  /\ IF Continues
     THEN /\ wire' = Tail(wire)
          /\ IF MacVerifies THEN ReceiverAt("extract") /\ UNCHANGED in
             ELSE MacFailed
     ELSE Derail(rcv.pid, rcv.part) /\ UNCHANGED in
  /\ UNCHANGED <<out, snd, pkts, delivered, faults>>

\* The packet is complete: strip the padding, copy the payload out, count.
RecvExtract ==
  /\ rcv.pc = "extract" /\ rcv.intact
  /\ \/ /\ Return(rcv.pid, pkts[rcv.pid].payload)
        /\ in' = Count(in)
        /\ UNCHANGED faults
     \/ /\ CanFault("alloc") /\ Faulted(TRUE)
        /\ ReturnError
        /\ UNCHANGED <<in, delivered>>
  /\ UNCHANGED <<out, snd, wire, pkts>>

\* Arbitrary bytes reach the padding check, d the direction state once they
\* are read: they are refused, or returned as some payload, or have a
\* padding_length that makes payload_len wrap and buf_reserve loop for ever.
Refused(d) == ReturnError /\ in' = d /\ UNCHANGED delivered

Accepted(d) ==
  \/ in' = Count(d) /\ \E p \in Payload : Return(0, p)
  \/ in' = d /\ ReceiverAt("hung") /\ UNCHANGED delivered

\* A packet with a damaged cell, its length intact.
RecvDamaged ==
  /\ rcv.pc = "extract" /\ ~rcv.intact
  /\ Refused(in) \/ Accepted(in)
  /\ UNCHANGED <<out, snd, wire, pkts, faults>>

\* Reading on with a length nobody sent.
JunkRead ==
  /\ rcv.pc \in {"short", "junk"} /\ wire # <<>>
  /\ Take /\ ReceiverAt("junk")
  /\ UNCHANGED <<out, in, snd, pkts, delivered, faults>>

\* The call ends after the cipher has run over some number of blocks; if there
\* is a MAC to read, it does not verify.
JunkEnd ==
  /\ rcv.pc = "junk"
  /\ \E n \in 0 .. MaxJunk : LET d == Advance(in, n) IN
       Refused(d) \/ (MacOf(in) = 0 /\ Accepted(d))
  /\ UNCHANGED <<out, snd, wire, pkts, faults>>

\* recv() returns 0: the stream has ended and every later call fails too.
RecvEof ==
  /\ rcv.pc \in {"head", "body", "mac", "short", "junk"}
  /\ wire = <<>> /\ snd.pc = "closed"
  /\ ReceiverAt("closed")
  /\ UNCHANGED <<out, in, snd, wire, pkts, delivered, faults>>

InstallIn ==
  /\ rcv.pc = "install"
  /\ in' = Activate(SetKeys(in, rcv.kex + 1))
  /\ rcv' = [rcv EXCEPT !.pc = "head", !.kex = @ + 1]
  /\ UNCHANGED <<out, snd, wire, pkts, delivered, faults>>

InstallInFail ==
  /\ rcv.pc = "install" /\ CanFault("keys")
  /\ in' \in SetKeysFailed(in, rcv.kex + 1)
  /\ rcv' = [rcv EXCEPT !.pc = IF Disconnect THEN "closed" ELSE "head", !.kex = @ + 1]
  /\ Faulted(TRUE)
  /\ UNCHANGED <<out, snd, wire, pkts, delivered>>

-----------------------------------------------------------------------------
\* A byte of a cell in flight is damaged.
Flip ==
  /\ CanFault("flip") /\ Faulted(TRUE)
  /\ \E n \in DOMAIN wire :
       /\ wire[n].shape = "whole"
       /\ wire' = [wire EXCEPT ![n].shape = "flipped"]
  /\ UNCHANGED <<out, in, snd, rcv, pkts, delivered>>

Ended ==
  /\ snd.pc = "closed" /\ rcv.pc = "closed"
  /\ UNCHANGED vars

Sender ==
  \/ WriteCell \/ WriteFail \/ SendReturn \/ InstallOut \/ InstallOutFail

Receiver ==
  \/ RecvHead \/ RecvBody \/ RecvMac \/ RecvExtract \/ RecvDamaged
  \/ JunkRead \/ JunkEnd \/ RecvEof \/ InstallIn \/ InstallInFail

Next ==
  \/ InstallEarly \/ (\E p \in Payload : SendBegin(p)) \/ Close
  \/ Sender \/ Receiver \/ Flip \/ Ended

Spec == Init /\ [][Next]_vars

\* A call that has begun goes on while the socket lets it; nothing makes a
\* caller send or close.
FairSpec == Spec /\ WF_vars(Sender) /\ WF_vars(Receiver)

-----------------------------------------------------------------------------
(* Properties.                                                              *)

\* Types that refer to packets take the number n of packets there are.
SenderState == [pc : {"idle", "writing", "written", "install", "closed"},
                next : Nat \ {0}, early : BOOLEAN, kex : Nat]
ReceiverState(n) == [pc : {"head", "body", "mac", "extract", "short", "junk",
                           "install", "hung", "closed"},
                     pid : 0 .. n, part : Nat \ {0}, intact : BOOLEAN,
                     kex : Nat]
CellOf(n) == [pid : 1 .. n, part : Nat \ {0},
              shape : {"whole", "flipped", "cut", "split"}]
SendCall == [payload : Payload, dir : Direction, done : BOOLEAN]
Result(n) == [pid : 0 .. n, payload : Payload, mac : MacEpochs \cup {0},
              key : Nat]

\* Every variable holds a value of its type.
TypeOK ==
  /\ out \in Direction /\ in \in Direction
  /\ snd \in SenderState
  /\ rcv \in ReceiverState(Len(pkts))
  /\ wire \in Seq(CellOf(Len(pkts)))
  /\ pkts \in Seq(SendCall)
  /\ delivered \in Seq(Result(Len(pkts)))
  /\ faults \in Nat

\* Whenever session_recv is about to read a packet, the receiver's direction
\* state (keys, keystream position, MAC key, sequence number) is exactly the
\* one session_send protected that packet with, and the two ends agree when
\* nothing is in flight.  This is what lets every later packet be read.
InSync ==
  rcv.pc = "head" =>
    /\ wire # <<>> =>
         Head(wire).part = 1 /\ pkts[Head(wire).pid].dir = in
    /\ wire = <<>> /\ snd.pc = "idle" => in = out

\* Sequence numbers count successful calls modulo 2^32 and nothing else: no
\* rekey and no failed call resets or skips one (session.h, ssh_direction_t).
SeqCountsCalls ==
  /\ out.seq = Cardinality({i \in DOMAIN pkts : pkts[i].done}) % SeqMod
  /\ in.seq = Len(delivered) % SeqMod

\* No two packets are ever encrypted with the same keystream block, not even
\* when a packet is abandoned half-written and the caller sends another.
NoKeystreamReuse ==
  \A j \in DOMAIN pkts : \A i \in 1 .. j - 1 :
    /\ pkts[i].dir.encrypted /\ pkts[j].dir.encrypted
    /\ pkts[i].dir.key = pkts[j].dir.key
    => pkts[i].dir.ctr + Blocks[pkts[i].payload] <= pkts[j].dir.ctr

\* Whatever the line does and whatever errors callers ignore, a payload that
\* session_recv returns under a MAC was sent under that MAC key, and payloads
\* returned under one MAC key come in the order sent, none of them twice.
AuthenticUnderMac ==
  \A j \in DOMAIN delivered : LET d == delivered[j] IN
    d.mac > 0 =>
      /\ d.pid > 0
      /\ pkts[d.pid].payload = d.payload /\ MacOf(pkts[d.pid].dir) = d.mac
      /\ \A k \in 1 .. j - 1 :
           delivered[k].mac = d.mac => delivered[k].pid < d.pid

\* If callers disconnect at the first error, nothing sent under a MAC key is
\* skipped: a payload returned under it comes after every earlier one of which
\* session_send returned 0.
NoGapUnderMac ==
  \A j \in DOMAIN delivered : LET d == delivered[j] IN
    d.mac > 0 =>
      \A i \in 1 .. d.pid - 1 :
        pkts[i].done /\ MacOf(pkts[i].dir) = d.mac =>
          \E k \in 1 .. j - 1 : delivered[k].pid = i

\* The number of NEWKEYS among the first n elements of s
NewKeysIn(s, n) == Cardinality({i \in 1 .. n : s[i].payload = NewKeys})

\* Each packet is protected, and read, with the keys of the latest NEWKEYS
\* before it: keys installed with session_set_keys stay unused until then.
KeysFollowNewKeys ==
  /\ \A j \in DOMAIN pkts : pkts[j].dir.encrypted =>
       pkts[j].dir.key = NewKeysIn(pkts, j - 1)
  /\ \A j \in DOMAIN delivered :
       delivered[j].key = NewKeysIn(delivered, j - 1)

\* The callers see ordered delivery: what session_recv returned is a prefix of
\* what was handed to session_send.
Abstract == INSTANCE OrderedDelivery WITH
  sent <- [i \in DOMAIN pkts |-> pkts[i].payload],
  delivered <- [j \in DOMAIN delivered |-> delivered[j].payload]

ImplementsOrderedDelivery == Abstract!Spec

\* Everything handed to session_send is returned by session_recv in the end,
\* across key changes and a full socket buffer, unless something fails.
EventuallyDelivered ==
  \A n \in 1 .. MaxSends :
    Len(pkts) >= n ~> Len(delivered) >= n \/ faults > 0
=============================================================================
