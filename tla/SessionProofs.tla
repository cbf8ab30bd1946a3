---------------------------- MODULE SessionProofs ----------------------------
(***************************************************************************)
(* Theorems about module Session, for every payload set, every bound and   *)
(* every kind of fault.                                                    *)
(* First, what holds whatever goes wrong: types, keystreams, MACs.  Then   *)
(* what the two ends agree on: their sequence numbers count the successful *)
(* calls; the keys in use are those of the latest NEWKEYS; and on a stream *)
(* nobody damages the receiver's direction state is the one each packet    *)
(* was sent with, so that session_recv returns what was handed to          *)
(* session_send, in order.                                                 *)
(***************************************************************************)
EXTENDS Session, SequenceTheorems, FiniteSetTheorems, TLAPS

USE SessionAssumption

(* The operators on ssh_direction_t stay inside the type.                   *)

LEMMA DirectionOps ==
  ASSUME NEW d \in Direction, NEW k \in Nat
  PROVE  /\ SetCipher(d, k) \in Direction
         /\ SetKeys(d, k) \in Direction
         /\ Activate(d) \in Direction
         /\ Advance(d, k) \in Direction
         /\ Count(d) \in Direction
         /\ MacOf(d) \in MacEpochs \cup {0}
         /\ \A e \in SetKeysFailed(d, k) : e \in Direction
<1>1. SetCipher(d, k) \in Direction
  BY DEF Direction, SetCipher
<1>2. SetKeys(d, k) \in Direction
  BY <1>1 DEF Direction, SetKeys
<1>3. Activate(d) \in Direction
  BY DEF Direction, Activate
<1>4. Advance(d, k) \in Direction
  BY DEF Direction, Advance
<1>5. Count(d) \in Direction
  BY DEF Direction, Count
<1>6. MacOf(d) \in MacEpochs \cup {0}
  BY DEF Direction, MacOf
<1>7. \A e \in Direction : Activate(e) \in Direction
  BY DEF Direction, Activate
<1>8. SetKeysFailed(d, k) \subseteq
        {d, SetCipher(d, k), Activate(d), Activate(SetCipher(d, k))}
  BY DEF SetKeysFailed
<1>. QED
  BY <1>1, <1>2, <1>3, <1>4, <1>5, <1>6, <1>7, <1>8

LEMMA FreshType == Fresh \in Direction
BY DEF Fresh, Direction

LEMMA NextKey == \A d \in Direction : d.key + 1 \in Nat
BY DEF Direction

(* The operators on cells, on the receiver's state and on the stream.       *)

LEMMA CellTypes ==
  ASSUME NEW n \in Nat
  PROVE  /\ \A i \in 1 .. n, k \in Nat \ {0} : Cell(i, k) \in CellOf(n)
         /\ \A c \in CellOf(n) :
              /\ Shaped(c, "cut") \in CellOf(n)
              /\ Shaped(c, "split") \in CellOf(n)
              /\ Shaped(c, "flipped") \in CellOf(n)
BY DEF CellOf, Cell, Shaped

\* A type that refers to n packets refers to n + 1 as well.
LEMMA MorePackets ==
  ASSUME NEW n \in Nat
  PROVE  /\ CellOf(n) \subseteq CellOf(n + 1)
         /\ Result(n) \subseteq Result(n + 1)
         /\ ReceiverState(n) \subseteq ReceiverState(n + 1)
BY DEF CellOf, Result, ReceiverState

\* Every update of the sender's state in the module.
LEMMA SenderOps ==
  ASSUME NEW s \in SenderState
  PROVE  /\ \A k \in Nat \ {0} :
              [s EXCEPT !.pc = "writing", !.next = k] \in SenderState
         /\ [s EXCEPT !.next = s.next + 1] \in SenderState
         /\ [s EXCEPT !.early = TRUE] \in SenderState
         /\ \A pc \in {"idle", "written", "install", "closed"} :
              /\ [s EXCEPT !.pc = pc] \in SenderState
              /\ [s EXCEPT !.pc = pc, !.early = FALSE] \in SenderState
<1>1. ASSUME NEW k \in Nat \ {0}
      PROVE  [s EXCEPT !.pc = "writing", !.next = k] \in SenderState
  BY DEF SenderState
<1>2. [s EXCEPT !.next = s.next + 1] \in SenderState
  BY DEF SenderState
<1>3. [s EXCEPT !.early = TRUE] \in SenderState
  BY DEF SenderState
<1>4. ASSUME NEW pc \in {"idle", "written", "install", "closed"}
      PROVE  [s EXCEPT !.pc = pc] \in SenderState
  BY DEF SenderState
<1>5. ASSUME NEW pc \in {"idle", "written", "install", "closed"}
      PROVE  [s EXCEPT !.pc = pc, !.early = FALSE] \in SenderState
  BY DEF SenderState
<1>. QED
  BY <1>1, <1>2, <1>3, <1>4, <1>5

\* RecvBody's update of the receiver's state.
LEMMA NextPart ==
  ASSUME NEW n \in Nat, rcv \in ReceiverState(n), NEW b \in BOOLEAN,
         NEW c \in {"body", "mac", "extract"},
         rcv' = [rcv EXCEPT !.part = rcv.part + 1, !.intact = b, !.pc = c]
  PROVE  rcv' \in ReceiverState(n) /\ rcv'.pid = rcv.pid
<1>1. rcv.part + 1 \in Nat \ {0} /\ rcv.pid \in 0 .. n
  BY DEF ReceiverState
<1>2. rcv' = [pc |-> c, pid |-> rcv.pid, part |-> rcv.part + 1, intact |-> b,
              kex |-> rcv.kex]
  BY DEF ReceiverState
<1>. QED
  BY <1>1, <1>2 DEF ReceiverState

\* The fields after an installation.
LEMMA InstallFields ==
  ASSUME NEW n, rcv \in ReceiverState(n), InstallIn \/ InstallInFail
  PROVE  /\ rcv'.pid = rcv.pid /\ rcv'.part = rcv.part
         /\ rcv'.intact = rcv.intact /\ rcv'.pc \in {"head", "closed"}
         /\ InstallIn => rcv'.pc = "head"
         /\ InstallInFail /\ Disconnect => rcv'.pc = "closed"
BY DEF InstallIn, InstallInFail, ReceiverState

LEMMA ReceiverAtType ==
  ASSUME NEW n \in Nat, rcv \in ReceiverState(n),
         NEW pc \in {"head", "short", "junk", "install", "hung", "closed"},
         ReceiverAt(pc)
  PROVE  rcv' \in ReceiverState(n) /\ rcv'.pc = pc
BY DEF ReceiverAt, ReceiverState

LEMMA ReturnErrorType ==
  ASSUME NEW n \in Nat, rcv \in ReceiverState(n), ReturnError
  PROVE  rcv' \in ReceiverState(n) /\ rcv'.pc \in {"closed", "head"}
BY ReceiverAtType DEF ReturnError

LEMMA TakeType ==
  ASSUME NEW n \in Nat, wire \in Seq(CellOf(n)), wire # <<>>, Take
  PROVE  wire' \in Seq(CellOf(n))
<1>1. Head(wire) \in CellOf(n) /\ Tail(wire) \in Seq(CellOf(n))
  OBVIOUS
<1>2. <<Shaped(Head(wire), "split")>> \in Seq(CellOf(n))
  BY <1>1, CellTypes
<1>3. <<Shaped(Head(wire), "split")>> \o Tail(wire) \in Seq(CellOf(n))
  BY <1>1, <1>2, ConcatProperties
<1>. QED
  BY <1>1, <1>3 DEF Take

LEMMA DerailType ==
  ASSUME NEW n \in Nat, wire \in Seq(CellOf(n)), wire # <<>>,
         rcv \in ReceiverState(n), NEW i, NEW k, Derail(i, k)
  PROVE  /\ wire' \in Seq(CellOf(n))
         /\ rcv' \in ReceiverState(n) /\ rcv'.pc \in {"short", "junk"}
<1>1. Tail(wire) \in Seq(CellOf(n))
  OBVIOUS
<1>. QED
  BY <1>1, TakeType, ReceiverAtType DEF Derail

LEMMA ReturnType ==
  ASSUME NEW n \in Nat, rcv \in ReceiverState(n), in \in Direction,
         delivered \in Seq(Result(n)), NEW i \in 0 .. n, NEW p \in Payload,
         Return(i, p)
  PROVE  /\ delivered' \in Seq(Result(n))
         /\ rcv' \in ReceiverState(n) /\ rcv'.pc \in {"install", "head"}
<1>1. MacOf(in) \in MacEpochs \cup {0} /\ in.key \in Nat
  BY DirectionOps DEF Direction
<1>2. [pid |-> i, payload |-> p, mac |-> MacOf(in), key |-> in.key] \in Result(n)
  BY <1>1 DEF Result
<1>. QED
  BY <1>2, ReceiverAtType DEF Return

(* Type correctness needs to know that a packet is in hand where the code   *)
(* works on one.                                                            *)

PacketInHand ==
  /\ snd.pc \in {"writing", "written"} => Len(pkts) > 0
  /\ rcv.pc \in {"body", "mac", "extract"} => rcv.pid > 0

TypeCore == TypeOK /\ PacketInHand

LEMMA InitCore == Init => TypeCore
BY FreshType DEF Init, TypeCore, TypeOK, PacketInHand, SenderState, ReceiverState

(* Steps of the sender and of the line: the receiver's half is unchanged.   *)

LEMMA SendBeginType ==
  ASSUME TypeCore, NEW p \in Payload, SendBegin(p)
  PROVE  TypeCore'
<1>. DEFINE call == [payload |-> p, dir |-> out, done |-> FALSE]
            n == Len(pkts)
<1>1. call \in SendCall
  BY DEF TypeCore, TypeOK, SendCall
<1>2. pkts' \in Seq(SendCall) /\ Len(pkts') = n + 1 /\ n \in Nat
  BY <1>1 DEF TypeCore, TypeOK, SendBegin
<1>3. out' \in Direction /\ in' \in Direction
  <2>1. Blocks[p] \in Nat
    OBVIOUS
  <2>. QED
    BY <2>1, DirectionOps DEF TypeCore, TypeOK, SendBegin
<1>4. snd' \in SenderState
  <2>1. snd \in SenderState /\ snd' = [snd EXCEPT !.pc = "writing", !.next = 1]
    BY DEF TypeCore, TypeOK, SendBegin
  <2>2. \A k \in Nat \ {0} :
          [snd EXCEPT !.pc = "writing", !.next = k] \in SenderState
    BY <2>1, SenderOps
  <2>3. 1 \in Nat \ {0}
    OBVIOUS
  <2>4. [snd EXCEPT !.pc = "writing", !.next = 1] \in SenderState
    BY <2>2, <2>3
  <2>. QED
    BY <2>1, <2>4
<1>5. rcv' \in ReceiverState(n + 1)
  BY <1>2, MorePackets DEF TypeCore, TypeOK, SendBegin
<1>6. wire' \in Seq(CellOf(n + 1))
  BY <1>2, MorePackets, SeqMonotonic DEF TypeCore, TypeOK, SendBegin
<1>7. delivered' \in Seq(Result(n + 1))
  BY <1>2, MorePackets, SeqMonotonic DEF TypeCore, TypeOK, SendBegin
<1>8. PacketInHand'
  BY <1>2 DEF TypeCore, PacketInHand, SendBegin
<1>9. faults' \in Nat
  BY DEF TypeCore, TypeOK, SendBegin
<1>. HIDE DEF n
<1>. QED
  BY <1>2, <1>3, <1>4, <1>5, <1>6, <1>7, <1>8, <1>9 DEF TypeCore, TypeOK

LEMMA WriteType ==
  ASSUME TypeCore, WriteCell \/ WriteFail
  PROVE  TypeCore'
<1>. DEFINE n == Len(pkts)
<1>1. n \in Nat \ {0} /\ snd.next \in Nat \ {0} /\ snd \in SenderState
  BY DEF TypeCore, TypeOK, PacketInHand, WriteCell, WriteFail, SenderState
<1>2. /\ Cell(n, snd.next) \in CellOf(n)
      /\ Shaped(Cell(n, snd.next), "cut") \in CellOf(n)
  BY <1>1, CellTypes
<1>3. wire' \in Seq(CellOf(n))
  <2>1. wire \in Seq(CellOf(n))
    BY DEF TypeCore, TypeOK
  <2>2. \/ wire' = wire
        \/ wire' = Append(wire, Cell(n, snd.next))
        \/ wire' = Append(wire, Shaped(Cell(n, snd.next), "cut"))
    BY DEF WriteCell, WriteFail
  <2>3. \A c \in CellOf(n) : Append(wire, c) \in Seq(CellOf(n))
    BY <2>1, AppendProperties
  <2>. QED
    BY <2>1, <2>2, <2>3, <1>2
<1>4. snd' \in SenderState /\ (snd'.pc = "writing" => Len(pkts) > 0)
  <2>1. CASE WriteCell
    <3>1. /\ [snd EXCEPT !.pc = "written"] \in SenderState
          /\ [snd EXCEPT !.next = @ + 1] \in SenderState
      BY <1>1 DEF SenderState
    <3>2. snd' \in {[snd EXCEPT !.pc = "written"], [snd EXCEPT !.next = @ + 1]}
      BY <2>1 DEF WriteCell
    <3>3. n > 0
      BY <1>1
    <3>. QED
      BY <3>1, <3>2, <3>3
  <2>2. CASE WriteFail
    BY <2>2, <1>1 DEF WriteFail, SenderState
  <2>. QED
    BY <2>1, <2>2
<1>5. out' \in Direction /\ in' \in Direction /\ faults' \in Nat
  BY DEF TypeCore, TypeOK, WriteCell, WriteFail, AfterFailure, Faulted
<1>6. UNCHANGED <<pkts, rcv, delivered>>
  BY DEF WriteCell, WriteFail
<1>. HIDE DEF n
<1>. QED
  BY <1>1, <1>3, <1>4, <1>5, <1>6 DEF TypeCore, TypeOK, PacketInHand, n

LEMMA SendReturnType ==
  ASSUME TypeCore, SendReturn
  PROVE  TypeCore'
<1>. DEFINE n == Len(pkts)
<1>1. n \in 1 .. Len(pkts) /\ pkts \in Seq(SendCall) /\ snd \in SenderState
  BY DEF TypeCore, TypeOK, PacketInHand, SendReturn
<1>2. [pkts[n] EXCEPT !.done = TRUE] \in SendCall
  <2>1. \A c \in SendCall : [c EXCEPT !.done = TRUE] \in SendCall
    BY DEF SendCall
  <2>2. pkts[n] \in SendCall
    BY <1>1, ElementOfSeq
  <2>. QED
    BY <2>1, <2>2
<1>3. pkts' = [pkts EXCEPT ![n] = [pkts[n] EXCEPT !.done = TRUE]]
  BY DEF SendReturn
<1>4. pkts' \in Seq(SendCall) /\ Len(pkts') = Len(pkts)
  BY <1>1, <1>2, <1>3, ExceptSeq
<1>5. snd' \in SenderState
  BY <1>1 DEF SendReturn, SenderState
<1>6. out' \in Direction
  <2>1. 0 \in Nat
    OBVIOUS
  <2>. QED
    BY <2>1, DirectionOps DEF TypeCore, TypeOK, SendReturn
<1>7. PacketInHand'
  BY <1>1, <1>4 DEF TypeCore, PacketInHand, SendReturn
<1>. QED
  BY <1>4, <1>5, <1>6, <1>7 DEF TypeCore, TypeOK, SendReturn

LEMMA SenderKeysType ==
  ASSUME TypeCore, InstallEarly \/ InstallOut \/ InstallOutFail \/ Close
  PROVE  TypeCore'
<1>1. /\ out \in Direction /\ snd \in SenderState
      /\ snd.kex \in Nat /\ snd.kex + 1 \in Nat
  BY DEF TypeCore, TypeOK, SenderState
<1>2. out' \in Direction
  BY <1>1, DirectionOps
  DEF InstallEarly, InstallOut, InstallOutFail, Close, TypeCore, TypeOK
<1>3. snd' \in SenderState /\ snd'.pc \notin {"writing", "written"}
  <2>1. CASE InstallEarly
    BY <2>1, <1>1 DEF InstallEarly, SenderState
  <2>2. CASE InstallOut
    BY <2>2, <1>1 DEF InstallOut, SenderState
  <2>3. CASE InstallOutFail
    BY <2>3, <1>1 DEF InstallOutFail, SenderState
  <2>4. CASE Close
    BY <2>4, <1>1 DEF Close, SenderState
  <2>. QED
    BY <2>1, <2>2, <2>3, <2>4
<1>4. faults' \in Nat /\ UNCHANGED <<in, rcv, wire, pkts, delivered>>
  BY DEF InstallEarly, InstallOut, InstallOutFail, Close, Faulted, TypeCore, TypeOK
<1>. QED
  BY <1>2, <1>3, <1>4 DEF TypeCore, TypeOK, PacketInHand

LEMMA FlipType ==
  ASSUME TypeCore, Flip
  PROVE  TypeCore'
<1>1. wire \in Seq(CellOf(Len(pkts))) /\ Len(pkts) \in Nat
  BY DEF TypeCore, TypeOK
<1>2. PICK k \in DOMAIN wire : wire' = [wire EXCEPT ![k].shape = "flipped"]
  BY DEF Flip
<1>3. wire[k] \in CellOf(Len(pkts)) /\ k \in 1 .. Len(wire)
  BY <1>1
<1>4. Shaped(wire[k], "flipped") \in CellOf(Len(pkts))
  BY <1>1, <1>3, CellTypes
<1>5. wire' = [wire EXCEPT ![k] = Shaped(wire[k], "flipped")]
  BY <1>2 DEF Shaped
<1>6. wire' \in Seq(CellOf(Len(pkts)))
  BY <1>1, <1>3, <1>4, <1>5, ExceptSeq
<1>. QED
  BY <1>6 DEF Flip, Faulted, TypeCore, TypeOK, PacketInHand

(* Steps of the receiver: the sender's half is unchanged.                   *)

LEMMA RecvHeadType ==
  ASSUME TypeCore, RecvHead
  PROVE  TypeCore'
<1>. DEFINE n == Len(pkts)
<1>1. /\ n \in Nat /\ wire \in Seq(CellOf(n)) /\ wire # <<>>
      /\ rcv \in ReceiverState(n) /\ in \in Direction
  BY DEF TypeCore, TypeOK, RecvHead
<1>2. Head(wire).pid \in 1 .. n /\ Tail(wire) \in Seq(CellOf(n))
  <2>1. Head(wire) \in CellOf(n) /\ Tail(wire) \in Seq(CellOf(n))
    BY <1>1, HeadTailProperties
  <2>. QED
    BY <2>1 DEF CellOf
<1>3. in' \in Direction
  BY <1>1, DirectionOps DEF RecvHead
<1>4. wire' \in Seq(CellOf(n))
  BY <1>1, <1>2, DerailType DEF RecvHead
<1>5. /\ rcv' \in ReceiverState(n)
      /\ rcv'.pc \in {"body", "mac", "extract"} => rcv'.pid > 0
  <2>1. ASSUME NEW pc \in {"body", "mac", "extract"}, NEW b \in BOOLEAN,
               rcv' = [rcv EXCEPT !.pc = pc, !.pid = Head(wire).pid,
                                  !.part = 2, !.intact = b]
        PROVE  rcv' \in ReceiverState(n) /\ rcv'.pid > 0
    <3>1. rcv' = [pc |-> pc, pid |-> Head(wire).pid, part |-> 2, intact |-> b,
                  kex |-> rcv.kex]
      BY <2>1, <1>1 DEF ReceiverState
    <3>2. rcv.kex \in Nat /\ 2 \in Nat \ {0}
      BY <1>1 DEF ReceiverState
    <3>3. Head(wire).pid \in 0 .. n /\ Head(wire).pid > 0
      BY <1>1, <1>2
    <3>. QED
      BY <3>1, <3>2, <3>3 DEF ReceiverState
  <2>2. ASSUME ReturnError
        PROVE  /\ rcv' \in ReceiverState(n)
               /\ rcv'.pc \notin {"body", "mac", "extract"}
    BY <2>2, <1>1, ReturnErrorType
  <2>3. ASSUME NEW i, NEW k, Derail(i, k)
        PROVE  /\ rcv' \in ReceiverState(n)
               /\ rcv'.pc \notin {"body", "mac", "extract"}
    BY <2>3, <1>1, DerailType
  <2>. QED
    BY <2>1, <2>2, <2>3 DEF RecvHead
<1>6. faults' \in Nat /\ UNCHANGED <<out, snd, pkts, delivered>>
  BY DEF RecvHead, Faulted, TypeCore, TypeOK
<1>. QED
  BY <1>3, <1>4, <1>5, <1>6 DEF TypeCore, TypeOK, PacketInHand

LEMMA RecvBodyType ==
  ASSUME TypeCore, RecvBody
  PROVE  TypeCore'
<1>. DEFINE n == Len(pkts)
<1>1. /\ n \in Nat /\ wire \in Seq(CellOf(n)) /\ wire # <<>>
      /\ rcv \in ReceiverState(n) /\ in \in Direction /\ rcv.pid > 0
  BY DEF TypeCore, TypeOK, PacketInHand, RecvBody
<1>2. Tail(wire) \in Seq(CellOf(n))
  BY <1>1, HeadTailProperties
<1>3. rcv.part - 1 \in Nat
  BY <1>1 DEF ReceiverState
<1>4. in' \in Direction
  BY <1>1, <1>3, DirectionOps DEF RecvBody, RestBlocks
<1>5. wire' \in Seq(CellOf(n))
  BY <1>1, <1>2, DerailType DEF RecvBody
<1>6. /\ rcv' \in ReceiverState(n)
      /\ rcv'.pc \in {"body", "mac", "extract"} => rcv'.pid > 0
  <2>1. ASSUME NEW pc \in {"body", "mac", "extract"}, NEW b \in BOOLEAN,
               rcv' = [rcv EXCEPT !.part = rcv.part + 1, !.intact = b, !.pc = pc]
        PROVE  rcv' \in ReceiverState(n) /\ rcv'.pid > 0
    <3>1. rcv' \in ReceiverState(n) /\ rcv'.pid = rcv.pid
      BY <2>1, <1>1, NextPart
    <3>. QED
      BY <3>1, <1>1
  <2>2. ASSUME Derail(rcv.pid, rcv.part)
        PROVE  /\ rcv' \in ReceiverState(n)
               /\ rcv'.pc \notin {"body", "mac", "extract"}
    BY <2>2, <1>1, DerailType
  <2>3. (rcv.intact /\ Head(wire).shape = "whole") \in BOOLEAN
    OBVIOUS
  <2>. QED
    BY <2>1, <2>2, <2>3 DEF RecvBody
<1>7. UNCHANGED <<out, snd, pkts, delivered, faults>>
  BY DEF RecvBody
<1>. QED
  BY <1>4, <1>5, <1>6, <1>7 DEF TypeCore, TypeOK, PacketInHand

LEMMA RecvMacType ==
  ASSUME TypeCore, RecvMac
  PROVE  TypeCore'
<1>. DEFINE n == Len(pkts)
<1>1. /\ n \in Nat /\ wire \in Seq(CellOf(n)) /\ wire # <<>>
      /\ rcv \in ReceiverState(n) /\ in \in Direction /\ rcv.pid > 0
  BY DEF TypeCore, TypeOK, PacketInHand, RecvMac
<1>2. Tail(wire) \in Seq(CellOf(n))
  BY <1>1, HeadTailProperties
<1>3. wire' \in Seq(CellOf(n)) /\ in' = in
  BY <1>1, <1>2, DerailType DEF RecvMac, MacFailed
<1>4. /\ rcv' \in ReceiverState(n)
      /\ rcv'.pc \in {"body", "mac", "extract"} => rcv'.pid > 0
  <2>1. ASSUME ReceiverAt("extract")
        PROVE  rcv' \in ReceiverState(n) /\ rcv'.pid > 0
    BY <2>1, <1>1 DEF ReceiverState, ReceiverAt
  <2>2. ASSUME ReturnError
        PROVE  /\ rcv' \in ReceiverState(n)
               /\ rcv'.pc \notin {"body", "mac", "extract"}
    BY <2>2, <1>1, ReturnErrorType
  <2>3. ASSUME Derail(rcv.pid, rcv.part)
        PROVE  /\ rcv' \in ReceiverState(n)
               /\ rcv'.pc \notin {"body", "mac", "extract"}
    BY <2>3, <1>1, DerailType
  <2>. QED
    BY <2>1, <2>2, <2>3 DEF RecvMac, MacFailed
<1>5. UNCHANGED <<out, snd, pkts, delivered, faults>>
  BY DEF RecvMac
<1>. QED
  BY <1>1, <1>3, <1>4, <1>5 DEF TypeCore, TypeOK, PacketInHand

\* Whatever session_recv returns from arbitrary bytes has a type.
LEMMA UnverifiedType ==
  ASSUME NEW n \in Nat, rcv \in ReceiverState(n), in \in Direction,
         delivered \in Seq(Result(n)), NEW d \in Direction,
         Refused(d) \/ Accepted(d)
  PROVE  /\ in' \in Direction /\ delivered' \in Seq(Result(n))
         /\ rcv' \in ReceiverState(n)
         /\ rcv'.pc \notin {"body", "mac", "extract"}
<1>1. CASE Refused(d)
  BY <1>1, ReturnErrorType DEF Refused
<1>2. ASSUME in' = Count(d), NEW p \in Payload, Return(0, p)
      PROVE  /\ in' \in Direction /\ delivered' \in Seq(Result(n))
             /\ rcv' \in ReceiverState(n)
             /\ rcv'.pc \notin {"body", "mac", "extract"}
  <2>1. 0 \in 0 .. n
    OBVIOUS
  <2>2. 0 \in Nat
    OBVIOUS
  <2>3. Count(d) \in Direction
    BY <2>2, DirectionOps
  <2>. QED
    BY <1>2, <2>1, <2>3, ReturnType
<1>3. CASE in' = d /\ ReceiverAt("hung") /\ UNCHANGED delivered
  BY <1>3, ReceiverAtType
<1>. QED
  BY <1>1, <1>2, <1>3 DEF Accepted

LEMMA JunkType ==
  ASSUME TypeCore, RecvDamaged \/ JunkEnd
  PROVE  TypeCore'
<1>. DEFINE n == Len(pkts)
<1>1. /\ n \in Nat /\ rcv \in ReceiverState(n) /\ in \in Direction
      /\ delivered \in Seq(Result(n))
  BY DEF TypeCore, TypeOK
<1>2. \E d \in Direction : Refused(d) \/ Accepted(d)
  BY <1>1, DirectionOps DEF RecvDamaged, JunkEnd
<1>3. /\ in' \in Direction /\ delivered' \in Seq(Result(n))
      /\ rcv' \in ReceiverState(n)
      /\ rcv'.pc \notin {"body", "mac", "extract"}
  BY <1>1, <1>2, UnverifiedType
<1>4. UNCHANGED <<out, snd, wire, pkts, faults>>
  BY DEF RecvDamaged, JunkEnd
<1>. QED
  BY <1>3, <1>4 DEF TypeCore, TypeOK, PacketInHand

LEMMA JunkReadType ==
  ASSUME TypeCore, JunkRead
  PROVE  TypeCore'
<1>. DEFINE n == Len(pkts)
<1>1. /\ n \in Nat /\ wire \in Seq(CellOf(n)) /\ wire # <<>>
      /\ rcv \in ReceiverState(n) /\ Take /\ ReceiverAt("junk")
  BY DEF TypeCore, TypeOK, JunkRead
<1>2. wire' \in Seq(CellOf(n))
  BY <1>1, TakeType
<1>3. rcv' \in ReceiverState(n) /\ rcv'.pc = "junk"
  BY <1>1, ReceiverAtType
<1>. QED
  BY <1>2, <1>3 DEF TypeCore, TypeOK, PacketInHand, JunkRead

LEMMA RecvExtractType ==
  ASSUME TypeCore, RecvExtract
  PROVE  TypeCore'
<1>. DEFINE n == Len(pkts)
<1>1. /\ n \in Nat /\ rcv \in ReceiverState(n) /\ in \in Direction
      /\ delivered \in Seq(Result(n)) /\ rcv.pid > 0 /\ pkts \in Seq(SendCall)
  BY DEF TypeCore, TypeOK, PacketInHand, RecvExtract
<1>2. rcv.pid \in 1 .. n /\ rcv.pid \in 0 .. n
  BY <1>1 DEF ReceiverState
<1>3. pkts[rcv.pid].payload \in Payload
  <2>1. pkts[rcv.pid] \in SendCall
    BY <1>1, <1>2, ElementOfSeq
  <2>. QED
    BY <2>1 DEF SendCall
<1>4. in' \in Direction
  <2>1. 0 \in Nat
    OBVIOUS
  <2>2. Count(in) \in Direction
    BY <2>1, <1>1, DirectionOps
  <2>. QED
    BY <2>2, <1>1 DEF RecvExtract
<1>5. /\ delivered' \in Seq(Result(n)) /\ rcv' \in ReceiverState(n)
      /\ rcv'.pc \notin {"body", "mac", "extract"}
  <2>1. CASE Return(rcv.pid, pkts[rcv.pid].payload)
    BY <2>1, <1>1, <1>2, <1>3, ReturnType
  <2>2. CASE ReturnError /\ UNCHANGED delivered
    BY <2>2, <1>1, ReturnErrorType
  <2>. QED
    BY <2>1, <2>2 DEF RecvExtract
<1>6. faults' \in Nat /\ UNCHANGED <<out, snd, wire, pkts>>
  BY DEF RecvExtract, Faulted, TypeCore, TypeOK
<1>. QED
  BY <1>4, <1>5, <1>6 DEF TypeCore, TypeOK, PacketInHand

LEMMA ReceiverEndsType ==
  ASSUME TypeCore, RecvEof \/ InstallIn \/ InstallInFail
  PROVE  TypeCore'
<1>. DEFINE n == Len(pkts)
<1>1. /\ n \in Nat /\ rcv \in ReceiverState(n) /\ in \in Direction
      /\ rcv.kex \in Nat /\ rcv.kex + 1 \in Nat
  BY DEF TypeCore, TypeOK, ReceiverState
<1>2. \/ ReceiverAt("closed")
      \/ \E pc \in {"closed", "head"} :
           rcv' = [rcv EXCEPT !.pc = pc, !.kex = rcv.kex + 1]
  BY DEF RecvEof, InstallIn, InstallInFail
<1>3. rcv' \in ReceiverState(n) /\ rcv'.pc \notin {"body", "mac", "extract"}
  <2>1. ASSUME NEW pc \in {"closed", "head"},
               rcv' = [rcv EXCEPT !.pc = pc, !.kex = rcv.kex + 1]
        PROVE  rcv' \in ReceiverState(n) /\ rcv'.pc = pc
    BY <1>1, <2>1 DEF ReceiverState
  <2>. QED
    BY <1>1, <1>2, <2>1, ReceiverAtType
<1>4. in' \in Direction
  BY <1>1, DirectionOps DEF RecvEof, InstallIn, InstallInFail
<1>5. faults' \in Nat /\ UNCHANGED <<out, snd, wire, pkts, delivered>>
  BY DEF RecvEof, InstallIn, InstallInFail, Faulted, TypeCore, TypeOK
<1>. QED
  BY <1>3, <1>4, <1>5 DEF TypeCore, TypeOK, PacketInHand

LEMMA NextCore == TypeCore /\ [Next]_vars => TypeCore'
<1>. SUFFICES ASSUME TypeCore, [Next]_vars
              PROVE  TypeCore'
  OBVIOUS
<1>1. CASE UNCHANGED vars
  BY <1>1 DEF vars, TypeCore, TypeOK, PacketInHand
<1>2. CASE \E p \in Payload : SendBegin(p)
  BY <1>2, SendBeginType
<1>3. CASE Sender \/ InstallEarly \/ Close
  BY <1>3, WriteType, SendReturnType, SenderKeysType DEF Sender
<1>4. CASE Receiver
  BY <1>4, RecvHeadType, RecvBodyType, RecvMacType, RecvExtractType, JunkType,
     JunkReadType, ReceiverEndsType
  DEF Receiver
<1>5. CASE Flip
  BY <1>5, FlipType
<1>. QED
  BY <1>1, <1>2, <1>3, <1>4, <1>5 DEF Next, Ended

(* The key exchanges counted are ahead of the keys in use: they differ only *)
(* where an exchange failed, and then the callers that disconnect are gone. *)

KexAhead ==
  /\ out.key <= snd.kex /\ in.key <= rcv.kex
  /\ Disconnect => /\ snd.pc # "closed" => snd.kex = out.key
                   /\ rcv.pc # "closed" => rcv.kex = in.key

TypeInv == TypeCore /\ KexAhead

LEMMA InitType == Init => TypeInv
BY InitCore DEF Init, TypeInv, KexAhead, Fresh

\* What each operator does to the key of a direction.
LEMMA KeysOf ==
  ASSUME NEW d \in Direction, NEW k \in Nat
  PROVE  /\ SetCipher(d, k).key = k
         /\ SetKeys(d, k).key = k
         /\ Activate(d).key = d.key /\ Activate(d).ctr = d.ctr
         /\ Advance(d, k).key = d.key
         /\ Count(d).key = d.key
         /\ \A e \in SetKeysFailed(d, k) :
              \/ e.key = k
              \/ e.key = d.key /\ e.ctr = d.ctr
<1>1. SetCipher(d, k) \in Direction
  BY DirectionOps
<1>2. \A e \in Direction : Activate(e).key = e.key /\ Activate(e).ctr = e.ctr
  BY DEF Direction, Activate
<1>3. SetCipher(d, k).key = k
  BY DEF Direction, SetCipher
<1>4. SetKeys(d, k).key = k
  BY <1>1, <1>3 DEF Direction, SetKeys
<1>5. Advance(d, k).key = d.key
  BY DEF Direction, Advance
<1>6. Count(d).key = d.key
  BY DEF Direction, Count
<1>7. ASSUME NEW e \in SetKeysFailed(d, k)
      PROVE  e.key = k \/ (e.key = d.key /\ e.ctr = d.ctr)
  <2>1. e \in {d, SetCipher(d, k), Activate(d), Activate(SetCipher(d, k))}
    BY DEF SetKeysFailed
  <2>. QED
    BY <2>1, <1>1, <1>2, <1>3
<1>. QED
  BY <1>2, <1>3, <1>4, <1>5, <1>6, <1>7

LEMMA KexSender ==
  ASSUME TypeCore, KexAhead, [Next]_vars
  PROVE  /\ out'.key <= snd'.kex
         /\ Disconnect => (snd'.pc # "closed" => snd'.kex = out'.key)
<1>1. /\ out \in Direction /\ snd \in SenderState /\ out.key \in Nat
      /\ snd.kex \in Nat /\ snd.kex + 1 \in Nat
  BY DEF TypeCore, TypeOK, Direction, SenderState
<1>2. ASSUME NEW p \in Payload, SendBegin(p)
      PROVE  out'.key = out.key /\ snd'.kex = snd.kex /\ snd.pc # "closed"
  <2>1. Blocks[p] \in Nat
    OBVIOUS
  <2>. QED
    BY <1>1, <1>2, <2>1, KeysOf DEF SendBegin, SenderState
<1>3. ASSUME WriteCell \/ WriteFail \/ Close
      PROVE  out'.key = out.key /\ snd'.kex = snd.kex /\ snd.pc # "closed"
  BY <1>1, <1>3 DEF WriteCell, WriteFail, AfterFailure, Close, SenderState
<1>4. ASSUME SendReturn
      PROVE  out'.key = out.key /\ snd'.kex = snd.kex /\ snd.pc # "closed"
  <2>1. Count(out).key = out.key
    BY <1>1, KeysOf
  <2>. QED
    BY <1>1, <1>4, <2>1 DEF SendReturn, SenderState
<1>5. ASSUME InstallEarly
      PROVE  out'.key = snd.kex + 1 /\ snd'.kex = snd.kex + 1
  BY <1>1, <1>5, KeysOf DEF InstallEarly, SenderState
<1>6. ASSUME InstallOut
      PROVE  /\ snd.pc # "closed"
             /\ \/ out'.key = out.key /\ snd'.kex = snd.kex
                \/ out'.key = snd.kex + 1 /\ snd'.kex = snd.kex + 1
  <2>1. /\ SetKeys(out, snd.kex + 1) \in Direction
        /\ SetKeys(out, snd.kex + 1).key = snd.kex + 1
    <3>1. SetKeys(out, snd.kex + 1) \in Direction
      BY <1>1, DirectionOps
    <3>2. SetKeys(out, snd.kex + 1).key = snd.kex + 1
      BY <1>1, KeysOf
    <3>. QED
      BY <3>1, <3>2
  <2>2. /\ Activate(out).key = out.key
        /\ Activate(SetKeys(out, snd.kex + 1)).key = snd.kex + 1
    BY <1>1, <2>1, KeysOf
  <2>. QED
    BY <1>1, <1>6, <2>2 DEF InstallOut, SenderState
<1>7. ASSUME InstallOutFail
      PROVE  /\ out'.key \in {out.key, snd.kex + 1} /\ snd'.kex = snd.kex + 1
             /\ Disconnect => snd'.pc = "closed"
  <2>1. out'.key \in {out.key, snd.kex + 1}
    BY <1>1, <1>7, KeysOf DEF InstallOutFail
  <2>. QED
    BY <1>1, <1>7, <2>1 DEF InstallOutFail, SenderState
<1>8. ASSUME Receiver \/ Flip \/ UNCHANGED vars
      PROVE  UNCHANGED <<out, snd>>
  BY <1>8 DEF Receiver, RecvHead, RecvBody, RecvMac, RecvExtract, RecvDamaged,
     JunkRead, JunkEnd, RecvEof, InstallIn, InstallInFail, Flip, vars
<1>9. \/ /\ out'.key = out.key /\ snd'.kex = snd.kex
         /\ snd.pc # "closed" \/ snd'.pc = snd.pc
      \/ out'.key = snd.kex + 1 /\ snd'.kex = snd.kex + 1
      \/ /\ out'.key \in {out.key, snd.kex + 1} /\ snd'.kex = snd.kex + 1
         /\ Disconnect => snd'.pc = "closed"
  BY <1>2, <1>3, <1>4, <1>5, <1>6, <1>7, <1>8, Zenon DEF Next, Sender, Ended
<1>. QED
  BY <1>1, <1>9 DEF KexAhead

LEMMA KexReceiver ==
  ASSUME TypeCore, KexAhead, [Next]_vars
  PROVE  /\ in'.key <= rcv'.kex
         /\ Disconnect => (rcv'.pc # "closed" => rcv'.kex = in'.key)
<1>1. /\ in \in Direction /\ rcv \in ReceiverState(Len(pkts)) /\ in.key \in Nat
      /\ rcv.kex \in Nat /\ rcv.kex + 1 \in Nat /\ rcv.part - 1 \in Nat
  BY DEF TypeCore, TypeOK, Direction, ReceiverState
<1>2. \A pc : ReceiverAt(pc) => rcv'.kex = rcv.kex
  BY <1>1 DEF ReceiverAt, ReceiverState
<1>3. /\ \A i, k : Derail(i, k) => rcv'.kex = rcv.kex
      /\ ReturnError => rcv'.kex = rcv.kex
      /\ \A i, p : Return(i, p) => rcv'.kex = rcv.kex
  BY <1>2 DEF Derail, ReturnError, Return
<1>4. /\ \A k \in Nat : Advance(in, k) \in Direction /\ Advance(in, k).key = in.key
      /\ \A d \in Direction : Count(d).key = d.key
  BY <1>1, KeysOf, DirectionOps
<1>5. ASSUME RecvHead
      PROVE  in'.key = in.key /\ rcv'.kex = rcv.kex /\ rcv.pc # "closed"
  BY <1>1, <1>3, <1>4, <1>5 DEF RecvHead, ReceiverState
<1>6. ASSUME RecvBody
      PROVE  in'.key = in.key /\ rcv'.kex = rcv.kex /\ rcv.pc # "closed"
  BY <1>1, <1>3, <1>4, <1>6 DEF RecvBody, RestBlocks, ReceiverState
<1>7. ASSUME RecvMac
      PROVE  in'.key = in.key /\ rcv'.kex = rcv.kex /\ rcv.pc # "closed"
  BY <1>2, <1>3, <1>7 DEF RecvMac, MacFailed
<1>8. ASSUME RecvExtract \/ RecvDamaged
      PROVE  in'.key = in.key /\ rcv'.kex = rcv.kex /\ rcv.pc # "closed"
  BY <1>1, <1>2, <1>3, <1>4, <1>8 DEF RecvExtract, RecvDamaged, Refused, Accepted
<1>9. ASSUME JunkEnd
      PROVE  in'.key = in.key /\ rcv'.kex = rcv.kex /\ rcv.pc # "closed"
  <2>1. PICK n \in 0 .. MaxJunk : LET d == Advance(in, n) IN
               Refused(d) \/ (MacOf(in) = 0 /\ Accepted(d))
    BY <1>9 DEF JunkEnd
  <2>2. n \in Nat
    OBVIOUS
  <2>. QED
    BY <1>2, <1>3, <1>4, <1>9, <2>1, <2>2 DEF JunkEnd, Refused, Accepted
<1>10. ASSUME JunkRead \/ RecvEof
      PROVE  in'.key = in.key /\ rcv'.kex = rcv.kex /\ rcv.pc # "closed"
  BY <1>2, <1>10 DEF JunkRead, RecvEof
<1>11. ASSUME InstallIn
      PROVE  in'.key = rcv.kex + 1 /\ rcv'.kex = rcv.kex + 1
  <2>1. /\ SetKeys(in, rcv.kex + 1) \in Direction
        /\ SetKeys(in, rcv.kex + 1).key = rcv.kex + 1
    <3>1. SetKeys(in, rcv.kex + 1) \in Direction
      BY <1>1, DirectionOps
    <3>2. SetKeys(in, rcv.kex + 1).key = rcv.kex + 1
      BY <1>1, KeysOf
    <3>. QED
      BY <3>1, <3>2
  <2>2. Activate(SetKeys(in, rcv.kex + 1)).key = rcv.kex + 1
    BY <2>1, KeysOf, <1>1
  <2>. QED
    BY <1>1, <1>11, <2>2 DEF InstallIn, ReceiverState
<1>12. ASSUME InstallInFail
      PROVE  /\ in'.key \in {in.key, rcv.kex + 1} /\ rcv'.kex = rcv.kex + 1
             /\ Disconnect => rcv'.pc = "closed"
  <2>1. in'.key \in {in.key, rcv.kex + 1}
    BY <1>1, <1>12, KeysOf DEF InstallInFail
  <2>. QED
    BY <1>1, <1>12, <2>1 DEF InstallInFail, ReceiverState
<1>13. ASSUME (\E p \in Payload : SendBegin(p)) \/ Sender \/ InstallEarly \/ Close
              \/ Flip \/ UNCHANGED vars
      PROVE  UNCHANGED <<in, rcv>>
  BY <1>13 DEF Sender, SendBegin, WriteCell, WriteFail, SendReturn, InstallEarly,
     InstallOut, InstallOutFail, Close, Flip, vars
<1>14. \/ /\ in'.key = in.key /\ rcv'.kex = rcv.kex
          /\ rcv.pc # "closed" \/ rcv'.pc = rcv.pc
       \/ in'.key = rcv.kex + 1 /\ rcv'.kex = rcv.kex + 1
       \/ /\ in'.key \in {in.key, rcv.kex + 1} /\ rcv'.kex = rcv.kex + 1
          /\ Disconnect => rcv'.pc = "closed"
  BY <1>5, <1>6, <1>7, <1>8, <1>9, <1>10, <1>11, <1>12, <1>13, Zenon
  DEF Next, Receiver, Ended
<1>. QED
  BY <1>1, <1>14 DEF KexAhead

LEMMA NextType == TypeInv /\ [Next]_vars => TypeInv'
BY NextCore, KexSender, KexReceiver DEF TypeInv, KexAhead

\* Callers that disconnect number the keys as their direction does.
LEMMA KexIsKey ==
  ASSUME TypeInv, Disconnect
  PROVE  /\ snd.pc # "closed" => snd.kex = out.key
         /\ rcv.pc # "closed" => rcv.kex = in.key
BY DEF TypeInv, KexAhead

\* The model is type correct: the values of ssh_direction_t, of the stream and
\* of the callers' programs stay in their ranges, the sequence numbers below
\* SeqMod among them.
THEOREM TypeCorrect == Spec => []TypeOK
<1>1. Spec => []TypeInv
  BY InitType, NextType, PTL DEF Spec
<1>2. TypeInv => TypeOK
  BY DEF TypeInv, TypeCore
<1>. QED
  BY <1>1, <1>2, PTL

(* No keystream reuse.  NoKeystreamReuse compares packets with each other;  *)
(* what a step preserves compares every packet with the cipher state the    *)
(* next one will use: its key is older, or its blocks are behind the        *)
(* counter.  That holds also after a packet that was abandoned half-written *)
(* because session_send never takes the counter back.                       *)

Behind(call, d) ==
  call.dir.encrypted =>
    \/ call.dir.key < d.key
    \/ /\ call.dir.key = d.key
       /\ call.dir.ctr + Blocks[call.payload] <= d.ctr

KeystreamInv == NoKeystreamReuse /\ \A i \in DOMAIN pkts : Behind(pkts[i], out)

LEMMA KeystreamBegin ==
  ASSUME TypeInv, KeystreamInv, NEW p \in Payload, SendBegin(p)
  PROVE  KeystreamInv'
<1>. DEFINE n == Len(pkts)
            call == [payload |-> p, dir |-> out, done |-> FALSE]
<1>1. /\ pkts \in Seq(SendCall) /\ n \in Nat /\ out \in Direction
      /\ DOMAIN pkts = 1 .. n
  BY DEF TypeInv, TypeCore, TypeOK
<1>2. pkts' = Append(pkts, call) /\ out' = Advance(out, Blocks[p])
  BY DEF SendBegin
<1>3. /\ DOMAIN pkts' = 1 .. n + 1 /\ pkts'[n + 1] = call
      /\ \A i \in 1 .. n : pkts'[i] = pkts[i]
  BY <1>1, <1>2
<1>4. /\ out'.key = out.key /\ out.key \in Nat /\ out.ctr \in Nat
      /\ out'.ctr \in Nat /\ out.ctr <= out'.ctr
      /\ out.encrypted => out.ctr + Blocks[p] <= out'.ctr
  <2>1. Blocks[p] \in Nat
    OBVIOUS
  <2>. QED
    BY <1>1, <1>2, <2>1 DEF Advance, Direction
<1>5. \A i \in 1 .. n : /\ pkts[i].dir.key \in Nat /\ pkts[i].dir.ctr \in Nat
                        /\ Blocks[pkts[i].payload] \in Nat
  <2>1. \A i \in 1 .. n : pkts[i] \in SendCall
    BY <1>1, ElementOfSeq
  <2>. QED
    BY <2>1 DEF SendCall, Direction
<1>6. \A i \in DOMAIN pkts' : Behind(pkts'[i], out')
  <2>1. ASSUME NEW i \in 1 .. n
        PROVE  Behind(pkts'[i], out')
    <3>1. Behind(pkts[i], out) /\ pkts'[i] = pkts[i]
      BY <2>1, <1>1, <1>3 DEF KeystreamInv
    <3>. QED
      BY <3>1, <1>4, <1>5 DEF Behind
  <2>2. Behind(pkts'[n + 1], out')
    BY <1>3, <1>4 DEF Behind
  <2>. QED
    BY <2>1, <2>2, <1>1, <1>3
<1>7. NoKeystreamReuse'
  <2>. SUFFICES ASSUME NEW j \in 1 .. n + 1, NEW i \in 1 .. j - 1,
                       pkts'[i].dir.encrypted, pkts'[j].dir.encrypted,
                       pkts'[i].dir.key = pkts'[j].dir.key
                PROVE  pkts'[i].dir.ctr + Blocks[pkts'[i].payload]
                         <= pkts'[j].dir.ctr
    BY <1>3 DEF NoKeystreamReuse
  <2>1. CASE j \in 1 .. n
    <3>1. i \in 1 .. n /\ j \in DOMAIN pkts
      BY <2>1, <1>1
    <3>2. pkts'[i] = pkts[i] /\ pkts'[j] = pkts[j]
      BY <3>1, <2>1, <1>3, Zenon
    <3>3. NoKeystreamReuse
      BY DEF KeystreamInv
    <3>. QED
      BY <3>1, <3>2, <3>3 DEF NoKeystreamReuse
  <2>2. CASE j = n + 1
    <3>1. i \in 1 .. n /\ Behind(pkts[i], out) /\ pkts'[i] = pkts[i]
      <4>1. i \in 1 .. n
        BY <2>2, <1>1
      <4>. QED
        BY <4>1, <1>1, <1>3, Zenon DEF KeystreamInv
    <3>2. pkts'[j].dir = out
      BY <2>2, <1>3
    <3>. QED
      BY <3>1, <3>2, <1>4, <1>5 DEF Behind
  <2>. QED
    BY <2>1, <2>2, <1>1
<1>. QED
  BY <1>6, <1>7 DEF KeystreamInv

\* A step that begins no packet and never takes the cipher state back.
LEMMA KeystreamKept ==
  ASSUME TypeInv, KeystreamInv, DOMAIN pkts' = DOMAIN pkts,
         \A i \in DOMAIN pkts : /\ pkts'[i].payload = pkts[i].payload
                                /\ pkts'[i].dir = pkts[i].dir,
         out'.key \in Nat,
         out'.key > out.key \/ (out'.key = out.key /\ out'.ctr = out.ctr)
  PROVE  KeystreamInv'
<1>1. NoKeystreamReuse'
  <2>1. \A j \in DOMAIN pkts : \A i \in 1 .. j - 1 : i \in DOMAIN pkts
    BY DEF TypeInv, TypeCore, TypeOK
  <2>. QED
    BY <2>1 DEF KeystreamInv, NoKeystreamReuse
<1>2. ASSUME NEW i \in DOMAIN pkts
      PROVE  Behind(pkts'[i], out')
  <2>1. pkts[i].dir.key \in Nat /\ out.key \in Nat
    <3>1. pkts[i] \in SendCall /\ out \in Direction
      BY ElementOfSeq DEF TypeInv, TypeCore, TypeOK
    <3>. QED
      BY <3>1 DEF SendCall, Direction
  <2>2. Behind(pkts[i], out)
    BY DEF KeystreamInv
  <2>. QED
    BY <2>1, <2>2 DEF Behind
<1>. QED
  BY <1>1, <1>2 DEF KeystreamInv

LEMMA KeystreamReturn ==
  ASSUME TypeInv, KeystreamInv, SendReturn
  PROVE  KeystreamInv'
<1>1. /\ pkts \in Seq(SendCall) /\ Len(pkts) \in DOMAIN pkts
      /\ out \in Direction
  BY DEF TypeInv, TypeCore, TypeOK, PacketInHand, SendReturn
<1>2. pkts' = [pkts EXCEPT ![Len(pkts)] = [pkts[Len(pkts)] EXCEPT !.done = TRUE]]
  BY DEF SendReturn
<1>3. \A c \in SendCall : LET e == [c EXCEPT !.done = TRUE] IN
        e.payload = c.payload /\ e.dir = c.dir
  BY DEF SendCall
<1>4. pkts[Len(pkts)] \in SendCall
  BY <1>1, ElementOfSeq
<1>5. /\ DOMAIN pkts' = DOMAIN pkts
      /\ \A i \in DOMAIN pkts : /\ pkts'[i].payload = pkts[i].payload
                                /\ pkts'[i].dir = pkts[i].dir
  BY <1>1, <1>2, <1>3, <1>4
<1>6. out'.key = out.key /\ out'.ctr = out.ctr /\ out.key \in Nat
  BY <1>1 DEF SendReturn, Count, Direction
<1>. QED
  BY <1>5, <1>6, KeystreamKept

LEMMA KeystreamInstall ==
  ASSUME TypeInv, KeystreamInv, InstallEarly \/ InstallOut \/ InstallOutFail
  PROVE  KeystreamInv'
<1>1. out \in Direction
  BY DEF TypeInv, TypeCore, TypeOK
<1>2. \/ out' = SetKeys(out, snd.kex + 1)
      \/ out' = Activate(SetKeys(out, snd.kex + 1))
      \/ out' = Activate(out)
      \/ out' \in SetKeysFailed(out, snd.kex + 1)
  BY DEF InstallEarly, InstallOut, InstallOutFail
<1>3. /\ out'.key \in Nat
      /\ out'.key > out.key \/ (out'.key = out.key /\ out'.ctr = out.ctr)
  <2>1. /\ out.key \in Nat /\ snd.kex \in Nat /\ out.key <= snd.kex
        /\ snd.kex + 1 \in Nat
    BY <1>1 DEF TypeInv, TypeCore, TypeOK, KexAhead, Direction, SenderState
  <2>2. /\ SetKeys(out, snd.kex + 1) \in Direction
        /\ SetKeys(out, snd.kex + 1).key = snd.kex + 1
    BY <1>1, <2>1, KeysOf, DirectionOps
  <2>3. /\ Activate(SetKeys(out, snd.kex + 1)).key = snd.kex + 1
        /\ Activate(out).key = out.key /\ Activate(out).ctr = out.ctr
        /\ \A e \in SetKeysFailed(out, snd.kex + 1) :
             \/ e.key = snd.kex + 1
             \/ e.key = out.key /\ e.ctr = out.ctr
    BY <1>1, <2>1, <2>2, KeysOf
  <2>4. \/ out'.key = snd.kex + 1
        \/ out'.key = out.key /\ out'.ctr = out.ctr
    BY <1>2, <2>2, <2>3, Zenon
  <2>. QED
    BY <2>1, <2>4
<1>4. pkts' = pkts
  BY DEF InstallEarly, InstallOut, InstallOutFail
<1>. QED
  BY <1>3, <1>4, KeystreamKept

LEMMA KeystreamNext == TypeInv /\ KeystreamInv /\ [Next]_vars => KeystreamInv'
<1>. SUFFICES ASSUME TypeInv, KeystreamInv, [Next]_vars
              PROVE  KeystreamInv'
  OBVIOUS
<1>1. CASE \E p \in Payload : SendBegin(p)
  BY <1>1, KeystreamBegin
<1>2. CASE SendReturn
  BY <1>2, KeystreamReturn
<1>3. CASE InstallEarly \/ InstallOut \/ InstallOutFail
  BY <1>3, KeystreamInstall
<1>4. CASE UNCHANGED <<out, pkts>>
  <2>1. out.key \in Nat
    BY DEF TypeInv, TypeCore, TypeOK, Direction
  <2>. QED
    BY <1>4, <2>1, KeystreamKept
<1>5. WriteCell \/ WriteFail \/ Close \/ Receiver \/ Flip \/ UNCHANGED vars
        => UNCHANGED <<out, pkts>>
  BY DEF WriteCell, WriteFail, AfterFailure, Close, Receiver, RecvHead, RecvBody,
     RecvMac, RecvExtract, RecvDamaged, JunkRead, JunkEnd, RecvEof, InstallIn,
     InstallInFail, Flip, vars
<1>. QED
  BY <1>1, <1>2, <1>3, <1>4, <1>5 DEF Next, Sender, Ended

\* session_send never encrypts two packets with the same keystream block: not
\* across rekeys, and not when a failed write abandons a packet and the caller
\* goes on.
THEOREM KeystreamSafe == Spec => []NoKeystreamReuse
<1>1. Init => TypeInv /\ KeystreamInv
  BY InitType DEF Init, KeystreamInv, NoKeystreamReuse
<1>2. (TypeInv /\ KeystreamInv) /\ [Next]_vars => (TypeInv /\ KeystreamInv)'
  BY NextType, KeystreamNext
<1>3. TypeInv /\ KeystreamInv => NoKeystreamReuse
  BY DEF KeystreamInv
<1>. QED
  BY <1>1, <1>2, <1>3, PTL DEF Spec

-----------------------------------------------------------------------------
(***************************************************************************)
(* What a MAC is worth: what session_recv returns under a MAC was sent     *)
(* under it and comes in the order sent, whatever the line does and        *)
(* whatever errors the callers ignore; and nothing is skipped if they      *)
(* disconnect.                                                             *)
(***************************************************************************)

HIDE SessionAssumption

InHand == rcv.pc \in {"body", "mac", "extract"}

(* Facts about the types of the histories and of the stream, in the form    *)
(* the steps below use them.                                                *)

LEMMA Ranges ==
  ASSUME TypeInv
  PROVE  /\ Len(pkts) \in Nat /\ Len(wire) \in Nat /\ Len(delivered) \in Nat
         /\ DOMAIN pkts = 1 .. Len(pkts) /\ DOMAIN wire = 1 .. Len(wire)
         /\ DOMAIN delivered = 1 .. Len(delivered)
         /\ rcv.pid \in 0 .. Len(pkts) /\ rcv.part \in Nat \ {0}
         /\ InHand => rcv.pid \in 1 .. Len(pkts)
         /\ \A n \in 1 .. Len(wire) : /\ wire[n] \in CellOf(Len(pkts))
                                      /\ wire[n].pid \in 1 .. Len(pkts)
                                      /\ wire[n].part \in Nat \ {0}
         /\ \A k \in 1 .. Len(delivered) : /\ delivered[k].pid \in 0 .. Len(pkts)
                                           /\ delivered[k].mac \in Nat
         /\ \A i \in 1 .. Len(pkts) : /\ pkts[i].payload \in Payload
                                      /\ pkts[i].dir \in Direction
<1>1. /\ pkts \in Seq(SendCall) /\ wire \in Seq(CellOf(Len(pkts)))
      /\ delivered \in Seq(Result(Len(pkts))) /\ rcv \in ReceiverState(Len(pkts))
  BY DEF TypeInv, TypeCore, TypeOK
<1>2. /\ Len(pkts) \in Nat /\ Len(wire) \in Nat /\ Len(delivered) \in Nat
      /\ DOMAIN pkts = 1 .. Len(pkts) /\ DOMAIN wire = 1 .. Len(wire)
      /\ DOMAIN delivered = 1 .. Len(delivered)
  BY <1>1
<1>3. /\ rcv.pid \in 0 .. Len(pkts) /\ rcv.part \in Nat \ {0}
      /\ InHand => rcv.pid \in 1 .. Len(pkts)
  BY <1>1, <1>2 DEF ReceiverState, TypeInv, TypeCore, PacketInHand, InHand
<1>4. ASSUME NEW n \in 1 .. Len(wire)
      PROVE  /\ wire[n] \in CellOf(Len(pkts)) /\ wire[n].pid \in 1 .. Len(pkts)
             /\ wire[n].part \in Nat \ {0}
  <2>1. wire[n] \in CellOf(Len(pkts))
    BY <1>1, ElementOfSeq
  <2>. QED
    BY <2>1 DEF CellOf
<1>5. ASSUME NEW k \in 1 .. Len(delivered)
      PROVE  delivered[k].pid \in 0 .. Len(pkts) /\ delivered[k].mac \in Nat
  <2>1. delivered[k] \in Result(Len(pkts))
    BY <1>1, ElementOfSeq
  <2>2. /\ delivered[k].pid \in 0 .. Len(pkts)
        /\ delivered[k].mac \in MacEpochs \cup {0}
    BY <2>1 DEF Result
  <2>3. \A m \in MacEpochs \cup {0} : m \in Nat
    BY SessionAssumption
  <2>. QED
    BY <2>2, <2>3
<1>6. ASSUME NEW i \in 1 .. Len(pkts)
      PROVE  pkts[i].payload \in Payload /\ pkts[i].dir \in Direction
  <2>1. pkts[i] \in SendCall
    BY <1>1, ElementOfSeq
  <2>. QED
    BY <2>1 DEF SendCall
<1>. QED
  BY <1>2, <1>3, <1>4, <1>5, <1>6

(* What a step can do to the histories and to the stream.                   *)

\* The record of a packet is never taken back: a step adds one or marks the
\* last as done.
LEMMA PacketsGrow ==
  ASSUME TypeInv, [Next]_vars
  PROVE  /\ Len(pkts') \in {Len(pkts), Len(pkts) + 1}
         /\ \A i \in 1 .. Len(pkts) : /\ pkts'[i].payload = pkts[i].payload
                                      /\ pkts'[i].dir = pkts[i].dir
<1>1. pkts \in Seq(SendCall) /\ Len(pkts) \in Nat
  BY DEF TypeInv, TypeCore, TypeOK
<1>2. ASSUME NEW p \in Payload, SendBegin(p)
      PROVE  /\ Len(pkts') = Len(pkts) + 1
             /\ \A i \in 1 .. Len(pkts) : pkts'[i] = pkts[i]
  BY <1>1, <1>2 DEF SendBegin
<1>3. CASE SendReturn
  <2>1. pkts' = [pkts EXCEPT ![Len(pkts)] = [pkts[Len(pkts)] EXCEPT !.done = TRUE]]
    BY <1>3 DEF SendReturn
  <2>2. \A c \in SendCall : /\ [c EXCEPT !.done = TRUE].payload = c.payload
                            /\ [c EXCEPT !.done = TRUE].dir = c.dir
    BY DEF SendCall
  <2>3. \A i \in 1 .. Len(pkts) : pkts[i] \in SendCall
    BY <1>1, ElementOfSeq
  <2>4. Len(pkts') = Len(pkts)
    BY <1>1, <2>1
  <2>. QED
    BY <1>1, <2>1, <2>2, <2>3, <2>4
<1>4. (\E p \in Payload : SendBegin(p)) \/ SendReturn \/ UNCHANGED pkts
  BY DEF Next, Sender, Receiver, InstallEarly, WriteCell, WriteFail, InstallOut,
     InstallOutFail, Close, RecvHead, RecvBody, RecvMac, RecvExtract, RecvDamaged,
     JunkRead, JunkEnd, RecvEof, InstallIn, InstallInFail, Flip, Ended, vars
<1>. QED
  BY <1>1, <1>2, <1>3, <1>4

\* What a step adds to the record of packets is one encrypted with the state
\* the sender has.
LEMMA NewPacket ==
  ASSUME TypeInv, [Next]_vars, NEW i \in 1 .. Len(pkts'), i \notin 1 .. Len(pkts)
  PROVE  snd.pc = "idle" /\ pkts'[i].dir = out
<1>1. SendReturn => Len(pkts') = Len(pkts)
  BY DEF SendReturn, TypeInv, TypeCore, TypeOK
<1>2. PICK p \in Payload : SendBegin(p)
  BY <1>1 DEF Next, Sender, Receiver, InstallEarly, WriteCell, WriteFail,
     InstallOut, InstallOutFail, Close, RecvHead, RecvBody, RecvMac, RecvExtract,
     RecvDamaged, JunkRead, JunkEnd, RecvEof, InstallIn, InstallInFail, Flip, Ended,
     vars
<1>. QED
  BY <1>2 DEF SendBegin, TypeInv, TypeCore, TypeOK

\* The first k cells are taken off the stream; the others stay where they are.
Taken(k) ==
  /\ Len(wire') = Len(wire) - k
  /\ \A n \in 1 .. Len(wire') : /\ wire'[n].pid = wire[n + k].pid
                                /\ wire'[n].part = wire[n + k].part

LEMMA TailTakes ==
  ASSUME TypeInv, wire # <<>>, wire' = Tail(wire)
  PROVE  Taken(1) /\ Len(wire) > 0
<1>1. wire \in Seq(CellOf(Len(pkts)))
  BY DEF TypeInv, TypeCore, TypeOK
<1>. QED
  BY <1>1 DEF Taken

LEMMA TakeTakes ==
  ASSUME TypeInv, wire # <<>>, Take
  PROVE  Taken(0) \/ Taken(1)
<1>1. wire \in Seq(CellOf(Len(pkts))) /\ Len(pkts) \in Nat /\ Len(wire) > 0
  BY DEF TypeInv, TypeCore, TypeOK
<1>2. ASSUME wire' = <<Shaped(Head(wire), "split")>> \o Tail(wire)
      PROVE  Taken(0)
  <2>1. Head(wire) \in CellOf(Len(pkts)) /\ Head(wire) = wire[1]
    BY <1>1
  <2>2. /\ Shaped(Head(wire), "split").pid = wire[1].pid
        /\ Shaped(Head(wire), "split").part = wire[1].part
    BY <2>1 DEF Shaped, CellOf
  <2>3. /\ Len(wire') = Len(wire) /\ wire'[1] = Shaped(Head(wire), "split")
        /\ \A n \in 2 .. Len(wire) : wire'[n] = wire[n]
    BY <1>1, <1>2
  <2>. QED
    BY <1>1, <2>2, <2>3 DEF Taken
<1>. QED
  BY <1>2, TailTakes DEF Take

LEMMA DerailTakes ==
  ASSUME TypeInv, wire # <<>>, NEW i, NEW k, Derail(i, k)
  PROVE  /\ Taken(0) \/ Taken(1)
         /\ rcv'.pid = rcv.pid /\ rcv'.pc \in {"short", "junk"}
<1>1. rcv \in ReceiverState(Len(pkts))
  BY DEF TypeInv, TypeCore, TypeOK
<1>. QED
  BY <1>1, TailTakes, TakeTakes DEF Derail, ReceiverAt, ReceiverState

LEMMA FlipTakes ==
  ASSUME TypeInv, Flip
  PROVE  Taken(0)
<1>1. wire \in Seq(CellOf(Len(pkts))) /\ Len(wire) \in Nat
  BY DEF TypeInv, TypeCore, TypeOK
<1>2. PICK k \in DOMAIN wire : wire' = [wire EXCEPT ![k].shape = "flipped"]
  BY DEF Flip
<1>3. \A n \in 1 .. Len(wire) : wire[n] \in CellOf(Len(pkts))
  BY <1>1, ElementOfSeq
<1>4. wire' = [wire EXCEPT ![k] = [wire[k] EXCEPT !.shape = "flipped"]]
  BY <1>2
<1>5. \A c \in CellOf(Len(pkts)) : /\ [c EXCEPT !.shape = "flipped"].pid = c.pid
                                   /\ [c EXCEPT !.shape = "flipped"].part = c.part
  BY DEF CellOf
<1>6. Len(wire') = Len(wire)
  BY <1>1, <1>4
<1>. QED
  BY <1>1, <1>3, <1>4, <1>5, <1>6 DEF Taken

(* The order of the stream.  A packet can be read only from its first cell, *)
(* and the first cells on the stream are of packets later than every cell   *)
(* before them and than the packet last read.                               *)

FirstCellsAscend ==
  \A n \in 1 .. Len(wire) : wire[n].part = 1 =>
    /\ rcv.pid < wire[n].pid
    /\ \A m \in 1 .. n - 1 : wire[m].pid < wire[n].pid

WriterAhead ==
  snd.pc = "writing" /\ snd.next = 1 =>
    /\ rcv.pid < Len(pkts)
    /\ \A n \in 1 .. Len(wire) : wire[n].pid < Len(pkts)

ReaderAhead ==
  \A k \in 1 .. Len(delivered) :
    /\ delivered[k].pid <= rcv.pid
    /\ InHand => delivered[k].pid < rcv.pid

StreamOrder == FirstCellsAscend /\ WriterAhead /\ ReaderAhead

LEMMA OrderBegin ==
  ASSUME TypeInv, StreamOrder, NEW p \in Payload, SendBegin(p)
  PROVE  StreamOrder'
<1>1. Len(pkts') = Len(pkts) + 1
  BY DEF SendBegin, TypeInv, TypeCore, TypeOK
<1>2. UNCHANGED <<rcv, wire, delivered>>
  BY DEF SendBegin
<1>. QED
  BY <1>1, <1>2, Ranges
  DEF StreamOrder, FirstCellsAscend, WriterAhead, ReaderAhead, InHand

LEMMA OrderWrite ==
  ASSUME TypeInv, StreamOrder, WriteCell \/ WriteFail
  PROVE  StreamOrder'
<1>1. /\ wire \in Seq(CellOf(Len(pkts))) /\ Len(pkts) > 0
      /\ snd \in SenderState /\ snd.next \in Nat \ {0}
  BY DEF TypeInv, TypeCore, TypeOK, PacketInHand, WriteCell, WriteFail, SenderState
<1>2. UNCHANGED <<rcv, pkts, delivered>> /\ snd.pc = "writing"
  BY DEF WriteCell, WriteFail
<1>3. \/ wire' = wire
      \/ \E c : /\ wire' = Append(wire, c)
                /\ c.pid = Len(pkts) /\ c.part = snd.next
  BY DEF WriteCell, WriteFail, Cell, Shaped
<1>4. snd'.pc # "writing" \/ snd'.next # 1
  <2>1. CASE WriteCell
    <3>1. \/ snd' = [snd EXCEPT !.pc = "written"]
          \/ snd' = [snd EXCEPT !.next = snd.next + 1]
      BY <2>1 DEF WriteCell
    <3>. QED
      BY <1>1, <3>1 DEF SenderState
  <2>2. CASE WriteFail
    BY <1>1, <2>2 DEF WriteFail, SenderState
  <2>. QED
    BY <2>1, <2>2
<1>5. FirstCellsAscend'
  <2>1. CASE wire' = wire
    BY <2>1, <1>2 DEF StreamOrder, FirstCellsAscend
  <2>2. ASSUME NEW c, wire' = Append(wire, c), c.pid = Len(pkts),
               c.part = snd.next
        PROVE  FirstCellsAscend'
    <3>1. /\ Len(wire') = Len(wire) + 1 /\ wire'[Len(wire) + 1] = c
          /\ \A n \in 1 .. Len(wire) : wire'[n] = wire[n]
      BY <2>2, <1>1
    <3>. QED
      BY <3>1, <2>2, <1>2, Ranges
      DEF StreamOrder, FirstCellsAscend, WriterAhead
  <2>. QED
    BY <2>1, <2>2, <1>3
<1>. QED
  BY <1>2, <1>4, <1>5 DEF StreamOrder, WriterAhead, ReaderAhead, InHand

\* Steps of the sender that leave the stream alone and write no packet next
LEMMA OrderSender ==
  ASSUME TypeInv, StreamOrder,
         SendReturn \/ InstallEarly \/ InstallOut \/ InstallOutFail \/ Close
  PROVE  StreamOrder'
<1>1. UNCHANGED <<rcv, wire, delivered>>
  BY DEF SendReturn, InstallEarly, InstallOut, InstallOutFail, Close
<1>2. snd'.pc # "writing"
  BY DEF SendReturn, InstallEarly, InstallOut, InstallOutFail, Close, TypeInv,
     TypeCore, TypeOK, SenderState
<1>. QED
  BY <1>1, <1>2
  DEF StreamOrder, FirstCellsAscend, WriterAhead, ReaderAhead, InHand

\* A step of the receiver that takes cells, or none, off the stream and goes on
\* with the packet it has or with none.
LEMMA OrderTaken ==
  ASSUME TypeInv, StreamOrder, UNCHANGED <<snd, pkts>>, Taken(0) \/ Taken(1),
         rcv'.pid = rcv.pid,
         \/ UNCHANGED delivered /\ (InHand' => InHand)
         \/ \E d : /\ delivered' = Append(delivered, d) /\ ~InHand'
                   /\ d.pid = 0 \/ (InHand /\ d.pid = rcv.pid)
  PROVE  StreamOrder'
<1>1. FirstCellsAscend'
  <2>1. ASSUME NEW k \in {0, 1}, Taken(k)
        PROVE  FirstCellsAscend'
    <3>. SUFFICES ASSUME NEW n \in 1 .. Len(wire'), wire'[n].part = 1
                  PROVE  /\ rcv'.pid < wire'[n].pid
                         /\ \A m \in 1 .. n - 1 : wire'[m].pid < wire'[n].pid
      BY DEF FirstCellsAscend
    <3>1. /\ Len(wire') = Len(wire) - k /\ n + k \in 1 .. Len(wire)
          /\ wire'[n].pid = wire[n + k].pid /\ wire[n + k].part = 1
      <4>1. Len(wire) \in Nat /\ Len(wire') = Len(wire) - k
        BY <2>1, Ranges DEF Taken
      <4>2. n + k \in 1 .. Len(wire)
        BY <2>1, <4>1
      <4>. QED
        BY <2>1, <4>1, <4>2, Zenon DEF Taken
    <3>2. ASSUME NEW m \in 1 .. n - 1
          PROVE  /\ m + k \in 1 .. (n + k) - 1
                 /\ wire'[m].pid = wire[m + k].pid
      <4>1. m \in 1 .. Len(wire') /\ m + k \in 1 .. (n + k) - 1
        BY <3>1, Ranges
      <4>. QED
        BY <2>1, <4>1 DEF Taken
    <3>. QED
      BY <3>1, <3>2 DEF StreamOrder, FirstCellsAscend
  <2>. QED
    BY <2>1
<1>2. WriterAhead'
  <2>1. ASSUME NEW k \in {0, 1}, Taken(k)
        PROVE  \A n \in 1 .. Len(wire') : \E m \in 1 .. Len(wire) :
                 wire'[n].pid = wire[m].pid
    BY <2>1, Ranges DEF Taken
  <2>. QED
    BY <2>1 DEF StreamOrder, WriterAhead
<1>3. ReaderAhead'
  <2>1. CASE UNCHANGED delivered /\ (InHand' => InHand)
    BY <2>1 DEF StreamOrder, ReaderAhead
  <2>2. ASSUME NEW d, delivered' = Append(delivered, d), ~InHand',
               d.pid = 0 \/ (InHand /\ d.pid = rcv.pid)
        PROVE  ReaderAhead'
    <3>1. /\ Len(delivered') = Len(delivered) + 1
          /\ delivered'[Len(delivered) + 1] = d
          /\ \A k \in 1 .. Len(delivered) : delivered'[k] = delivered[k]
      BY <2>2 DEF TypeInv, TypeCore, TypeOK
    <3>2. ASSUME NEW k \in 1 .. Len(delivered')
          PROVE  delivered'[k].pid <= rcv'.pid
      <4>1. Len(delivered) \in Nat /\ rcv.pid \in Nat
        BY Ranges
      <4>2. CASE k \in 1 .. Len(delivered)
        BY <3>1, <4>2 DEF StreamOrder, ReaderAhead
      <4>3. CASE k = Len(delivered) + 1
        BY <2>2, <3>1, <4>1, <4>3
      <4>. QED
        BY <3>1, <4>1, <4>2, <4>3
    <3>. QED
      BY <2>2, <3>2 DEF ReaderAhead
  <2>. QED
    BY <2>1, <2>2
<1>. QED
  BY <1>1, <1>2, <1>3 DEF StreamOrder

LEMMA OrderHead ==
  ASSUME TypeInv, StreamOrder, RecvHead
  PROVE  StreamOrder'
<1>1. UNCHANGED <<snd, pkts, delivered>> /\ wire # <<>> /\ rcv.pc = "head"
  BY DEF RecvHead
<1>2. CASE rcv'.pid = rcv.pid /\ ~InHand' /\ (Taken(0) \/ Taken(1))
  BY <1>1, <1>2, OrderTaken
<1>3. CASE /\ rcv'.pid = Head(wire).pid /\ Head(wire).part = 1
           /\ wire' = Tail(wire)
  <2>1. Taken(1) /\ Len(wire) > 0 /\ Head(wire) = wire[1]
    BY <1>1, <1>3, TailTakes DEF TypeInv, TypeCore, TypeOK
  <2>2. rcv.pid < wire[1].pid /\ rcv'.pid = wire[1].pid
    BY <1>3, <2>1, Ranges DEF StreamOrder, FirstCellsAscend
  <2>3. FirstCellsAscend'
    <3>. SUFFICES ASSUME NEW n \in 1 .. Len(wire'), wire'[n].part = 1
                  PROVE  /\ rcv'.pid < wire'[n].pid
                         /\ \A m \in 1 .. n - 1 : wire'[m].pid < wire'[n].pid
      BY DEF FirstCellsAscend
    <3>1. /\ n + 1 \in 1 .. Len(wire) /\ wire'[n].pid = wire[n + 1].pid
          /\ wire[n + 1].part = 1
      BY <2>1, Ranges DEF Taken
    <3>2. ASSUME NEW m \in 1 .. n - 1
          PROVE  /\ m + 1 \in 1 .. (n + 1) - 1
                 /\ wire'[m].pid = wire[m + 1].pid
      <4>1. m \in 1 .. Len(wire') /\ m + 1 \in 1 .. (n + 1) - 1
        BY <3>1, Ranges
      <4>. QED
        BY <2>1, <4>1 DEF Taken
    <3>3. 1 \in 1 .. (n + 1) - 1
      OBVIOUS
    <3>. QED
      BY <2>2, <3>1, <3>2, <3>3 DEF StreamOrder, FirstCellsAscend
  <2>4. WriterAhead'
    <3>0. Len(wire) \in Nat /\ Len(wire') = Len(wire) - 1
      BY <2>1, Ranges DEF Taken
    <3>1. ASSUME NEW n \in 1 .. Len(wire')
          PROVE  n + 1 \in 1 .. Len(wire) /\ wire'[n].pid = wire[n + 1].pid
      <4>1. n + 1 \in 1 .. Len(wire)
        BY <3>0
      <4>. QED
        BY <2>1, <4>1, Zenon DEF Taken
    <3>2. 1 \in 1 .. Len(wire)
      BY <2>1, Ranges
    <3>. QED
      BY <1>1, <2>2, <3>1, <3>2 DEF StreamOrder, WriterAhead
  <2>5. ReaderAhead'
    BY <1>1, <2>1, <2>2, Ranges DEF StreamOrder, ReaderAhead
  <2>. QED
    BY <2>3, <2>4, <2>5 DEF StreamOrder
<1>4. ReturnError => rcv'.pid = rcv.pid /\ ~InHand'
  BY DEF ReturnError, ReceiverAt, InHand, TypeInv, TypeCore, TypeOK, ReceiverState
<1>5. ASSUME NEW i, Derail(i, 1)
      PROVE  rcv'.pid = rcv.pid /\ ~InHand' /\ (Taken(0) \/ Taken(1))
  BY <1>1, <1>5, DerailTakes DEF InHand
<1>6. wire' = Tail(wire) => Taken(1)
  BY <1>1, TailTakes
<1>7. CASE \E i : Derail(i, 1)
  BY <1>2, <1>5, <1>7
<1>8. CASE wire' = Tail(wire) /\ ReturnError
  BY <1>2, <1>4, <1>6, <1>8
<1>9. CASE /\ rcv' = [rcv EXCEPT
                       !.pc = IF DataCells(Head(wire).pid) > 1 THEN "body"
                              ELSE IF MacOf(in) > 0 THEN "mac" ELSE "extract",
                       !.pid = Head(wire).pid, !.part = 2,
                       !.intact = Head(wire).shape = "whole"]
           /\ Head(wire).part = 1 /\ wire' = Tail(wire)
  <2>1. rcv \in ReceiverState(Len(pkts))
    BY DEF TypeInv, TypeCore, TypeOK
  <2>2. rcv'.pid = Head(wire).pid
    BY <1>9, <2>1 DEF ReceiverState
  <2>. QED
    BY <1>3, <1>9, <2>2
<1>. QED
  BY <1>7, <1>8, <1>9, Zenon DEF RecvHead

LEMMA OrderReceive ==
  ASSUME TypeInv, StreamOrder, Receiver
  PROVE  StreamOrder'
<1>. DEFINE Goes == \/ UNCHANGED delivered /\ (InHand' => InHand)
                    \/ \E d : /\ delivered' = Append(delivered, d) /\ ~InHand'
                              /\ d.pid = 0 \/ (InHand /\ d.pid = rcv.pid)
<1>1. rcv \in ReceiverState(Len(pkts))
  BY DEF TypeInv, TypeCore, TypeOK
<1>2. \A pc : ReceiverAt(pc) => rcv'.pid = rcv.pid /\ rcv'.pc = pc
  BY <1>1 DEF ReceiverAt, ReceiverState
<1>3. ReturnError => rcv'.pid = rcv.pid /\ ~InHand'
  BY <1>2 DEF ReturnError, InHand
<1>4. ASSUME NEW i, NEW p, Return(i, p), i = 0 \/ (InHand /\ i = rcv.pid)
      PROVE  rcv'.pid = rcv.pid /\ Goes
  <2>1. rcv'.pid = rcv.pid /\ ~InHand'
    BY <1>2, <1>4 DEF Return, InHand
  <2>2. \E d : delivered' = Append(delivered, d) /\ d.pid = i
    BY <1>4 DEF Return
  <2>. QED
    BY <1>4, <2>1, <2>2
<1>5. ASSUME NEW d, Refused(d) \/ Accepted(d)
      PROVE  rcv'.pid = rcv.pid /\ Goes
  <2>1. CASE Refused(d)
    BY <1>3, <2>1 DEF Refused
  <2>2. CASE \E p \in Payload : Return(0, p)
    BY <1>4, <2>2
  <2>3. CASE ReceiverAt("hung") /\ UNCHANGED delivered
    BY <1>2, <2>3 DEF InHand
  <2>. QED
    BY <1>5, <2>1, <2>2, <2>3 DEF Accepted
<1>6. UNCHANGED wire => Taken(0)
  BY Ranges DEF Taken
<1>7. CASE RecvHead
  BY <1>7, OrderHead
<1>8. CASE RecvBody
  <2>1. wire # <<>> /\ InHand /\ UNCHANGED <<snd, pkts, delivered>>
    BY <1>8 DEF RecvBody, InHand
  <2>2. CASE Derail(rcv.pid, rcv.part)
    BY <2>1, <2>2, DerailTakes, OrderTaken
  <2>3. CASE wire' = Tail(wire) /\ rcv'.pid = rcv.pid
    BY <2>1, <2>3, TailTakes, OrderTaken
  <2>. QED
    BY <1>1, <1>8, <2>2, <2>3 DEF RecvBody, ReceiverState
<1>9. CASE RecvMac
  <2>1. /\ wire # <<>> /\ InHand /\ UNCHANGED <<snd, pkts, delivered>>
    BY <1>9 DEF RecvMac, InHand
  <2>2. CASE Derail(rcv.pid, rcv.part)
    BY <2>1, <2>2, DerailTakes, OrderTaken
  <2>3. CASE wire' = Tail(wire) /\ (ReceiverAt("extract") \/ ReturnError)
    BY <1>2, <1>3, <2>1, <2>3, TailTakes, OrderTaken
  <2>. QED
    BY <1>9, <2>2, <2>3 DEF RecvMac, MacFailed
<1>10. CASE RecvExtract
  <2>1. InHand /\ UNCHANGED <<snd, pkts, wire>>
    BY <1>10 DEF RecvExtract, InHand
  <2>2. rcv'.pid = rcv.pid /\ Goes
    BY <1>3, <1>4, <1>10, <2>1 DEF RecvExtract
  <2>. QED
    BY <1>6, <2>1, <2>2, OrderTaken
<1>11. CASE RecvDamaged \/ JunkEnd
  <2>1. UNCHANGED <<snd, pkts, wire>>
    BY <1>11 DEF RecvDamaged, JunkEnd
  <2>2. rcv'.pid = rcv.pid /\ Goes
    BY <1>5, <1>11 DEF RecvDamaged, JunkEnd
  <2>. QED
    BY <1>6, <2>1, <2>2, OrderTaken
<1>12. CASE JunkRead
  <2>1. /\ wire # <<>> /\ Take /\ ReceiverAt("junk")
        /\ UNCHANGED <<snd, pkts, delivered>>
    BY <1>12 DEF JunkRead
  <2>2. rcv'.pid = rcv.pid /\ ~InHand'
    BY <1>2, <2>1 DEF InHand
  <2>. QED
    BY <2>1, <2>2, TakeTakes, OrderTaken
<1>13. CASE RecvEof \/ InstallIn \/ InstallInFail
  <2>1. UNCHANGED <<snd, pkts, wire, delivered>>
    BY <1>13 DEF RecvEof, InstallIn, InstallInFail
  <2>2. rcv'.pid = rcv.pid /\ ~InHand'
    BY <1>1, <1>2, <1>13, InstallFields DEF RecvEof, InHand
  <2>. QED
    BY <1>6, <2>1, <2>2, OrderTaken
<1>. QED
  BY <1>7, <1>8, <1>9, <1>10, <1>11, <1>12, <1>13 DEF Receiver

LEMMA OrderNext == TypeInv /\ StreamOrder /\ [Next]_vars => StreamOrder'
<1>. SUFFICES ASSUME TypeInv, StreamOrder, [Next]_vars
              PROVE  StreamOrder'
  OBVIOUS
<1>1. CASE \E p \in Payload : SendBegin(p)
  BY <1>1, OrderBegin
<1>2. CASE Sender \/ InstallEarly \/ Close
  BY <1>2, OrderWrite, OrderSender DEF Sender
<1>3. CASE Receiver
  BY <1>3, OrderReceive
<1>4. CASE Flip
  <2>1. UNCHANGED <<snd, pkts, rcv, delivered>>
    BY <1>4 DEF Flip
  <2>. QED
    BY <1>4, <2>1, FlipTakes, OrderTaken DEF InHand
<1>5. CASE UNCHANGED vars
  BY <1>5 DEF vars, StreamOrder, FirstCellsAscend, WriterAhead, ReaderAhead, InHand
<1>. QED
  BY <1>1, <1>2, <1>3, <1>4, <1>5 DEF Next, Ended

(* What the receiver knows of the packet in hand: it was encrypted as the   *)
(* receiver takes it to be, and once it is complete its MAC has verified.   *)

KnowsPacket ==
  /\ InHand => pkts[rcv.pid].dir.encrypted = in.encrypted
  /\ rcv.pc = "mac" => MacOf(in) > 0
  /\ rcv.pc = "extract" /\ MacOf(in) > 0 =>
       rcv.intact /\ pkts[rcv.pid].dir.mac = in.mac

\* Using the keystream, and counting a packet, change no more than that.
LEMMA KeptByUse ==
  ASSUME NEW d \in Direction, NEW n \in Nat
  PROVE  /\ Advance(d, n).encrypted = d.encrypted /\ Advance(d, n).mac = d.mac
         /\ Advance(d, n).key = d.key /\ MacOf(Advance(d, n)) = MacOf(d)
         /\ d.encrypted => Advance(d, n).ctr = d.ctr + n
         /\ Count(d).encrypted = d.encrypted /\ Count(d).mac = d.mac
         /\ Count(d).key = d.key /\ Count(d).ctr = d.ctr
         /\ MacOf(Count(d)) = MacOf(d)
BY DEF Direction, Advance, Count, MacOf

LEMMA KnowsHead ==
  ASSUME TypeInv, RecvHead
  PROVE  KnowsPacket'
<1>. DEFINE i == Head(wire).pid
<1>1. in \in Direction /\ UNCHANGED pkts /\ rcv \in ReceiverState(Len(pkts))
  BY DEF TypeInv, TypeCore, TypeOK, RecvHead
<1>2. ASSUME ReturnError \/ \E k : Derail(k, 1)
      PROVE  ~InHand'
  BY <1>1, <1>2 DEF ReturnError, Derail, ReceiverAt, ReceiverState, InHand
<1>3. ASSUME Decrypts(i), in' = Advance(in, 1),
             rcv' = [rcv EXCEPT
                       !.pc = IF DataCells(i) > 1 THEN "body"
                              ELSE IF MacOf(in) > 0 THEN "mac" ELSE "extract",
                       !.pid = i, !.part = 2, !.intact = Head(wire).shape = "whole"]
      PROVE  KnowsPacket'
  <2>0. /\ rcv'.pid = i
        /\ rcv'.pc = IF DataCells(i) > 1 THEN "body"
                     ELSE IF MacOf(in) > 0 THEN "mac" ELSE "extract"
    <3>1. rcv \in ReceiverState(Len(pkts))
      BY DEF TypeInv, TypeCore, TypeOK
    <3>. QED
      BY <1>3, <3>1 DEF ReceiverState
  <2>1. in'.encrypted = in.encrypted /\ MacOf(in') = MacOf(in)
    BY <1>1, <1>3, KeptByUse
  <2>2. /\ rcv'.pid = i /\ (rcv'.pc = "mac" => MacOf(in) > 0)
        /\ rcv'.pc = "extract" => ~(MacOf(in) > 0)
    BY <2>0
  <2>3. pkts[i].dir.encrypted = in.encrypted
    BY <1>3 DEF Decrypts
  <2>. QED
    BY <1>1, <2>1, <2>2, <2>3 DEF KnowsPacket
<1>4. ~InHand' => KnowsPacket'
  BY DEF KnowsPacket, InHand
<1>5. CASE \E k : Derail(k, 1)
  BY <1>2, <1>4, <1>5
<1>. QED
  BY <1>2, <1>3, <1>4, <1>5, Zenon DEF RecvHead

LEMMA KnowsBody ==
  ASSUME TypeInv, KnowsPacket, RecvBody
  PROVE  KnowsPacket'
<1>1. /\ in \in Direction /\ UNCHANGED pkts /\ rcv \in ReceiverState(Len(pkts))
      /\ InHand /\ rcv.part - 1 \in Nat
  BY DEF TypeInv, TypeCore, TypeOK, RecvBody, ReceiverState, InHand
<1>2. CASE Derail(rcv.pid, rcv.part)
  <2>1. ~InHand'
    BY <1>1, <1>2 DEF Derail, ReceiverAt, ReceiverState, InHand
  <2>. QED
    BY <2>1 DEF KnowsPacket, InHand
<1>3. ASSUME in' \in {in, Advance(in, rcv.part - 1)}, NEW b, NEW c,
             c \in {"body", IF MacOf(in) > 0 THEN "mac" ELSE "extract"},
             rcv' = [rcv EXCEPT !.part = rcv.part + 1, !.intact = b, !.pc = c]
      PROVE  KnowsPacket'
  <2>1. in'.encrypted = in.encrypted /\ MacOf(in') = MacOf(in)
    BY <1>1, <1>3, KeptByUse
  <2>2. rcv'.pid = rcv.pid /\ rcv'.pc = c
    BY <1>1, <1>3 DEF ReceiverState
  <2>. QED
    BY <1>1, <1>3, <2>1, <2>2 DEF KnowsPacket, InHand
<1>. QED
  BY <1>2, <1>3 DEF RecvBody, RestBlocks

LEMMA KnowsMac ==
  ASSUME TypeInv, KnowsPacket, RecvMac
  PROVE  KnowsPacket'
<1>1. /\ UNCHANGED <<in, pkts>> /\ rcv \in ReceiverState(Len(pkts)) /\ InHand
  BY DEF TypeInv, TypeCore, TypeOK, RecvMac, MacFailed, InHand
<1>2. CASE Derail(rcv.pid, rcv.part) \/ ReturnError
  <2>1. ~InHand'
    BY <1>1, <1>2 DEF Derail, ReturnError, ReceiverAt, ReceiverState, InHand
  <2>. QED
    BY <2>1 DEF KnowsPacket, InHand
<1>3. CASE MacVerifies /\ ReceiverAt("extract")
  <2>1. rcv'.pid = rcv.pid /\ rcv'.pc = "extract" /\ rcv'.intact = rcv.intact
    BY <1>1, <1>3 DEF ReceiverAt, ReceiverState
  <2>. QED
    BY <1>1, <1>3, <2>1 DEF KnowsPacket, InHand, MacVerifies
<1>. QED
  BY <1>2, <1>3 DEF RecvMac, MacFailed

LEMMA KnowsNext == TypeInv /\ KnowsPacket /\ [Next]_vars => KnowsPacket'
<1>. SUFFICES ASSUME TypeInv, KnowsPacket, [Next]_vars
              PROVE  KnowsPacket'
  OBVIOUS
<1>1. rcv \in ReceiverState(Len(pkts))
  BY DEF TypeInv, TypeCore, TypeOK
<1>2. CASE UNCHANGED <<in, rcv>>
  <2>1. InHand => pkts'[rcv.pid].dir = pkts[rcv.pid].dir
    BY Ranges, PacketsGrow
  <2>. QED
    BY <1>2, <2>1 DEF KnowsPacket, InHand
<1>3. CASE RecvExtract \/ RecvDamaged \/ JunkRead \/ JunkEnd \/ RecvEof
           \/ InstallIn \/ InstallInFail
  <2>1. \/ InstallIn \/ InstallInFail
        \/ \E pc \in {"head", "junk", "install", "hung", "closed"} : ReceiverAt(pc)
    BY <1>3 DEF RecvExtract, RecvDamaged, JunkRead, JunkEnd, RecvEof, Refused,
       Accepted, ReturnError, Return
  <2>2. ~InHand'
    BY <1>1, <2>1, InstallFields DEF ReceiverAt, ReceiverState, InHand
  <2>. QED
    BY <2>2 DEF KnowsPacket, InHand
<1>4. \/ RecvHead \/ RecvBody \/ RecvMac
      \/ RecvExtract \/ RecvDamaged \/ JunkRead \/ JunkEnd \/ RecvEof
         \/ InstallIn \/ InstallInFail
      \/ UNCHANGED <<in, rcv>>
  BY DEF Next, Sender, Receiver, InstallEarly, SendBegin, WriteCell, WriteFail,
     SendReturn, InstallOut, InstallOutFail, Close, Flip, Ended, vars
<1>. QED
  BY <1>2, <1>3, <1>4, KnowsHead, KnowsBody, KnowsMac

\* What session_recv returns: the packet in hand, or bytes nobody sent, and
\* these never under a MAC.
Record(i, p) == [pid |-> i, payload |-> p, mac |-> MacOf(in), key |-> in.key]

LEMMA Delivers ==
  ASSUME TypeInv, KnowsPacket, [Next]_vars
  PROVE  \/ UNCHANGED delivered
         \/ /\ rcv.pc = "extract" /\ UNCHANGED pkts
            /\ delivered' = Append(delivered, Record(rcv.pid, pkts[rcv.pid].payload))
         \/ /\ MacOf(in) = 0 /\ UNCHANGED pkts
            /\ \E p \in Payload : delivered' = Append(delivered, Record(0, p))
<1>1. in \in Direction /\ MacOf(in) \in Nat
  <2>1. \A m \in MacEpochs \cup {0} : m \in Nat
    BY SessionAssumption
  <2>2. in \in Direction
    BY DEF TypeInv, TypeCore, TypeOK
  <2>. QED
    BY <2>1, <2>2 DEF MacOf, Direction
<1>2. CASE RecvExtract
  BY <1>2 DEF RecvExtract, Return, Record
<1>3. CASE RecvDamaged
  <2>1. MacOf(in) = 0
    BY <1>1, <1>3 DEF RecvDamaged, KnowsPacket
  <2>. QED
    BY <1>3, <2>1 DEF RecvDamaged, Refused, Accepted, Return, Record
<1>4. CASE JunkEnd
  BY <1>4 DEF JunkEnd, Refused, Accepted, Return, Record
<1>. QED
  BY <1>2, <1>3, <1>4 DEF Next, Sender, Receiver, InstallEarly, SendBegin,
     WriteCell, WriteFail, SendReturn, InstallOut, InstallOutFail, Close, RecvHead,
     RecvBody, RecvMac, JunkRead, RecvEof, InstallIn, InstallInFail, Flip, Ended, vars

(* Authenticity.                                                            *)

MacInv == StreamOrder /\ KnowsPacket /\ AuthenticUnderMac

LEMMA AuthenticNext ==
  ASSUME TypeInv, MacInv, [Next]_vars
  PROVE  AuthenticUnderMac'
<1>. DEFINE n == Len(delivered)
            Genuine(d, sent) == /\ d.pid > 0 /\ sent[d.pid].payload = d.payload
                                /\ MacOf(sent[d.pid].dir) = d.mac
<1>1. n \in Nat /\ DOMAIN delivered = 1 .. n
  BY Ranges
<1>2. ASSUME NEW j \in 1 .. n, delivered[j].mac > 0
      PROVE  /\ Genuine(delivered[j], pkts')
             /\ \A k \in 1 .. j - 1 : delivered[k].mac = delivered[j].mac
                                        => delivered[k].pid < delivered[j].pid
  <2>1. /\ Genuine(delivered[j], pkts)
        /\ \A k \in 1 .. j - 1 : delivered[k].mac = delivered[j].mac
                                   => delivered[k].pid < delivered[j].pid
    BY <1>1, <1>2 DEF MacInv, AuthenticUnderMac
  <2>2. delivered[j].pid \in 1 .. Len(pkts)
    BY <2>1, Ranges
  <2>. QED
    BY <2>1, <2>2, PacketsGrow DEF MacOf
<1>3. CASE UNCHANGED delivered
  BY <1>1, <1>2, <1>3 DEF AuthenticUnderMac
<1>4. ASSUME NEW d, delivered' = Append(delivered, d), UNCHANGED pkts,
             d.mac > 0 => /\ Genuine(d, pkts)
                          /\ \A k \in 1 .. n : delivered[k].pid < d.pid
      PROVE  AuthenticUnderMac'
  <2>1. /\ DOMAIN delivered' = 1 .. n + 1 /\ delivered'[n + 1] = d
        /\ \A k \in 1 .. n : delivered'[k] = delivered[k]
    BY <1>4 DEF TypeInv, TypeCore, TypeOK
  <2>. QED
    BY <1>1, <1>2, <1>4, <2>1 DEF AuthenticUnderMac
<1>5. ASSUME rcv.pc = "extract", UNCHANGED pkts,
             delivered' = Append(delivered, Record(rcv.pid, pkts[rcv.pid].payload))
      PROVE  AuthenticUnderMac'
  <2>. DEFINE d == Record(rcv.pid, pkts[rcv.pid].payload)
  <2>1. InHand /\ rcv.pid > 0
    BY <1>5, Ranges DEF InHand
  <2>2. \A k \in 1 .. n : delivered[k].pid < rcv.pid
    BY <2>1 DEF MacInv, StreamOrder, ReaderAhead
  <2>3. MacOf(in) > 0 => MacOf(pkts[rcv.pid].dir) = MacOf(in)
    BY <1>5, <2>1 DEF MacInv, KnowsPacket, MacOf
  <2>4. /\ d.pid = rcv.pid /\ d.payload = pkts[rcv.pid].payload
        /\ d.mac = MacOf(in)
    BY DEF Record
  <2>5. d.mac > 0 => /\ Genuine(d, pkts)
                     /\ \A k \in 1 .. n : delivered[k].pid < d.pid
    BY <2>1, <2>2, <2>3, <2>4
  <2>. QED
    BY <1>4, <1>5, <2>5
<1>6. ASSUME NEW p \in Payload, MacOf(in) = 0, UNCHANGED pkts,
             delivered' = Append(delivered, Record(0, p))
      PROVE  AuthenticUnderMac'
  <2>1. ~(Record(0, p).mac > 0)
    BY <1>6 DEF Record
  <2>. QED
    BY <1>4, <1>6, <2>1
<1>. QED
  BY <1>3, <1>5, <1>6, Delivers DEF MacInv

LEMMA MacNext == TypeInv /\ MacInv /\ [Next]_vars => MacInv'
BY OrderNext, KnowsNext, AuthenticNext DEF MacInv

LEMMA MacInit == Init => MacInv
BY DEF Init, MacInv, StreamOrder, FirstCellsAscend, WriterAhead, ReaderAhead,
   KnowsPacket, InHand, AuthenticUnderMac

\* Whatever the line does and whatever errors callers ignore, what session_recv
\* returns under a MAC is a payload that was sent under the same MAC key, and
\* payloads under one MAC key come in the order sent, none of them twice.
THEOREM Authentic == Spec => []AuthenticUnderMac
<1>1. Init => TypeInv /\ MacInv
  BY InitType, MacInit
<1>2. (TypeInv /\ MacInv) /\ [Next]_vars => (TypeInv /\ MacInv)'
  BY NextType, MacNext
<1>3. TypeInv /\ MacInv => AuthenticUnderMac
  BY DEF MacInv
<1>. QED
  BY <1>1, <1>2, <1>3, PTL DEF Spec

(* No gap, if callers disconnect at the first error.  The MAC key in use    *)
(* belongs to the cipher key in use, so that packets under one MAC key are  *)
(* packets of one keystream; and every packet of the receiver's keystream   *)
(* that lies before the receiver's position has been returned.  A sequence  *)
(* number that wraps could not tell a gap: the position does.               *)

MacOfKey(k) == IF k \in MacEpochs THEN k ELSE 0

MacFollowsKey ==
  /\ snd.pc # "closed" => out.mac = MacOfKey(out.key)
  /\ rcv.pc # "closed" => in.mac = MacOfKey(in.key)
  /\ \A i \in 1 .. Len(pkts) : pkts[i].dir.mac = MacOfKey(pkts[i].dir.key)

LEMMA SetKeysFollow ==
  ASSUME NEW d \in Direction, NEW k \in Nat
  PROVE  /\ SetKeys(d, k).key = k /\ SetKeys(d, k).mac = MacOfKey(k)
         /\ SetKeys(d, k).ctr = 0 /\ SetKeys(d, k) \in Direction
BY DirectionOps DEF Direction, SetKeys, SetCipher, MacOfKey

LEMMA ActivateKeeps ==
  ASSUME NEW d \in Direction
  PROVE  /\ Activate(d).key = d.key /\ Activate(d).mac = d.mac
         /\ Activate(d).ctr = d.ctr /\ Activate(d).seq = d.seq
         /\ Activate(d).encrypted
BY DEF Direction, Activate

LEMMA InstalledFollows ==
  ASSUME NEW d \in Direction, NEW k \in Nat
  PROVE  Activate(SetKeys(d, k)).mac = MacOfKey(Activate(SetKeys(d, k)).key)
<1>1. /\ SetKeys(d, k) \in Direction
      /\ SetKeys(d, k).mac = MacOfKey(SetKeys(d, k).key)
  BY SetKeysFollow
<1>. QED
  BY <1>1, ActivateKeeps, Zenon

LEMMA SenderFollows ==
  ASSUME TypeInv, Disconnect, MacFollowsKey, [Next]_vars
  PROVE  snd'.pc # "closed" => out'.mac = MacOfKey(out'.key)
<1>1. out \in Direction /\ snd.kex + 1 \in Nat /\ snd \in SenderState
  BY DEF TypeInv, TypeCore, TypeOK, SenderState
<1>2. ASSUME NEW p \in Payload, SendBegin(p)
      PROVE  out'.mac = MacOfKey(out'.key)
  <2>1. Blocks[p] \in Nat
    BY SessionAssumption
  <2>2. out'.mac = out.mac /\ out'.key = out.key
    BY <1>1, <1>2, <2>1, KeptByUse DEF SendBegin
  <2>. QED
    BY <1>2, <2>2 DEF MacFollowsKey, SendBegin
<1>3. CASE SendReturn
  <2>1. 0 \in Nat
    OBVIOUS
  <2>2. out'.mac = out.mac /\ out'.key = out.key
    BY <1>1, <1>3, <2>1, KeptByUse DEF SendReturn
  <2>. QED
    BY <1>3, <2>2 DEF MacFollowsKey, SendReturn
<1>4. CASE InstallEarly
  BY <1>1, <1>4, SetKeysFollow DEF InstallEarly
<1>5. CASE InstallOut
  <2>1. CASE out' = Activate(out)
    BY <1>1, <1>5, <2>1, ActivateKeeps DEF MacFollowsKey, InstallOut
  <2>2. CASE out' = Activate(SetKeys(out, snd.kex + 1))
    BY <1>1, <2>2, InstalledFollows, Zenon
  <2>. QED
    BY <1>5, <2>1, <2>2 DEF InstallOut
<1>6. CASE InstallOutFail \/ Close
  BY <1>1, <1>6 DEF InstallOutFail, Close, SenderState
<1>7. CASE WriteCell \/ WriteFail
  <2>1. out' = out /\ snd.pc # "closed"
    BY <1>7 DEF WriteCell, WriteFail, AfterFailure
  <2>. QED
    BY <2>1 DEF MacFollowsKey
<1>8. CASE UNCHANGED <<out, snd>>
  BY <1>8 DEF MacFollowsKey
<1>9. Receiver \/ Flip \/ Ended \/ UNCHANGED vars => UNCHANGED <<out, snd>>
  BY DEF Receiver, RecvHead, RecvBody, RecvMac, RecvExtract, RecvDamaged, JunkRead,
     JunkEnd, RecvEof, InstallIn, InstallInFail, Flip, Ended, vars
<1>. QED
  BY <1>2, <1>3, <1>4, <1>5, <1>6, <1>7, <1>8, <1>9 DEF Next, Sender

\* What a step does to the receiver's keys: it takes the next ones, or ends, or
\* leaves them alone.
LEMMA ReceiverKeys ==
  ASSUME TypeInv, Disconnect, [Next]_vars
  PROVE  \/ /\ in' = Activate(SetKeys(in, in.key + 1)) /\ rcv.pc = "install"
            /\ rcv'.pc = "head" /\ UNCHANGED <<pkts, delivered>>
         \/ rcv.pc = "install" /\ rcv'.pc = "closed" /\ UNCHANGED delivered
         \/ /\ in'.key = in.key /\ in'.mac = in.mac /\ MacOf(in') = MacOf(in)
            /\ in'.encrypted = in.encrypted
            /\ rcv.pc = "closed" => rcv'.pc = "closed"
<1>1. in \in Direction /\ rcv \in ReceiverState(Len(pkts))
  BY DEF TypeInv, TypeCore, TypeOK
<1>2. \A pc : ReceiverAt(pc) => rcv'.pc = pc
  BY <1>1 DEF ReceiverAt, ReceiverState
<1>3. CASE InstallIn \/ InstallInFail
  <2>1. rcv.kex = in.key
    BY <1>3, KexIsKey DEF InstallIn, InstallInFail
  <2>. QED
    BY <1>1, <1>3, <2>1, InstallFields DEF InstallIn, InstallInFail
<1>. DEFINE Kept(d) == /\ d \in Direction /\ d.key = in.key /\ d.mac = in.mac
                       /\ MacOf(d) = MacOf(in) /\ d.encrypted = in.encrypted
<1>4. ASSUME NEW d, Kept(d)
      PROVE  Kept(Count(d)) /\ \A n \in Nat : Kept(Advance(d, n))
  <2>1. 0 \in Nat
    OBVIOUS
  <2>. QED
    BY <1>4, <2>1, KeptByUse, DirectionOps
<1>5. Kept(in)
  BY <1>1
<1>6. CASE RecvHead \/ RecvMac \/ RecvExtract \/ RecvDamaged
  <2>1. in' \in {in, Advance(in, 1), Count(in)} /\ rcv.pc # "closed"
    BY <1>6 DEF RecvHead, RecvMac, MacFailed, RecvExtract, RecvDamaged, Refused,
       Accepted
  <2>. QED
    BY <1>4, <1>5, <2>1
<1>7. CASE RecvBody
  <2>1. in' \in {in, Advance(in, rcv.part - 1)} /\ rcv.pc # "closed"
    BY <1>7 DEF RecvBody, RestBlocks
  <2>2. rcv.part - 1 \in Nat
    BY <1>1 DEF ReceiverState
  <2>. QED
    BY <1>4, <1>5, <2>1, <2>2
<1>8. CASE JunkEnd
  <2>1. PICK n \in 0 .. MaxJunk : in' \in {Advance(in, n), Count(Advance(in, n))}
    BY <1>8 DEF JunkEnd, Refused, Accepted
  <2>2. n \in Nat
    BY <2>1, SessionAssumption
  <2>3. rcv.pc # "closed"
    BY <1>8 DEF JunkEnd
  <2>. QED
    BY <1>4, <1>5, <2>1, <2>2, <2>3
<1>9. CASE JunkRead \/ RecvEof
  BY <1>9 DEF JunkRead, RecvEof
<1>10. ~Receiver => UNCHANGED <<in, rcv>>
  BY DEF Next, Sender, InstallEarly, SendBegin, WriteCell, WriteFail, SendReturn,
     InstallOut, InstallOutFail, Close, Flip, Ended, vars
<1>. QED
  BY <1>3, <1>6, <1>7, <1>8, <1>9, <1>10 DEF Receiver

LEMMA FollowsNext ==
  ASSUME TypeInv, Disconnect, MacFollowsKey, [Next]_vars
  PROVE  MacFollowsKey'
<1>1. rcv'.pc # "closed" => in'.mac = MacOfKey(in'.key)
  <2>1. in \in Direction /\ in.key + 1 \in Nat
    BY NextKey DEF TypeInv, TypeCore, TypeOK
  <2>2. in' = Activate(SetKeys(in, in.key + 1)) => in'.mac = MacOfKey(in'.key)
    BY <2>1, InstalledFollows, Zenon
  <2>. QED
    BY <2>2, ReceiverKeys DEF MacFollowsKey
<1>2. ASSUME NEW i \in 1 .. Len(pkts')
      PROVE  pkts'[i].dir.mac = MacOfKey(pkts'[i].dir.key)
  <2>1. CASE i \in 1 .. Len(pkts)
    BY <2>1, PacketsGrow DEF MacFollowsKey
  <2>2. CASE i \notin 1 .. Len(pkts)
    <3>1. snd.pc = "idle" /\ pkts'[i].dir = out
      BY <1>2, <2>2, NewPacket
    <3>. QED
      BY <3>1 DEF MacFollowsKey
  <2>. QED
    BY <2>1, <2>2
<1>. QED
  BY <1>1, <1>2, SenderFollows DEF MacFollowsKey

\* Packet i is encrypted with the keystream of key k.
Under(i, k) == pkts[i].dir.encrypted /\ pkts[i].dir.key = k

Ends(i) == pkts[i].dir.ctr + Blocks[pkts[i].payload]

\* Every packet of the receiver's keystream that begins before block c has been
\* returned.
ReadUpTo(c) ==
  \A i \in 1 .. Len(pkts) : Under(i, in.key) /\ pkts[i].dir.ctr < c =>
    \E k \in 1 .. Len(delivered) : delivered[k].pid = i

BetweenPackets ==
  rcv.pc = "head" /\ MacOf(in) > 0 =>
    /\ ReadUpTo(in.ctr)
    /\ in.ctr = 0 \/ \E i \in 1 .. Len(pkts) : Under(i, in.key) /\ in.ctr <= Ends(i)

WithinPacket ==
  InHand /\ MacOf(in) > 0 =>
    /\ Under(rcv.pid, in.key) /\ ReadUpTo(pkts[rcv.pid].dir.ctr)
    /\ in.ctr = IF rcv.pc = "body" THEN pkts[rcv.pid].dir.ctr + 1
                ELSE Ends(rcv.pid)

\* The property without the condition that session_send returned 0
NoneSkipped ==
  \A j \in 1 .. Len(delivered) : delivered[j].mac > 0 =>
    \A i \in 1 .. delivered[j].pid - 1 :
      MacOf(pkts[i].dir) = delivered[j].mac =>
        \E k \in 1 .. j - 1 : delivered[k].pid = i

GapInv == MacFollowsKey /\ BetweenPackets /\ WithinPacket /\ NoneSkipped

LEMMA PositionTypes ==
  ASSUME TypeInv
  PROVE  /\ in \in Direction /\ in.key \in Nat /\ in.ctr \in Nat
         /\ out \in Direction /\ out.key \in Nat /\ out.ctr \in Nat
         /\ \A i \in 1 .. Len(pkts) :
              /\ pkts[i].dir.key \in Nat /\ pkts[i].dir.ctr \in Nat
              /\ Blocks[pkts[i].payload] \in Nat \ {0}
<1>1. in \in Direction /\ out \in Direction
  BY DEF TypeInv, TypeCore, TypeOK
<1>2. ASSUME NEW i \in 1 .. Len(pkts)
      PROVE  pkts[i].payload \in Payload /\ pkts[i].dir \in Direction
  BY Ranges
<1>. QED
  BY <1>1, <1>2, SessionAssumption DEF Direction

\* The results of session_recv are never taken back.
LEMMA DeliveredGrows ==
  ASSUME TypeInv, KnowsPacket, [Next]_vars
  PROVE  /\ Len(delivered') \in {Len(delivered), Len(delivered) + 1}
         /\ \A k \in 1 .. Len(delivered) : delivered'[k] = delivered[k]
<1>1. delivered \in Seq(Result(Len(pkts)))
  BY DEF TypeInv, TypeCore, TypeOK
<1>. QED
  BY <1>1, Delivers

LEMMA PositionsKept ==
  ASSUME TypeInv, [Next]_vars, in'.key = in.key
  PROVE  \A i \in 1 .. Len(pkts) :
           /\ i \in 1 .. Len(pkts')
           /\ Under(i, in.key)' <=> Under(i, in.key)
           /\ Ends(i)' = Ends(i) /\ pkts'[i].dir.ctr = pkts[i].dir.ctr
<1>1. Len(pkts) \in Nat
  BY Ranges
<1>. QED
  BY <1>1, PacketsGrow DEF Under, Ends

\* A packet that begins now begins where no reader has been.
LEMMA ReadUpToKept ==
  ASSUME TypeInv, KeystreamInv, KnowsPacket, [Next]_vars, in'.key = in.key,
         NEW c \in Nat, ReadUpTo(c),
         c = 0 \/ \E i \in 1 .. Len(pkts) : Under(i, in.key) /\ c <= Ends(i)
  PROVE  ReadUpTo(c)'
<1>. DEFINE n == Len(pkts)
<1>1. n \in Nat /\ Len(delivered) \in Nat /\ DOMAIN pkts = 1 .. n
  BY Ranges
<1>2. ASSUME NEW i \in 1 .. n, Under(i, out.key)
      PROVE  Ends(i) <= out.ctr
  <2>1. Behind(pkts[i], out)
    BY <1>1 DEF KeystreamInv
  <2>2. pkts[i].dir.encrypted /\ pkts[i].dir.key = out.key /\ out.key \in Nat
    BY <1>2, PositionTypes DEF Under
  <2>. QED
    BY <2>1, <2>2 DEF Behind, Ends
<1>3. ~(out.key = in.key /\ out.ctr < c)
  <2>1. out.ctr \in Nat /\ \A i \in 1 .. n : Ends(i) \in Nat
    BY PositionTypes DEF Ends
  <2>. QED
    BY <1>2, <2>1
<1>. SUFFICES ASSUME NEW i \in 1 .. Len(pkts'), Under(i, in.key)',
                     pkts'[i].dir.ctr < c
              PROVE  \E k \in 1 .. Len(delivered') : delivered'[k].pid = i
  BY DEF ReadUpTo
<1>4. i \in 1 .. n
  <2>1. CASE i \notin 1 .. n
    <3>1. pkts'[i].dir = out
      BY <2>1, NewPacket
    <3>. QED
      BY <1>3, <3>1 DEF Under
  <2>. QED
    BY <2>1
<1>5. PICK k \in 1 .. Len(delivered) : delivered[k].pid = i
  BY <1>4, PositionsKept DEF ReadUpTo
<1>. QED
  BY <1>1, <1>5, DeliveredGrows

\* Steps of the sender and of the line
LEMMA GapSender ==
  ASSUME TypeInv, KeystreamInv, KnowsPacket, BetweenPackets, WithinPacket,
         [Next]_vars, UNCHANGED <<in, rcv>>
  PROVE  BetweenPackets' /\ WithinPacket'
<1>1. in.ctr \in Nat
  BY PositionTypes
<1>2. BetweenPackets'
  <2>. SUFFICES ASSUME rcv.pc = "head", MacOf(in) > 0
                PROVE  /\ ReadUpTo(in.ctr)'
                       /\ \/ in.ctr = 0
                          \/ \E i \in 1 .. Len(pkts') :
                               Under(i, in.key)' /\ in.ctr <= Ends(i)'
    BY DEF BetweenPackets
  <2>1. /\ ReadUpTo(in.ctr)
        /\ in.ctr = 0 \/ \E i \in 1 .. Len(pkts) : Under(i, in.key) /\ in.ctr <= Ends(i)
    BY DEF BetweenPackets
  <2>2. ASSUME NEW c \in Nat, c = in.ctr
        PROVE  ReadUpTo(c)'
    BY <2>1, <2>2, ReadUpToKept
  <2>3. ReadUpTo(in.ctr)'
    BY <1>1, <2>2 DEF ReadUpTo
  <2>. QED
    BY <2>1, <2>3, PositionsKept
<1>3. WithinPacket'
  <2>. SUFFICES ASSUME InHand, MacOf(in) > 0
                PROVE  /\ Under(rcv.pid, in.key)'
                       /\ ReadUpTo(pkts[rcv.pid].dir.ctr)'
                       /\ in.ctr = IF rcv.pc = "body"
                                   THEN pkts'[rcv.pid].dir.ctr + 1
                                   ELSE Ends(rcv.pid)'
    BY DEF WithinPacket, InHand
  <2>1. rcv.pid \in 1 .. Len(pkts)
    BY Ranges
  <2>2. /\ Under(rcv.pid, in.key) /\ ReadUpTo(pkts[rcv.pid].dir.ctr)
        /\ in.ctr = IF rcv.pc = "body" THEN pkts[rcv.pid].dir.ctr + 1
                    ELSE Ends(rcv.pid)
    BY DEF WithinPacket
  <2>3. pkts[rcv.pid].dir.ctr \in Nat /\ pkts[rcv.pid].dir.ctr <= Ends(rcv.pid)
    BY <2>1, PositionTypes DEF Ends
  <2>4. ASSUME NEW c \in Nat, c = pkts[rcv.pid].dir.ctr
        PROVE  ReadUpTo(c)'
    BY <2>1, <2>2, <2>3, <2>4, ReadUpToKept
  <2>5. pkts'[rcv.pid].dir.ctr = pkts[rcv.pid].dir.ctr
    BY <2>1, PositionsKept
  <2>6. ReadUpTo(pkts[rcv.pid].dir.ctr)'
    BY <2>3, <2>4, <2>5 DEF ReadUpTo
  <2>7. Under(rcv.pid, in.key)' /\ Ends(rcv.pid)' = Ends(rcv.pid)
    <3>1. \A i \in 1 .. Len(pkts) : pkts'[i].payload = pkts[i].payload
                                    /\ pkts'[i].dir = pkts[i].dir
      BY PacketsGrow
    <3>. QED
      BY <2>1, <2>2, <3>1 DEF Under, Ends
  <2>. QED
    BY <2>2, <2>5, <2>6, <2>7
<1>. QED
  BY <1>2, <1>3

(* Steps of the receiver: only where it stands between packets, or within   *)
(* one, does it claim anything.                                             *)

LEMMA GapClosed ==
  ASSUME rcv'.pc # "head", ~InHand'
  PROVE  BetweenPackets' /\ WithinPacket'
BY DEF BetweenPackets, WithinPacket

\* Where a caller that disconnects goes after an error, and a reader that lost
\* its place.
LEMMA GapLost ==
  ASSUME TypeInv, Disconnect, ReturnError \/ \E i, k : Derail(i, k)
  PROVE  rcv'.pc # "head" /\ ~InHand'
<1>1. rcv \in ReceiverState(Len(pkts))
  BY DEF TypeInv, TypeCore, TypeOK
<1>. QED
  BY <1>1 DEF ReturnError, Derail, ReceiverAt, ReceiverState, InHand

LEMMA GapHead ==
  ASSUME TypeInv, Disconnect, BetweenPackets, RecvHead
  PROVE  BetweenPackets' /\ WithinPacket'
<1>. DEFINE i == Head(wire).pid
<1>1. UNCHANGED <<pkts, delivered>> /\ rcv.pc = "head"
  BY DEF RecvHead
<1>2. CASE ReturnError \/ \E k : Derail(k, 1)
  BY <1>2, GapLost, GapClosed
<1>3. ASSUME Decrypts(i), in' = Advance(in, 1),
             rcv' = [rcv EXCEPT
                       !.pc = IF DataCells(i) > 1 THEN "body"
                              ELSE IF MacOf(in) > 0 THEN "mac" ELSE "extract",
                       !.pid = i, !.part = 2, !.intact = Head(wire).shape = "whole"]
      PROVE  BetweenPackets' /\ WithinPacket'
  <2>0. /\ rcv'.pid = i
        /\ rcv'.pc = IF DataCells(i) > 1 THEN "body"
                     ELSE IF MacOf(in) > 0 THEN "mac" ELSE "extract"
    <3>1. rcv \in ReceiverState(Len(pkts))
      BY DEF TypeInv, TypeCore, TypeOK
    <3>. QED
      BY <1>3, <3>1 DEF ReceiverState
  <2>1. BetweenPackets'
    BY <2>0 DEF BetweenPackets
  <2>2. i \in 1 .. Len(pkts)
    <3>1. wire \in Seq(CellOf(Len(pkts))) /\ wire # <<>>
      BY DEF TypeInv, TypeCore, TypeOK, RecvHead
    <3>2. Head(wire) \in CellOf(Len(pkts))
      BY <3>1
    <3>. QED
      BY <3>2 DEF CellOf
  <2>3. /\ in \in Direction /\ in.ctr \in Nat /\ pkts[i].dir.ctr \in Nat
        /\ Blocks[pkts[i].payload] \in Nat \ {0}
    BY <2>2, PositionTypes
  <2>4. /\ in'.key = in.key /\ MacOf(in') = MacOf(in)
        /\ in.encrypted => in'.ctr = in.ctr + 1
    BY <1>3, <2>3, KeptByUse
  <2>5. ASSUME MacOf(in) > 0
        PROVE  /\ Under(i, in.key) /\ ReadUpTo(pkts[i].dir.ctr)
               /\ in'.ctr = pkts[i].dir.ctr + 1
               /\ DataCells(i) = Blocks[pkts[i].payload]
    <3>1. in.encrypted
      BY <2>5 DEF MacOf
    <3>2. Under(i, in.key) /\ in.ctr = pkts[i].dir.ctr
      BY <1>3, <3>1 DEF Decrypts, Under
    <3>. QED
      BY <1>1, <2>4, <2>5, <3>1, <3>2 DEF BetweenPackets, DataCells, Under
  <2>6. /\ rcv'.pid = i
        /\ rcv'.pc = "body" <=> DataCells(i) > 1
    BY <2>0
  <2>7. ASSUME MacOf(in)' > 0
        PROVE  /\ Under(rcv.pid, in.key)' /\ ReadUpTo(pkts[rcv.pid].dir.ctr)'
               /\ in'.ctr = IF rcv'.pc = "body" THEN pkts'[rcv'.pid].dir.ctr + 1
                            ELSE Ends(rcv.pid)'
    <3>1. MacOf(in) > 0
      BY <2>4, <2>7
    <3>2. Under(rcv.pid, in.key)'
      BY <1>1, <2>4, <2>5, <2>6, <3>1 DEF Under
    <3>3. ReadUpTo(pkts[rcv.pid].dir.ctr)'
      BY <1>1, <2>4, <2>5, <2>6, <3>1 DEF ReadUpTo, Under
    <3>4. rcv'.pc # "body" => Blocks[pkts[i].payload] = 1
      BY <2>3, <2>5, <2>6, <3>1
    <3>. QED
      BY <1>1, <2>5, <2>6, <3>1, <3>2, <3>3, <3>4 DEF Ends
  <2>. QED
    BY <2>1, <2>7 DEF WithinPacket
<1>. QED
  BY <1>2, <1>3, Zenon DEF RecvHead

LEMMA GapBody ==
  ASSUME TypeInv, Disconnect, WithinPacket, KnowsPacket, RecvBody
  PROVE  BetweenPackets' /\ WithinPacket'
<1>. DEFINE i == rcv.pid
<1>1. /\ UNCHANGED <<pkts, delivered>> /\ rcv.pc = "body" /\ InHand
      /\ i \in 1 .. Len(pkts) /\ rcv \in ReceiverState(Len(pkts))
      /\ rcv.part - 1 \in Nat /\ in \in Direction /\ in.ctr \in Nat
      /\ rcv.part \in Nat
  <2>1. UNCHANGED <<pkts, delivered>> /\ rcv.pc = "body" /\ InHand
    BY DEF RecvBody, InHand
  <2>2. i \in 1 .. Len(pkts) /\ rcv.part \in Nat \ {0}
    BY <2>1, Ranges
  <2>. QED
    BY <2>1, <2>2, PositionTypes DEF TypeInv, TypeCore, TypeOK
<1>2. CASE Derail(rcv.pid, rcv.part)
  BY <1>2, GapLost, GapClosed
<1>3. ASSUME NEW b, NEW c,
             rcv' = [rcv EXCEPT !.part = rcv.part + 1, !.intact = b, !.pc = c],
             \/ c = "body" /\ in' = in
             \/ /\ c \in {"mac", "extract"} /\ rcv.part = DataCells(i)
                /\ in' = Advance(in, rcv.part - 1)
      PROVE  BetweenPackets' /\ WithinPacket'
  <2>1. rcv'.pid = i /\ rcv'.pc = c
    BY <1>1, <1>3 DEF ReceiverState
  <2>2. /\ in'.key = in.key /\ MacOf(in') = MacOf(in)
        /\ in.encrypted /\ c # "body" => in'.ctr = in.ctr + (rcv.part - 1)
    BY <1>1, <1>3, KeptByUse
  <2>3. BetweenPackets'
    BY <1>3, <2>1 DEF BetweenPackets
  <2>4. ASSUME MacOf(in)' > 0
        PROVE  /\ Under(rcv.pid, in.key)' /\ ReadUpTo(pkts[rcv.pid].dir.ctr)'
               /\ in'.ctr = IF rcv'.pc = "body" THEN pkts'[rcv'.pid].dir.ctr + 1
                            ELSE Ends(rcv.pid)'
    <3>1. /\ Under(i, in.key) /\ ReadUpTo(pkts[i].dir.ctr)
          /\ in.ctr = pkts[i].dir.ctr + 1 /\ in.encrypted
      BY <1>1, <2>2, <2>4 DEF WithinPacket, MacOf
    <3>2. Under(rcv.pid, in.key)' /\ ReadUpTo(pkts[rcv.pid].dir.ctr)'
      BY <1>1, <2>1, <2>2, <3>1 DEF Under, ReadUpTo
    <3>3. pkts[i].dir.ctr \in Nat /\ Blocks[pkts[i].payload] \in Nat
      BY <1>1, PositionTypes
    <3>4. CASE c = "body"
      BY <1>1, <1>3, <2>1, <3>1, <3>2, <3>4
    <3>5. CASE c # "body"
      <4>1. rcv.part = Blocks[pkts[i].payload]
        BY <1>3, <3>1, <3>5 DEF DataCells, Under
      <4>2. in'.ctr = (pkts[i].dir.ctr + 1) + (Blocks[pkts[i].payload] - 1)
        BY <2>2, <3>1, <3>5, <4>1
      <4>3. in'.ctr = Ends(i)
        BY <3>3, <4>2 DEF Ends
      <4>. QED
        BY <1>1, <2>1, <3>2, <3>5, <4>3 DEF Ends
    <3>. QED
      BY <3>4, <3>5
  <2>. QED
    BY <2>3, <2>4 DEF WithinPacket
<1>. QED
  BY <1>2, <1>3 DEF RecvBody, RestBlocks

LEMMA GapMac ==
  ASSUME TypeInv, Disconnect, WithinPacket, RecvMac
  PROVE  BetweenPackets' /\ WithinPacket'
<1>1. /\ UNCHANGED <<in, pkts, delivered>> /\ rcv.pc = "mac" /\ InHand
      /\ rcv \in ReceiverState(Len(pkts))
  BY DEF TypeInv, TypeCore, TypeOK, RecvMac, MacFailed, InHand
<1>2. CASE Derail(rcv.pid, rcv.part) \/ ReturnError
  BY <1>2, GapLost, GapClosed
<1>3. CASE ReceiverAt("extract")
  <2>1. rcv'.pid = rcv.pid /\ rcv'.pc = "extract"
    BY <1>1, <1>3 DEF ReceiverAt, ReceiverState
  <2>. QED
    BY <1>1, <2>1 DEF BetweenPackets, WithinPacket, ReadUpTo, Under, Ends
<1>. QED
  BY <1>2, <1>3 DEF RecvMac, MacFailed

\* The packet in hand is returned: the position moves to its end.
LEMMA GapExtract ==
  ASSUME TypeInv, Disconnect, KeystreamInv, WithinPacket, RecvExtract
  PROVE  BetweenPackets' /\ WithinPacket'
<1>. DEFINE i == rcv.pid
<1>1. /\ UNCHANGED pkts /\ rcv.pc = "extract" /\ InHand
      /\ rcv \in ReceiverState(Len(pkts))
  BY DEF TypeInv, TypeCore, TypeOK, RecvExtract, InHand
<1>2. i \in 1 .. Len(pkts) /\ DOMAIN pkts = 1 .. Len(pkts)
  BY <1>1, Ranges
<1>3. CASE ReturnError
  BY <1>3, GapLost, GapClosed
<1>4. CASE Return(i, pkts[i].payload) /\ in' = Count(in)
  <2>1. rcv'.pc \in {"install", "head"} /\ ~InHand'
    BY <1>1, <1>4 DEF Return, ReceiverAt, ReceiverState, InHand
  <2>2. in'.key = in.key /\ MacOf(in') = MacOf(in) /\ in'.ctr = in.ctr
    <3>1. in \in Direction /\ 0 \in Nat
      BY PositionTypes
    <3>. QED
      BY <1>4, <3>1, KeptByUse
  <2>3. ASSUME MacOf(in)' > 0
        PROVE  /\ ReadUpTo(in.ctr)'
               /\ \E k \in 1 .. Len(pkts') : Under(k, in.key)' /\ in'.ctr <= Ends(k)'
    <3>1. Under(i, in.key) /\ ReadUpTo(pkts[i].dir.ctr) /\ in.ctr = Ends(i)
      BY <1>1, <2>2, <2>3 DEF WithinPacket
    <3>2. in.ctr \in Nat
      BY PositionTypes
    <3>3. \E k \in 1 .. Len(pkts') : Under(k, in.key)' /\ in'.ctr <= Ends(k)'
      BY <1>1, <1>2, <2>2, <3>1, <3>2 DEF Under, Ends
    <3>4. /\ Len(delivered) \in Nat /\ Len(delivered') = Len(delivered) + 1
          /\ delivered'[Len(delivered) + 1].pid = i
          /\ \A k \in 1 .. Len(delivered) : delivered'[k] = delivered[k]
      BY <1>4 DEF Return, TypeInv, TypeCore, TypeOK
    <3>5. ASSUME NEW k \in 1 .. Len(pkts), Under(k, in.key), pkts[k].dir.ctr < in.ctr
          PROVE  k = i \/ pkts[k].dir.ctr < pkts[i].dir.ctr
      <4>1. /\ pkts[k].dir.ctr \in Nat /\ pkts[i].dir.ctr \in Nat
            /\ Blocks[pkts[k].payload] \in Nat \ {0}
            /\ Blocks[pkts[i].payload] \in Nat \ {0}
        BY <1>2, PositionTypes
      <4>2. CASE k < i
        <5>1. k \in 1 .. i - 1
          BY <1>2, <4>2
        <5>2. pkts[k].dir.ctr + Blocks[pkts[k].payload] <= pkts[i].dir.ctr
          BY <1>2, <3>1, <3>5, <5>1 DEF KeystreamInv, NoKeystreamReuse, Under
        <5>. QED
          BY <4>1, <5>2
      <4>3. CASE i < k
        <5>1. i \in 1 .. k - 1
          BY <1>2, <4>3
        <5>2. pkts[i].dir.ctr + Blocks[pkts[i].payload] <= pkts[k].dir.ctr
          BY <1>2, <3>1, <3>5, <5>1 DEF KeystreamInv, NoKeystreamReuse, Under
        <5>. QED
          BY <3>1, <3>5, <4>1, <5>2 DEF Ends
      <4>. QED
        BY <1>2, <4>2, <4>3
    <3>6. ReadUpTo(in.ctr)'
      <4>. SUFFICES ASSUME NEW k \in 1 .. Len(pkts), Under(k, in.key),
                           pkts[k].dir.ctr < in.ctr
                    PROVE  \E j \in 1 .. Len(delivered') : delivered'[j].pid = k
        BY <1>1, <2>2 DEF ReadUpTo, Under
      <4>1. CASE k = i
        BY <3>4, <4>1
      <4>2. CASE pkts[k].dir.ctr < pkts[i].dir.ctr
        <5>1. \E j \in 1 .. Len(delivered) : delivered[j].pid = k
          BY <3>1, <4>2 DEF ReadUpTo
        <5>. QED
          BY <3>4, <5>1
      <4>. QED
        BY <3>5, <4>1, <4>2
    <3>. QED
      BY <3>3, <3>6
  <2>4. BetweenPackets'
    BY <2>3 DEF BetweenPackets
  <2>. QED
    BY <2>1, <2>4 DEF WithinPacket
<1>. QED
  BY <1>3, <1>4 DEF RecvExtract

\* Bytes nobody sent are returned only where there is no MAC.
LEMMA GapUnverified ==
  ASSUME TypeInv, Disconnect, KnowsPacket, RecvDamaged \/ JunkEnd
  PROVE  BetweenPackets' /\ WithinPacket'
<1>1. in \in Direction /\ MacOf(in) \in Nat
  <2>1. in \in Direction /\ (\A m \in MacEpochs \cup {0} : m \in Nat)
    BY PositionTypes, SessionAssumption
  <2>2. MacOf(in) \in MacEpochs \cup {0}
    <3>1. 0 \in Nat
      OBVIOUS
    <3>. QED
      BY <2>1, <3>1, DirectionOps
  <2>. QED
    BY <2>1, <2>2
<1>2. CASE ReturnError
  BY <1>2, GapLost, GapClosed
<1>3. CASE MacOf(in') = 0
  BY <1>3 DEF BetweenPackets, WithinPacket
<1>4. CASE RecvDamaged /\ Accepted(in)
  <2>1. MacOf(in) = 0
    BY <1>1, <1>4 DEF RecvDamaged, KnowsPacket
  <2>2. in' \in {in, Count(in)}
    BY <1>4 DEF Accepted
  <2>3. 0 \in Nat
    OBVIOUS
  <2>. QED
    BY <1>1, <1>3, <2>1, <2>2, <2>3, KeptByUse
<1>5. ASSUME NEW n \in 0 .. MaxJunk, MacOf(in) = 0, Accepted(Advance(in, n))
      PROVE  MacOf(in') = 0
  <2>1. n \in Nat /\ in' \in {Advance(in, n), Count(Advance(in, n))}
    BY <1>5, SessionAssumption DEF Accepted
  <2>2. Advance(in, n) \in Direction
    BY <1>1, <2>1, DirectionOps
  <2>. QED
    BY <1>1, <1>5, <2>1, <2>2, KeptByUse
<1>. QED
  BY <1>2, <1>3, <1>4, <1>5 DEF RecvDamaged, JunkEnd, Refused

\* New keys start a keystream of which nothing has been read.
LEMMA GapEnds ==
  ASSUME TypeInv, Disconnect, JunkRead \/ RecvEof \/ InstallIn \/ InstallInFail
  PROVE  BetweenPackets' /\ WithinPacket'
<1>1. /\ UNCHANGED <<pkts, delivered>> /\ rcv \in ReceiverState(Len(pkts))
      /\ in \in Direction /\ rcv.kex + 1 \in Nat
  <2>1. UNCHANGED <<pkts, delivered>>
    BY DEF JunkRead, RecvEof, InstallIn, InstallInFail
  <2>2. rcv \in ReceiverState(Len(pkts)) /\ in \in Direction
    BY DEF TypeInv, TypeCore, TypeOK
  <2>3. rcv.kex + 1 \in Nat
    BY <2>2 DEF ReceiverState
  <2>. QED
    BY <2>1, <2>2, <2>3
<1>2. CASE JunkRead \/ RecvEof \/ InstallInFail
  <2>1. ReceiverAt("junk") \/ ReceiverAt("closed") \/ InstallInFail
    BY <1>2 DEF JunkRead, RecvEof
  <2>2. rcv'.pc # "head" /\ ~InHand'
    BY <1>1, <2>1, InstallFields DEF ReceiverAt, ReceiverState, InHand
  <2>. QED
    BY <2>2, GapClosed
<1>3. CASE InstallIn
  <2>1. in'.ctr = 0
    <3>1. /\ SetKeys(in, rcv.kex + 1).ctr = 0
          /\ SetKeys(in, rcv.kex + 1) \in Direction
      BY <1>1, SetKeysFollow
    <3>2. Activate(SetKeys(in, rcv.kex + 1)).ctr = 0
      BY <3>1, ActivateKeeps
    <3>. QED
      BY <1>3, <3>2 DEF InstallIn
  <2>2. ~InHand'
    BY <1>1, <1>3, InstallFields DEF InHand
  <2>3. ReadUpTo(in.ctr)'
    <3>1. \A i \in 1 .. Len(pkts) : ~(pkts[i].dir.ctr < 0)
      BY PositionTypes
    <3>. QED
      BY <1>1, <2>1, <3>1 DEF ReadUpTo
  <2>. QED
    BY <2>1, <2>2, <2>3 DEF BetweenPackets, WithinPacket
<1>. QED
  BY <1>2, <1>3

LEMMA GapNext ==
  ASSUME TypeInv, Disconnect, KeystreamInv, KnowsPacket, BetweenPackets,
         WithinPacket, [Next]_vars
  PROVE  BetweenPackets' /\ WithinPacket'
<1>1. CASE Receiver
  BY <1>1, GapHead, GapBody, GapMac, GapExtract, GapUnverified, GapEnds
  DEF Receiver
<1>2. CASE ~Receiver
  <2>1. UNCHANGED <<in, rcv>>
    BY <1>2 DEF Next, Sender, InstallEarly, SendBegin, WriteCell, WriteFail,
       SendReturn, InstallOut, InstallOutFail, Close, Flip, Ended, vars
  <2>. QED
    BY <2>1, GapSender
<1>. QED
  BY <1>1, <1>2

\* A packet under the MAC key of the packet in hand, and sent before it, is
\* one of its keystream and lies before it there.
LEMMA NoneSkippedNext ==
  ASSUME TypeInv, KeystreamInv, KnowsPacket, GapInv, [Next]_vars
  PROVE  NoneSkipped'
<1>. DEFINE n == Len(delivered)
<1>1. n \in Nat /\ (\A m \in MacEpochs : m > 0)
  BY Ranges, SessionAssumption
<1>2. ASSUME NEW j \in 1 .. n, delivered[j].mac > 0, NEW i \in 1 .. delivered[j].pid - 1,
             MacOf(pkts'[i].dir) = delivered[j].mac
      PROVE  \E k \in 1 .. j - 1 : delivered'[k].pid = i
  <2>1. delivered[j].pid \in 0 .. Len(pkts) /\ Len(pkts) \in Nat
    BY Ranges
  <2>2. i \in 1 .. Len(pkts)
    BY <2>1
  <2>3. MacOf(pkts[i].dir) = delivered[j].mac
    BY <1>2, <2>2, PacketsGrow
  <2>4. PICK k \in 1 .. j - 1 : delivered[k].pid = i
    BY <1>2, <2>3 DEF GapInv, NoneSkipped
  <2>5. k \in 1 .. n
    BY <1>1, <2>4
  <2>. QED
    BY <2>4, <2>5, DeliveredGrows
<1>3. CASE UNCHANGED delivered
  BY <1>2, <1>3 DEF NoneSkipped
<1>4. ASSUME NEW d, delivered' = Append(delivered, d),
             d.mac > 0 => \A i \in 1 .. d.pid - 1 : MacOf(pkts'[i].dir) = d.mac =>
                            \E k \in 1 .. n : delivered[k].pid = i
      PROVE  NoneSkipped'
  <2>1. /\ Len(delivered') = n + 1 /\ delivered'[n + 1] = d
        /\ \A k \in 1 .. n : delivered'[k] = delivered[k]
    BY <1>4 DEF TypeInv, TypeCore, TypeOK
  <2>. SUFFICES ASSUME NEW j \in 1 .. n + 1, delivered'[j].mac > 0,
                       NEW i \in 1 .. delivered'[j].pid - 1,
                       MacOf(pkts'[i].dir) = delivered'[j].mac
                PROVE  \E k \in 1 .. j - 1 : delivered'[k].pid = i
    BY <2>1 DEF NoneSkipped
  <2>2. CASE j \in 1 .. n
    BY <1>2, <2>1, <2>2
  <2>3. CASE j = n + 1
    <3>1. \E k \in 1 .. n : delivered[k].pid = i
      BY <1>4, <2>1, <2>3
    <3>2. (n + 1) - 1 = n
      BY <1>1
    <3>. QED
      BY <2>1, <2>3, <3>1, <3>2
  <2>. QED
    BY <1>1, <2>2, <2>3
<1>5. ASSUME rcv.pc = "extract", UNCHANGED pkts, MacOf(in) > 0,
             NEW i \in 1 .. rcv.pid - 1, MacOf(pkts[i].dir) = MacOf(in)
      PROVE  \E k \in 1 .. n : delivered[k].pid = i
  <2>1. InHand
    BY <1>5 DEF InHand
  <2>2. rcv.pid \in 1 .. Len(pkts) /\ Len(pkts) \in Nat /\ DOMAIN pkts = 1 .. Len(pkts)
    BY <2>1, Ranges
  <2>3. i \in 1 .. Len(pkts)
    BY <2>2
  <2>4. /\ in.encrypted /\ in.mac = MacOfKey(in.key) /\ in.mac > 0
        /\ pkts[i].dir.encrypted /\ pkts[i].dir.mac = in.mac
        /\ pkts[i].dir.mac = MacOfKey(pkts[i].dir.key)
    BY <1>5, <2>3 DEF MacOf, GapInv, MacFollowsKey
  <2>5. Under(i, in.key)
    BY <2>4 DEF MacOfKey, Under
  <2>6. Under(rcv.pid, in.key) /\ ReadUpTo(pkts[rcv.pid].dir.ctr)
    BY <1>5, <2>1 DEF GapInv, WithinPacket
  <2>7. pkts[i].dir.ctr + Blocks[pkts[i].payload] <= pkts[rcv.pid].dir.ctr
    BY <2>2, <2>5, <2>6 DEF KeystreamInv, NoKeystreamReuse, Under
  <2>8. pkts[i].dir.ctr < pkts[rcv.pid].dir.ctr
    <3>1. /\ pkts[i].dir.ctr \in Nat /\ pkts[rcv.pid].dir.ctr \in Nat
          /\ Blocks[pkts[i].payload] \in Nat \ {0}
      BY <2>2, <2>3, PositionTypes
    <3>. QED
      BY <2>7, <3>1
  <2>. QED
    BY <2>3, <2>5, <2>6, <2>8 DEF ReadUpTo
<1>6. ASSUME rcv.pc = "extract", UNCHANGED pkts,
             delivered' = Append(delivered, Record(rcv.pid, pkts[rcv.pid].payload))
      PROVE  NoneSkipped'
  <2>. DEFINE d == Record(rcv.pid, pkts[rcv.pid].payload)
  <2>1. d.pid = rcv.pid /\ d.mac = MacOf(in)
    BY DEF Record
  <2>2. d.mac > 0 => \A i \in 1 .. d.pid - 1 : MacOf(pkts'[i].dir) = d.mac =>
                       \E k \in 1 .. n : delivered[k].pid = i
    BY <1>5, <1>6, <2>1
  <2>. QED
    BY <1>4, <1>6, <2>2
<1>7. ASSUME NEW p \in Payload, MacOf(in) = 0,
             delivered' = Append(delivered, Record(0, p))
      PROVE  NoneSkipped'
  <2>1. ~(Record(0, p).mac > 0)
    BY <1>7 DEF Record
  <2>. QED
    BY <1>4, <1>7, <2>1
<1>. QED
  BY <1>3, <1>6, <1>7, Delivers

LEMMA GapInit == Init => GapInv
BY DEF Init, GapInv, MacFollowsKey, MacOfKey, Fresh, BetweenPackets, WithinPacket,
   NoneSkipped, InHand, MacOf

\* If callers disconnect at the first error, a payload that session_recv returns
\* under a MAC comes after everything sent before it under the same MAC key, for
\* as many packets as there are: also once the sequence number has wrapped.
THEOREM NoGap == ASSUME Disconnect PROVE Spec => []NoGapUnderMac
<1>. DEFINE Inv == TypeInv /\ KeystreamInv /\ MacInv /\ GapInv
<1>1. Init => Inv
  BY InitType, MacInit, GapInit DEF Init, KeystreamInv, NoKeystreamReuse
<1>2. Inv /\ [Next]_vars => Inv'
  <2>. SUFFICES ASSUME Inv, [Next]_vars
                PROVE  Inv'
    OBVIOUS
  <2>1. TypeInv' /\ KeystreamInv' /\ MacInv'
    BY NextType, KeystreamNext, MacNext
  <2>2. MacFollowsKey' /\ BetweenPackets' /\ WithinPacket' /\ NoneSkipped'
    BY FollowsNext, GapNext, NoneSkippedNext DEF GapInv, MacInv
  <2>. QED
    BY <2>1, <2>2 DEF GapInv
<1>3. Inv => NoGapUnderMac
  <2>. SUFFICES ASSUME TypeInv, NoneSkipped
                PROVE  NoGapUnderMac
    BY DEF GapInv
  <2>1. DOMAIN delivered = 1 .. Len(delivered)
    BY Ranges
  <2>. QED
    BY <2>1 DEF NoneSkipped, NoGapUnderMac
<1>. QED
  BY <1>1, <1>2, <1>3, PTL DEF Spec

-----------------------------------------------------------------------------
(* Counting.                                                                *)

\* The remainder is unique.
LEMMA Remainder ==
  ASSUME NEW m \in Nat \ {0}, NEW q \in Int, NEW r \in 0 .. m - 1,
         NEW a \in Int, a = m * q + r
  PROVE  a % m = r
OBVIOUS

LEMMA Quotient ==
  ASSUME NEW a \in Nat, NEW m \in Nat \ {0}
  PROVE  /\ a = m * (a \div m) + (a % m)
         /\ a \div m \in Nat /\ a % m \in 0 .. m - 1
OBVIOUS

\* A counter that wraps counts modulo m.
LEMMA WrapCounts ==
  ASSUME NEW a \in Nat, NEW m \in Nat \ {0}
  PROVE  ((a % m) + 1) % m = (a + 1) % m
<1>. DEFINE q == a \div m
            r == a % m
<1>1. a = m * q + r /\ q \in Nat /\ r \in 0 .. m - 1
  BY Quotient
<1>. HIDE DEF q, r
<1>2. CASE r + 1 < m
  <2>1. a + 1 = m * q + (r + 1) /\ r + 1 = m * 0 + (r + 1) /\ r + 1 \in 0 .. m - 1
    BY <1>1, <1>2
  <2>2. (a + 1) % m = r + 1 /\ (r + 1) % m = r + 1
    BY <1>1, <2>1, Remainder
  <2>. QED
    BY <2>2 DEF r
<1>3. CASE r + 1 = m
  <2>1. a + 1 = m * (q + 1) + 0 /\ r + 1 = m * 1 + 0 /\ 0 \in 0 .. m - 1
    BY <1>1, <1>3
  <2>2. (a + 1) % m = 0 /\ (r + 1) % m = 0
    BY <1>1, <2>1, Remainder
  <2>. QED
    BY <2>2 DEF r
<1>. QED
  BY <1>1, <1>2, <1>3

(* Sequence numbers.                                                        *)

LEMMA SeqOps ==
  ASSUME NEW d \in Direction, NEW n \in Nat
  PROVE  /\ Advance(d, n).seq = d.seq /\ Activate(d).seq = d.seq
         /\ SetKeys(d, n).seq = d.seq /\ SetCipher(d, n).seq = d.seq
         /\ Count(d).seq = (d.seq + 1) % SeqMod
BY DEF Direction, Advance, Activate, SetKeys, SetCipher, Count

LEMMA InstalledSeq ==
  ASSUME NEW d \in Direction, NEW k \in Nat
  PROVE  /\ SetKeys(d, k).seq = d.seq /\ Activate(SetKeys(d, k)).seq = d.seq
         /\ Activate(d).seq = d.seq
         /\ \A e \in SetKeysFailed(d, k) : e.seq = d.seq
<1>1. /\ SetKeys(d, k) \in Direction /\ SetCipher(d, k) \in Direction
  BY DirectionOps
<1>2. \A e \in Direction : Activate(e).seq = e.seq
  BY DEF Direction, Activate
<1>3. SetKeys(d, k).seq = d.seq /\ SetCipher(d, k).seq = d.seq
  BY SeqOps
<1>4. SetKeysFailed(d, k) \subseteq
        {d, SetCipher(d, k), Activate(d), Activate(SetCipher(d, k))}
  BY DEF SetKeysFailed
<1>. QED
  BY <1>1, <1>2, <1>3, <1>4

\* session_recv counts a packet exactly when it returns one.
LEMMA ReceiverCounts ==
  ASSUME TypeInv, [Next]_vars
  PROVE  \/ UNCHANGED delivered /\ in'.seq = in.seq
         \/ /\ \E d : delivered' = Append(delivered, d)
            /\ in'.seq = (in.seq + 1) % SeqMod
<1>1. in \in Direction /\ rcv.kex + 1 \in Nat /\ rcv.part - 1 \in Nat
  BY Ranges DEF TypeInv, TypeCore, TypeOK, ReceiverState
<1>2. CASE InstallIn \/ InstallInFail
  <2>1. UNCHANGED delivered
    BY <1>2 DEF InstallIn, InstallInFail
  <2>. QED
    BY <1>1, <1>2, <2>1, InstalledSeq DEF InstallIn, InstallInFail
<1>3. CASE RecvHead \/ RecvBody \/ RecvMac
  <2>1. in' \in {in, Advance(in, 1), Advance(in, rcv.part - 1)}
    BY <1>3 DEF RecvHead, RecvBody, RestBlocks, RecvMac, MacFailed
  <2>2. UNCHANGED delivered
    BY <1>3 DEF RecvHead, RecvBody, RecvMac
  <2>. QED
    BY <1>1, <2>1, <2>2, SeqOps
<1>4. CASE RecvExtract
  <2>1. 0 \in Nat
    OBVIOUS
  <2>. QED
    BY <1>1, <1>4, <2>1, SeqOps DEF RecvExtract, Return
<1>5. ASSUME NEW n \in Nat, Refused(Advance(in, n)) \/ Accepted(Advance(in, n))
      PROVE  \/ UNCHANGED delivered /\ in'.seq = in.seq
             \/ /\ \E d : delivered' = Append(delivered, d)
                /\ in'.seq = (in.seq + 1) % SeqMod
  <2>1. Advance(in, n) \in Direction
    BY <1>1, <1>5, DirectionOps
  <2>2. /\ Advance(in, n).seq = in.seq
        /\ Count(Advance(in, n)).seq = (in.seq + 1) % SeqMod
    BY <1>1, <1>5, <2>1, SeqOps
  <2>3. CASE Refused(Advance(in, n))
    BY <2>2, <2>3, Zenon DEF Refused
  <2>4. CASE Accepted(Advance(in, n))
    BY <2>2, <2>4, Zenon DEF Accepted, Return
  <2>. QED
    BY <1>5, <2>3, <2>4
<1>6. CASE RecvDamaged
  <2>1. 0 \in Nat
    OBVIOUS
  <2>. QED
    BY <1>1, <1>6, <2>1, SeqOps DEF RecvDamaged, Refused, Accepted, Return
<1>7. CASE JunkEnd
  <2>1. PICK n \in 0 .. MaxJunk : Refused(Advance(in, n)) \/ Accepted(Advance(in, n))
    BY <1>7 DEF JunkEnd
  <2>2. n \in Nat
    BY <2>1, SessionAssumption
  <2>. QED
    BY <1>5, <2>1, <2>2
<1>8. CASE UNCHANGED <<in, delivered>>
  BY <1>8
<1>. QED
  BY <1>2, <1>3, <1>4, <1>6, <1>7, <1>8 DEF Next, Sender, Receiver, InstallEarly,
     SendBegin, WriteCell, WriteFail, SendReturn, InstallOut, InstallOutFail, Close,
     JunkRead, RecvEof, Flip, Ended, vars

\* The calls of session_send that returned 0
Done == {i \in DOMAIN pkts : pkts[i].done}

LEMMA DoneFinite ==
  ASSUME TypeInv
  PROVE  IsFiniteSet(Done) /\ Cardinality(Done) \in Nat
<1>1. Done \in SUBSET (1 .. Len(pkts)) /\ Len(pkts) \in Int
  BY Ranges DEF Done
<1>2. IsFiniteSet(Done)
  <2>1. IsFiniteSet(1 .. Len(pkts))
    BY <1>1, FS_Interval
  <2>. QED
    BY <1>1, <2>1, FS_Subset
<1>. QED
  BY <1>2, FS_CardinalityType

\* The packet being written is not done, so that its return counts it.
SeqInv ==
  /\ SeqCountsCalls
  /\ snd.pc \in {"writing", "written"} => ~pkts[Len(pkts)].done

\* session_send counts a packet exactly when it returns 0.
LEMMA SenderCounts ==
  ASSUME TypeInv, SeqInv, [Next]_vars
  PROVE  /\ \/ Done' = Done /\ out'.seq = out.seq
            \/ /\ Cardinality(Done') = Cardinality(Done) + 1
               /\ out'.seq = (out.seq + 1) % SeqMod
         /\ snd'.pc \in {"writing", "written"} => ~pkts'[Len(pkts')].done
<1>. DEFINE n == Len(pkts)
<1>1. /\ out \in Direction /\ snd.kex + 1 \in Nat /\ pkts \in Seq(SendCall)
      /\ snd \in SenderState /\ n \in Nat /\ DOMAIN pkts = 1 .. n
  BY Ranges DEF TypeInv, TypeCore, TypeOK, SenderState
<1>2. ASSUME NEW p \in Payload, SendBegin(p)
      PROVE  /\ Done' = Done /\ out'.seq = out.seq /\ ~pkts'[Len(pkts')].done
  <2>1. /\ DOMAIN pkts' = 1 .. n + 1 /\ Len(pkts') = n + 1
        /\ pkts'[n + 1].done = FALSE
        /\ \A i \in 1 .. n : pkts'[i] = pkts[i]
    BY <1>1, <1>2 DEF SendBegin
  <2>2. Blocks[p] \in Nat
    BY SessionAssumption
  <2>3. out'.seq = out.seq
    BY <1>1, <1>2, <2>2, SeqOps DEF SendBegin
  <2>. QED
    BY <1>1, <2>1, <2>3 DEF Done
<1>3. CASE SendReturn
  <2>1. n \in 1 .. n
    BY <1>1, <1>3 DEF SendReturn, TypeInv, TypeCore, PacketInHand
  <2>2. pkts' = [pkts EXCEPT ![n] = [pkts[n] EXCEPT !.done = TRUE]]
    BY <1>3 DEF SendReturn
  <2>3. pkts[n] \in SendCall
    BY <1>1, <2>1, ElementOfSeq
  <2>4. /\ DOMAIN pkts' = 1 .. n /\ pkts'[n].done
        /\ \A i \in 1 .. n : i # n => pkts'[i] = pkts[i]
    BY <1>1, <2>1, <2>2, <2>3 DEF SendCall
  <2>5. ~pkts[n].done
    BY <1>3 DEF SeqInv, SendReturn
  <2>6. Done' = Done \cup {n} /\ n \notin Done
    BY <1>1, <2>1, <2>4, <2>5 DEF Done
  <2>7. Cardinality(Done') = Cardinality(Done) + 1
    BY <2>6, DoneFinite, FS_AddElement
  <2>8. 0 \in Nat
    OBVIOUS
  <2>9. out'.seq = (out.seq + 1) % SeqMod
    BY <1>1, <1>3, <2>8, SeqOps DEF SendReturn
  <2>10. snd'.pc \notin {"writing", "written"}
    BY <1>1, <1>3 DEF SendReturn, SenderState
  <2>. QED
    BY <2>7, <2>9, <2>10
<1>4. CASE InstallEarly \/ InstallOut \/ InstallOutFail \/ Close
  <2>2. out'.seq = out.seq
    <3>1. /\ SetKeys(out, snd.kex + 1).seq = out.seq
          /\ Activate(SetKeys(out, snd.kex + 1)).seq = out.seq
          /\ Activate(out).seq = out.seq
          /\ \A e \in SetKeysFailed(out, snd.kex + 1) : e.seq = out.seq
      BY <1>1, InstalledSeq
    <3>2. \/ out' = SetKeys(out, snd.kex + 1)
          \/ out' = Activate(SetKeys(out, snd.kex + 1))
          \/ out' = Activate(out)
          \/ out' \in SetKeysFailed(out, snd.kex + 1)
          \/ out' = out
      BY <1>4 DEF InstallEarly, InstallOut, InstallOutFail, Close
    <3>. QED
      BY <3>1, <3>2, Zenon
  <2>3. snd'.pc \notin {"writing", "written"} /\ UNCHANGED pkts
    BY <1>1, <1>4 DEF InstallEarly, InstallOut, InstallOutFail, Close, SenderState
  <2>. QED
    BY <2>2, <2>3 DEF Done
<1>5. CASE WriteCell \/ WriteFail
  <2>1. UNCHANGED <<out, pkts>> /\ snd.pc = "writing"
    BY <1>5 DEF WriteCell, WriteFail, AfterFailure
  <2>. QED
    BY <2>1 DEF Done, SeqInv
<1>6. CASE UNCHANGED <<out, pkts, snd>>
  BY <1>6 DEF Done, SeqInv
<1>7. Receiver \/ Flip \/ Ended \/ UNCHANGED vars => UNCHANGED <<out, pkts, snd>>
  BY DEF Receiver, RecvHead, RecvBody, RecvMac, RecvExtract, RecvDamaged, JunkRead,
     JunkEnd, RecvEof, InstallIn, InstallInFail, Flip, Ended, vars
<1>. QED
  BY <1>2, <1>3, <1>4, <1>5, <1>6, <1>7 DEF Next, Sender

LEMMA SeqNext == TypeInv /\ SeqInv /\ [Next]_vars => SeqInv'
<1>. SUFFICES ASSUME TypeInv, SeqInv, [Next]_vars
              PROVE  SeqInv'
  OBVIOUS
<1>1. /\ Len(delivered) \in Nat /\ Cardinality(Done) \in Nat
      /\ SeqMod \in Nat \ {0}
  BY Ranges, DoneFinite, SessionAssumption
<1>2. out.seq = Cardinality(Done) % SeqMod /\ in.seq = Len(delivered) % SeqMod
  BY DEF SeqInv, SeqCountsCalls, Done
<1>3. out'.seq = Cardinality(Done') % SeqMod
  BY <1>1, <1>2, SenderCounts, WrapCounts
<1>4. in'.seq = Len(delivered') % SeqMod
  <2>1. CASE UNCHANGED delivered /\ in'.seq = in.seq
    BY <1>2, <2>1
  <2>2. ASSUME NEW d, delivered' = Append(delivered, d),
               in'.seq = (in.seq + 1) % SeqMod
        PROVE  in'.seq = Len(delivered') % SeqMod
    <3>1. Len(delivered') = Len(delivered) + 1
      BY <2>2 DEF TypeInv, TypeCore, TypeOK
    <3>. QED
      BY <1>1, <1>2, <2>2, <3>1, WrapCounts
  <2>. QED
    BY <2>1, <2>2, ReceiverCounts
<1>. QED
  BY <1>3, <1>4, SenderCounts DEF SeqInv, SeqCountsCalls, Done

\* Sequence numbers count the calls that succeeded, modulo 2^32, whatever
\* fails, whatever the line does and across rekeys.
THEOREM SeqCounts == Spec => []SeqCountsCalls
<1>1. Init => TypeInv /\ SeqInv
  <2>. SUFFICES ASSUME Init
                PROVE  SeqInv
    BY InitType
  <2>1. Done = {} /\ Len(delivered) = 0 /\ out.seq = 0 /\ in.seq = 0
    BY DEF Init, Done, Fresh
  <2>2. 0 % SeqMod = 0
    BY SessionAssumption
  <2>3. Cardinality(Done) = 0
    BY <2>1, FS_EmptySet
  <2>4. snd.pc \notin {"writing", "written"}
    BY DEF Init
  <2>. QED
    BY <2>1, <2>2, <2>3, <2>4 DEF SeqInv, SeqCountsCalls, Done
<1>2. (TypeInv /\ SeqInv) /\ [Next]_vars => (TypeInv /\ SeqInv)'
  BY NextType, SeqNext
<1>3. TypeInv /\ SeqInv => SeqCountsCalls
  BY DEF SeqInv
<1>. QED
  BY <1>1, <1>2, <1>3, PTL DEF Spec

(* Keys change with NEWKEYS.  Each end's next packet uses the keys of the   *)
(* NEWKEYS it has passed, one less while it is still to install them.       *)

LEMMA NewKeysCount ==
  ASSUME NEW s, NEW n \in Nat
  PROVE  /\ NewKeysIn(s, n) \in Nat /\ NewKeysIn(s, 0) = 0
         /\ NewKeysIn(s, n + 1) =
              NewKeysIn(s, n) + (IF s[n + 1].payload = NewKeys THEN 1 ELSE 0)
<1>. DEFINE S(k) == {i \in 1 .. k : s[i].payload = NewKeys}
<1>1. ASSUME NEW k \in Nat
      PROVE  IsFiniteSet(S(k)) /\ Cardinality(S(k)) \in Nat
  <2>1. IsFiniteSet(1 .. k)
    BY FS_Interval
  <2>2. S(k) \in SUBSET (1 .. k)
    OBVIOUS
  <2>3. IsFiniteSet(S(k))
    BY <2>1, <2>2, FS_Subset
  <2>. QED
    BY <2>3, FS_CardinalityType
<1>2. /\ NewKeysIn(s, n) = Cardinality(S(n)) /\ NewKeysIn(s, 0) = Cardinality(S(0))
      /\ NewKeysIn(s, n + 1) = Cardinality(S(n + 1))
  BY DEF NewKeysIn
<1>3. NewKeysIn(s, n) \in Nat /\ NewKeysIn(s, 0) = 0
  <2>1. S(0) = {}
    OBVIOUS
  <2>2. Cardinality(S(n)) \in Nat
    BY <1>1
  <2>. HIDE DEF S
  <2>. QED
    BY <1>2, <2>1, <2>2, FS_EmptySet
<1>4. CASE s[n + 1].payload = NewKeys
  <2>1. S(n + 1) = S(n) \cup {n + 1} /\ n + 1 \notin S(n)
    BY <1>4
  <2>2. IsFiniteSet(S(n))
    BY <1>1
  <2>. HIDE DEF S
  <2>3. Cardinality(S(n + 1)) = Cardinality(S(n)) + 1
    BY <2>1, <2>2, FS_AddElement
  <2>. QED
    BY <1>2, <1>3, <1>4, <2>3
<1>5. CASE s[n + 1].payload # NewKeys
  <2>1. S(n + 1) = S(n)
    BY <1>5
  <2>. HIDE DEF S
  <2>. QED
    BY <1>2, <1>3, <1>5, <2>1
<1>. QED
  BY <1>4, <1>5

LEMMA NewKeysSame ==
  ASSUME NEW s, NEW t, NEW n, \A i \in 1 .. n : s[i].payload = t[i].payload
  PROVE  NewKeysIn(s, n) = NewKeysIn(t, n)
<1>1. {i \in 1 .. n : s[i].payload = NewKeys} = {i \in 1 .. n : t[i].payload = NewKeys}
  OBVIOUS
<1>. QED
  BY <1>1 DEF NewKeysIn

SenderKeys ==
  /\ ~snd.early
  /\ snd.pc = "idle" => out.key = NewKeysIn(pkts, Len(pkts))
  /\ snd.pc \in {"writing", "written", "install"} =>
       Len(pkts) > 0 /\ out.key = NewKeysIn(pkts, Len(pkts) - 1)
  /\ snd.pc = "install" => pkts[Len(pkts)].payload = NewKeys
  /\ \A j \in 1 .. Len(pkts) : pkts[j].dir.key = NewKeysIn(pkts, j - 1)

ReaderKeys ==
  /\ rcv.pc \notin {"install", "closed"} => in.key = NewKeysIn(delivered, Len(delivered))
  /\ rcv.pc = "install" =>
       /\ Len(delivered) > 0 /\ delivered[Len(delivered)].payload = NewKeys
       /\ in.key = NewKeysIn(delivered, Len(delivered) - 1)
  /\ \A j \in 1 .. Len(delivered) : delivered[j].key = NewKeysIn(delivered, j - 1)

\* Counts of NEWKEYS among the packets there are do not change.
LEMMA NewKeysKept ==
  ASSUME TypeInv, [Next]_vars, NEW n \in 0 .. Len(pkts)
  PROVE  NewKeysIn(pkts', n) = NewKeysIn(pkts, n)
<1>1. Len(pkts) \in Nat
  BY Ranges
<1>2. \A i \in 1 .. n : pkts'[i].payload = pkts[i].payload
  BY <1>1, PacketsGrow
<1>. QED
  BY <1>2, NewKeysSame

LEMMA SenderKeysNext ==
  ASSUME TypeInv, Disconnect, ~EarlyInstall, SenderKeys, [Next]_vars
  PROVE  SenderKeys'
<1>. DEFINE n == Len(pkts)
<1>1. /\ n \in Nat /\ out \in Direction /\ out.key + 1 \in Nat
      /\ snd \in SenderState /\ pkts \in Seq(SendCall)
  BY NextKey, Ranges DEF TypeInv, TypeCore, TypeOK
<1>2. \A j \in 1 .. n : pkts'[j].dir.key = NewKeysIn(pkts', j - 1)
  <2>. SUFFICES ASSUME NEW j \in 1 .. n
                PROVE  pkts'[j].dir.key = NewKeysIn(pkts', j - 1)
    OBVIOUS
  <2>1. j - 1 \in 0 .. n
    BY <1>1
  <2>. QED
    BY <2>1, NewKeysKept, PacketsGrow DEF SenderKeys
<1>3. ASSUME NEW p \in Payload, SendBegin(p)
      PROVE  SenderKeys'
  <2>1. /\ Len(pkts') = n + 1 /\ (n + 1) - 1 = n /\ pkts'[n + 1].dir = out
        /\ snd'.pc = "writing" /\ snd'.early = snd.early
    BY <1>1, <1>3 DEF SendBegin, SenderState
  <2>2. out'.key = out.key
    <3>1. Blocks[p] \in Nat
      BY SessionAssumption
    <3>. QED
      BY <1>1, <1>3, <3>1, KeptByUse DEF SendBegin
  <2>3. out.key = NewKeysIn(pkts', n)
    <3>1. n \in 0 .. Len(pkts)
      BY <1>1
    <3>. QED
      BY <1>3, <3>1, NewKeysKept DEF SenderKeys, SendBegin
  <2>4. ASSUME NEW j \in 1 .. n + 1
        PROVE  pkts'[j].dir.key = NewKeysIn(pkts', j - 1)
    <3>1. CASE j \in 1 .. n
      BY <1>2, <3>1
    <3>2. CASE j = n + 1
      BY <2>1, <2>3, <3>2
    <3>. QED
      BY <1>1, <3>1, <3>2
  <2>. QED
    BY <1>1, <2>1, <2>2, <2>3, <2>4 DEF SenderKeys
<1>4. CASE SendReturn
  <2>1. /\ n > 0 /\ n - 1 \in Nat /\ (n - 1) + 1 = n /\ n - 1 \in 0 .. Len(pkts)
        /\ n \in 0 .. Len(pkts) /\ n \in 1 .. n
    BY <1>1, <1>4 DEF SendReturn, TypeInv, TypeCore, PacketInHand
  <2>2. Len(pkts') = n
    BY <1>1, <1>4 DEF SendReturn
  <2>3. /\ snd'.early = snd.early
        /\ snd'.pc = IF pkts[n].payload = NewKeys THEN "install" ELSE "idle"
    BY <1>1, <1>4 DEF SendReturn, SenderState
  <2>4. out'.key = out.key /\ out.key = NewKeysIn(pkts, n - 1)
    <3>1. 0 \in Nat
      OBVIOUS
    <3>. QED
      BY <1>1, <1>4, <3>1, KeptByUse DEF SendReturn, SenderKeys
  <2>5. /\ NewKeysIn(pkts', n) = NewKeysIn(pkts, n)
        /\ NewKeysIn(pkts', n - 1) = NewKeysIn(pkts, n - 1)
    BY <2>1, NewKeysKept
  <2>6. pkts[n].payload # NewKeys => NewKeysIn(pkts, n) = NewKeysIn(pkts, n - 1)
    <3>1. /\ NewKeysIn(pkts, n - 1) \in Nat
          /\ NewKeysIn(pkts, (n - 1) + 1) = NewKeysIn(pkts, n - 1)
                + (IF pkts[(n - 1) + 1].payload = NewKeys THEN 1 ELSE 0)
      BY <2>1, NewKeysCount
    <3>. QED
      BY <2>1, <3>1
  <2>7. pkts'[n].payload = pkts[n].payload
    BY <2>1, PacketsGrow
  <2>. QED
    BY <1>2, <2>1, <2>2, <2>3, <2>4, <2>5, <2>6, <2>7 DEF SenderKeys
<1>5. CASE InstallOut
  <2>1. /\ n > 0 /\ n - 1 \in Nat /\ (n - 1) + 1 = n /\ pkts[n].payload = NewKeys
        /\ out.key = NewKeysIn(pkts, n - 1) /\ ~snd.early
    BY <1>1, <1>5 DEF InstallOut, SenderKeys
  <2>2. UNCHANGED pkts /\ snd'.pc = "idle" /\ ~snd'.early
    BY <1>1, <1>5 DEF InstallOut, SenderState
  <2>3. out'.key = out.key + 1
    <3>1. snd.kex = out.key
      BY <1>5, KexIsKey DEF InstallOut
    <3>2. out' = Activate(SetKeys(out, out.key + 1))
      BY <1>5, <2>1, <3>1 DEF InstallOut
    <3>3. out.key + 1 \in Nat
      BY <1>1, <3>1
    <3>4. /\ SetKeys(out, out.key + 1).key = out.key + 1
          /\ SetKeys(out, out.key + 1) \in Direction
      BY <1>1, <3>3, SetKeysFollow
    <3>. QED
      BY <3>2, <3>4, ActivateKeeps
  <2>4. NewKeysIn(pkts, n) = NewKeysIn(pkts, n - 1) + 1
    <3>1. NewKeysIn(pkts, (n - 1) + 1) = NewKeysIn(pkts, n - 1)
                + (IF pkts[(n - 1) + 1].payload = NewKeys THEN 1 ELSE 0)
      BY <2>1, NewKeysCount
    <3>. QED
      BY <2>1, <3>1
  <2>. QED
    BY <1>2, <2>1, <2>2, <2>3, <2>4 DEF SenderKeys
<1>6. CASE InstallOutFail \/ Close
  <2>1. UNCHANGED pkts /\ snd'.pc = "closed" /\ snd'.early = snd.early
    BY <1>1, <1>6 DEF InstallOutFail, Close, SenderState
  <2>. QED
    BY <1>2, <2>1 DEF SenderKeys
<1>7. CASE WriteCell
  <2>1. UNCHANGED <<out, pkts>> /\ snd.pc = "writing" /\ snd'.early = snd.early
    BY <1>1, <1>7 DEF WriteCell, SenderState
  <2>2. snd'.pc \in {"writing", "written"}
    BY <1>1, <1>7, <2>1 DEF WriteCell, SenderState
  <2>. QED
    BY <2>1, <2>2 DEF SenderKeys
<1>8. CASE WriteFail
  <2>1. UNCHANGED pkts /\ snd'.pc = "closed" /\ ~snd'.early
    BY <1>1, <1>8 DEF WriteFail, SenderState
  <2>. QED
    BY <1>2, <2>1 DEF SenderKeys
<1>9. CASE UNCHANGED <<out, pkts, snd>>
  BY <1>9 DEF SenderKeys
<1>10. ~InstallEarly
  BY DEF InstallEarly
<1>11. Receiver \/ Flip \/ Ended \/ UNCHANGED vars => UNCHANGED <<out, pkts, snd>>
  BY DEF Receiver, RecvHead, RecvBody, RecvMac, RecvExtract, RecvDamaged, JunkRead,
     JunkEnd, RecvEof, InstallIn, InstallInFail, Flip, Ended, vars
<1>. QED
  BY <1>3, <1>4, <1>5, <1>6, <1>7, <1>8, <1>9, <1>10, <1>11 DEF Next, Sender

\* A result returned by the reader, whatever it is, ends where its payload says.
LEMMA ReaderKeysReturn ==
  ASSUME TypeInv, ReaderKeys, rcv.pc \notin {"install", "closed"},
         NEW i, NEW p, Return(i, p), in'.key = in.key
  PROVE  ReaderKeys'
<1>. DEFINE n == Len(delivered)
<1>1. /\ n \in Nat /\ rcv \in ReceiverState(Len(pkts))
      /\ delivered \in Seq(Result(Len(pkts)))
  BY Ranges DEF TypeInv, TypeCore, TypeOK
<1>2. /\ Len(delivered') = n + 1 /\ delivered'[n + 1].payload = p
      /\ delivered'[n + 1].key = in.key
      /\ \A k \in 1 .. n : delivered'[k] = delivered[k]
  BY <1>1 DEF Return
<1>3. rcv'.pc = IF p = NewKeys THEN "install" ELSE "head"
  BY <1>1 DEF Return, ReceiverAt, ReceiverState
<1>4. \A k \in 0 .. n : NewKeysIn(delivered', k) = NewKeysIn(delivered, k)
  <2>. SUFFICES ASSUME NEW k \in 0 .. n
                PROVE  NewKeysIn(delivered', k) = NewKeysIn(delivered, k)
    OBVIOUS
  <2>1. \A j \in 1 .. k : delivered'[j].payload = delivered[j].payload
    BY <1>1, <1>2
  <2>. QED
    BY <2>1, NewKeysSame
<1>5. in'.key = NewKeysIn(delivered', n) /\ in.key = NewKeysIn(delivered', n)
  <2>1. n \in 0 .. n
    BY <1>1
  <2>. QED
    BY <1>4, <2>1 DEF ReaderKeys
<1>6. p # NewKeys => NewKeysIn(delivered', n + 1) = NewKeysIn(delivered', n)
  <2>1. NewKeysIn(delivered', n) \in Nat
    BY <1>1, NewKeysCount
  <2>2. NewKeysIn(delivered', n + 1) = NewKeysIn(delivered', n)
          + (IF delivered'[n + 1].payload = NewKeys THEN 1 ELSE 0)
    BY <1>1, NewKeysCount
  <2>. QED
    BY <1>2, <2>1, <2>2
<1>7. ASSUME NEW j \in 1 .. n + 1
      PROVE  delivered'[j].key = NewKeysIn(delivered', j - 1)
  <2>1. CASE j \in 1 .. n
    <3>1. j - 1 \in 0 .. n
      BY <1>1, <2>1
    <3>. QED
      BY <1>2, <1>4, <2>1, <3>1 DEF ReaderKeys
  <2>2. CASE j = n + 1
    <3>1. j - 1 = n
      BY <1>1, <2>2
    <3>. QED
      BY <1>2, <1>5, <2>2, <3>1
  <2>. QED
    BY <1>1, <2>1, <2>2
<1>8. (n + 1) - 1 = n
  BY <1>1
<1>. QED
  BY <1>1, <1>2, <1>3, <1>5, <1>6, <1>7, <1>8 DEF ReaderKeys

\* The steps that return something
LEMMA Returns ==
  ASSUME TypeInv, [Next]_vars, delivered' # delivered
  PROVE  /\ \E i, p : Return(i, p)
         /\ rcv.pc \in {"extract", "junk"} /\ in'.key = in.key
<1>1. in \in Direction /\ 0 \in Nat
  BY DEF TypeInv, TypeCore, TypeOK
<1>2. RecvExtract \/ RecvDamaged \/ JunkEnd
  BY DEF Next, Sender, Receiver, InstallEarly, SendBegin, WriteCell, WriteFail,
     SendReturn, InstallOut, InstallOutFail, Close, RecvHead, RecvBody, RecvMac,
     JunkRead, RecvEof, InstallIn, InstallInFail, Flip, Ended, vars
<1>3. \E i, p : Return(i, p)
  BY <1>2 DEF RecvExtract, RecvDamaged, JunkEnd, Refused, Accepted
<1>4. CASE RecvExtract \/ RecvDamaged
  <2>1. in' \in {in, Count(in)} /\ rcv.pc = "extract"
    BY <1>4 DEF RecvExtract, RecvDamaged, Refused, Accepted
  <2>. QED
    BY <1>1, <1>3, <2>1, KeptByUse
<1>5. CASE JunkEnd
  <2>1. PICK n \in 0 .. MaxJunk : in' = Count(Advance(in, n))
    BY <1>5 DEF JunkEnd, Refused, Accepted
  <2>2. n \in Nat /\ rcv.pc = "junk"
    BY <1>5, <2>1, SessionAssumption DEF JunkEnd
  <2>3. Advance(in, n) \in Direction
    BY <1>1, <2>2, DirectionOps
  <2>. QED
    BY <1>1, <1>3, <2>1, <2>2, <2>3, KeptByUse
<1>. QED
  BY <1>2, <1>4, <1>5

\* The reader stands before an install only after it has returned NEWKEYS.
LEMMA InstallStays ==
  ASSUME TypeInv, [Next]_vars, UNCHANGED delivered
  PROVE  /\ rcv'.pc = "install" => rcv.pc = "install"
         /\ rcv.pc = "install" => rcv'.pc = "install" \/ InstallIn \/ InstallInFail
<1>1. rcv \in ReceiverState(Len(pkts)) /\ delivered \in Seq(Result(Len(pkts)))
  BY DEF TypeInv, TypeCore, TypeOK
<1>2. ASSUME NEW i, NEW p, Return(i, p)
      PROVE  FALSE
  <2>1. Len(delivered') = Len(delivered) + 1 /\ Len(delivered) \in Nat
    BY <1>1, <1>2 DEF Return
  <2>. QED
    BY <2>1
<1>3. CASE RecvHead
  <2>1. rcv.pc = "head"
    BY <1>3 DEF RecvHead
  <2>2. CASE ReturnError \/ \E k : Derail(k, 1)
    BY <1>1, <2>1, <2>2 DEF ReturnError, Derail, ReceiverAt, ReceiverState
  <2>3. ASSUME rcv' = [rcv EXCEPT
                         !.pc = IF DataCells(Head(wire).pid) > 1 THEN "body"
                                ELSE IF MacOf(in) > 0 THEN "mac" ELSE "extract",
                         !.pid = Head(wire).pid, !.part = 2,
                         !.intact = Head(wire).shape = "whole"]
        PROVE  rcv'.pc # "install"
    BY <1>1, <2>3 DEF ReceiverState
  <2>. QED
    BY <1>3, <2>1, <2>2, <2>3, Zenon DEF RecvHead
<1>4. CASE RecvBody \/ RecvMac
  <2>1. /\ rcv.pc \in {"body", "mac"}
        /\ \/ \E c \in {"body", "mac", "extract"} : \E b :
                rcv' = [rcv EXCEPT !.part = rcv.part + 1, !.intact = b, !.pc = c]
           \/ ReceiverAt("extract") \/ ReturnError
           \/ Derail(rcv.pid, rcv.part)
    BY <1>4 DEF RecvBody, RecvMac, MacFailed
  <2>. QED
    BY <1>1, <2>1 DEF ReturnError, Derail, ReceiverAt, ReceiverState
<1>5. CASE RecvExtract \/ RecvDamaged \/ JunkEnd
  <2>1. rcv.pc \in {"extract", "junk"} /\ (ReturnError \/ ReceiverAt("hung"))
    BY <1>2, <1>5 DEF RecvExtract, RecvDamaged, JunkEnd, Refused, Accepted
  <2>. QED
    BY <1>1, <2>1 DEF ReturnError, ReceiverAt, ReceiverState
<1>6. CASE JunkRead \/ RecvEof
  BY <1>1, <1>6 DEF JunkRead, RecvEof, ReceiverAt, ReceiverState
<1>7. CASE InstallIn \/ InstallInFail
  BY <1>1, <1>7, InstallFields DEF InstallIn, InstallInFail
<1>8. ~Receiver => UNCHANGED rcv
  BY DEF Next, Sender, InstallEarly, SendBegin, WriteCell, WriteFail, SendReturn,
     InstallOut, InstallOutFail, Close, Flip, Ended, vars
<1>. QED
  BY <1>3, <1>4, <1>5, <1>6, <1>7, <1>8 DEF Receiver

LEMMA ReaderKeysNext ==
  ASSUME TypeInv, Disconnect, ReaderKeys, [Next]_vars
  PROVE  ReaderKeys'
<1>. DEFINE n == Len(delivered)
<1>1. n \in Nat /\ in \in Direction /\ in.key + 1 \in Nat
  BY NextKey, Ranges DEF TypeInv, TypeCore, TypeOK
<1>2. CASE delivered' # delivered
  BY <1>2, Returns, ReaderKeysReturn
<1>3. ASSUME UNCHANGED delivered, in' = Activate(SetKeys(in, in.key + 1)),
             rcv.pc = "install", rcv'.pc = "head"
      PROVE  ReaderKeys'
  <2>1. in'.key = in.key + 1
    BY <1>1, <1>3, SetKeysFollow, ActivateKeeps
  <2>2. /\ n > 0 /\ delivered[n].payload = NewKeys
        /\ in.key = NewKeysIn(delivered, n - 1)
    BY <1>3 DEF ReaderKeys
  <2>3. n - 1 \in Nat /\ (n - 1) + 1 = n
    BY <1>1, <2>2
  <2>4. NewKeysIn(delivered, (n - 1) + 1) = NewKeysIn(delivered, n - 1)
                + (IF delivered[(n - 1) + 1].payload = NewKeys THEN 1 ELSE 0)
    BY <2>3, NewKeysCount
  <2>5. NewKeysIn(delivered, n) = NewKeysIn(delivered, n - 1) + 1
    BY <2>2, <2>3, <2>4
  <2>. QED
    BY <1>3, <2>1, <2>2, <2>5 DEF ReaderKeys
<1>4. CASE UNCHANGED delivered /\ rcv'.pc = "closed"
  BY <1>4 DEF ReaderKeys
<1>5. CASE /\ UNCHANGED delivered /\ in'.key = in.key /\ ~InstallIn /\ ~InstallInFail
           /\ rcv.pc = "closed" => rcv'.pc = "closed"
  <2>1. rcv'.pc = "install" <=> rcv.pc = "install"
    BY <1>5, InstallStays
  <2>. QED
    BY <1>5, <2>1 DEF ReaderKeys
<1>8. rcv \in ReceiverState(Len(pkts))
  BY DEF TypeInv, TypeCore, TypeOK
<1>6. CASE InstallIn
  <2>1. rcv.kex = in.key
    BY <1>6, KexIsKey DEF InstallIn
  <2>. QED
    BY <1>3, <1>6, <1>8, <2>1, InstallFields DEF InstallIn
<1>7. CASE InstallInFail
  BY <1>4, <1>7, <1>8, InstallFields DEF InstallInFail
<1>. QED
  BY <1>2, <1>3, <1>4, <1>5, <1>6, <1>7, ReceiverKeys

\* If callers disconnect at the first error and install keys after NEWKEYS, each
\* packet is sent, and read, with the keys of the latest NEWKEYS before it,
\* whatever the line does.
THEOREM KeysFollow ==
  ASSUME Disconnect, ~EarlyInstall
  PROVE  Spec => []KeysFollowNewKeys
<1>. DEFINE Inv == TypeInv /\ SenderKeys /\ ReaderKeys
<1>1. Init => Inv
  <2>. SUFFICES ASSUME Init
                PROVE  SenderKeys /\ ReaderKeys
    BY InitType
  <2>1. /\ Len(pkts) = 0 /\ Len(delivered) = 0 /\ out.key = 0 /\ in.key = 0
        /\ snd.pc = "idle" /\ ~snd.early /\ rcv.pc = "head"
    BY DEF Init, Fresh
  <2>2. 0 \in Nat
    OBVIOUS
  <2>3. NewKeysIn(pkts, 0) = 0 /\ NewKeysIn(delivered, 0) = 0
    BY <2>2, NewKeysCount
  <2>. QED
    BY <2>1, <2>3 DEF SenderKeys, ReaderKeys
<1>2. Inv /\ [Next]_vars => Inv'
  BY NextType, SenderKeysNext, ReaderKeysNext
<1>3. Inv => KeysFollowNewKeys
  <2>. SUFFICES ASSUME Inv
                PROVE  KeysFollowNewKeys
    OBVIOUS
  <2>1. DOMAIN pkts = 1 .. Len(pkts) /\ DOMAIN delivered = 1 .. Len(delivered)
    BY Ranges
  <2>. QED
    BY <2>1 DEF SenderKeys, ReaderKeys, KeysFollowNewKeys
<1>. QED
  BY <1>1, <1>2, <1>3, PTL DEF Spec

(* A stream nobody damages.  If callers disconnect at the first error and   *)
(* install keys after NEWKEYS, the direction state of a packet is a         *)
(* function of the packet before it; the stream holds the cells of the      *)
(* packets in order, without a gap, from the one the reader expects to the  *)
(* one the sender writes next; and the reader's state is the one the packet *)
(* it expects was sent with.                                                *)

\* The direction state when the packet of call c is encrypted, and the one of
\* the packet after it.
Spent(c) == Advance(c.dir, Blocks[c.payload])

After(c) ==
  IF c.payload = NewKeys
  THEN Activate(SetKeys(Count(Spent(c)), Count(Spent(c)).key + 1))
  ELSE Count(Spent(c))

DirAt(n) == IF n = 0 THEN Fresh ELSE After(pkts[n])

LEMMA SpentTypes ==
  ASSUME NEW c \in SendCall
  PROVE  /\ Spent(c) \in Direction /\ Count(Spent(c)) \in Direction
         /\ After(c) \in Direction /\ MacOf(Spent(c)) = MacOf(c.dir)
<1>1. c.dir \in Direction /\ Blocks[c.payload] \in Nat
  BY SessionAssumption DEF SendCall
<1>2. Spent(c) \in Direction /\ MacOf(Spent(c)) = MacOf(c.dir)
  BY <1>1, DirectionOps, KeptByUse DEF Spent
<1>3. Count(Spent(c)) \in Direction /\ Count(Spent(c)).key + 1 \in Nat
  <2>1. 0 \in Nat
    OBVIOUS
  <2>2. Count(Spent(c)) \in Direction
    BY <1>2, <2>1, DirectionOps
  <2>. QED
    BY <2>2, NextKey
<1>4. SetKeys(Count(Spent(c)), Count(Spent(c)).key + 1) \in Direction
  BY <1>3, DirectionOps
<1>5. Activate(SetKeys(Count(Spent(c)), Count(Spent(c)).key + 1)) \in Direction
  <2>1. 0 \in Nat
    OBVIOUS
  <2>. QED
    BY <1>4, <2>1, DirectionOps
<1>. QED
  BY <1>2, <1>3, <1>5 DEF After

\* Reading a packet block by block uses the keystream that writing it used.
LEMMA AdvanceTwice ==
  ASSUME NEW d \in Direction, NEW a \in Nat, NEW b \in Nat
  PROVE  Advance(Advance(d, a), b) = Advance(d, a + b)
<1>1. CASE d.encrypted
  <2>. DEFINE At(c) == [encrypted |-> d.encrypted, key |-> d.key, ctr |-> c,
                        mac |-> d.mac, seq |-> d.seq]
  <2>1. \A x \in Nat : [d EXCEPT !.ctr = x] = At(x)
    BY DEF Direction
  <2>2. \A x, y \in Nat : [At(x) EXCEPT !.ctr = y] = At(y)
    OBVIOUS
  <2>3. d.ctr \in Nat
    BY DEF Direction
  <2>4. Advance(d, a) = At(d.ctr + a) /\ Advance(d, a + b) = At(d.ctr + (a + b))
    BY <1>1, <2>1, <2>3 DEF Advance
  <2>5. At(d.ctr + a).encrypted /\ At(d.ctr + a).ctr = d.ctr + a
    BY <1>1
  <2>6. Advance(At(d.ctr + a), b) = [At(d.ctr + a) EXCEPT !.ctr = (d.ctr + a) + b]
    BY <2>5 DEF Advance
  <2>7. (d.ctr + a) + b = d.ctr + (a + b) /\ d.ctr + a \in Nat /\ d.ctr + (a + b) \in Nat
    BY <2>3
  <2>. HIDE DEF At
  <2>. QED
    BY <2>2, <2>4, <2>6, <2>7
<1>2. CASE ~d.encrypted
  BY <1>2 DEF Advance
<1>. QED
  BY <1>1, <1>2

LEMMA CellCounts ==
  ASSUME TypeInv, NEW i \in 1 .. Len(pkts)
  PROVE  /\ DataCells(i) \in Nat \ {0}
         /\ Cells(i) = DataCells(i) \/ Cells(i) = DataCells(i) + 1
         /\ Cells(i) = DataCells(i) + 1 <=> MacOf(pkts[i].dir) > 0
<1>1. DataCells(i) \in Nat \ {0}
  BY PositionTypes DEF DataCells
<1>. QED
  BY <1>1 DEF Cells

\* What the record says of a packet does not change.
LEMMA CellsKept ==
  ASSUME TypeInv, [Next]_vars
  PROVE  /\ \A i \in 1 .. Len(pkts) :
              /\ Cells(i)' = Cells(i) /\ DataCells(i)' = DataCells(i)
              /\ Spent(pkts[i])' = Spent(pkts[i]) /\ After(pkts[i])' = After(pkts[i])
         /\ \A i \in 0 .. Len(pkts) : DirAt(i)' = DirAt(i)
<1>1. \A i \in 1 .. Len(pkts) : /\ pkts'[i].payload = pkts[i].payload
                                /\ pkts'[i].dir = pkts[i].dir
  BY PacketsGrow
<1>2. ASSUME NEW i \in 1 .. Len(pkts)
      PROVE  /\ Cells(i)' = Cells(i) /\ DataCells(i)' = DataCells(i)
             /\ Spent(pkts[i])' = Spent(pkts[i]) /\ After(pkts[i])' = After(pkts[i])
  BY <1>1 DEF Cells, DataCells, MacOf, Spent, After
<1>3. ASSUME NEW i \in 0 .. Len(pkts)
      PROVE  DirAt(i)' = DirAt(i)
  <2>1. i = 0 \/ i \in 1 .. Len(pkts)
    BY Ranges
  <2>. QED
    BY <1>2, <2>1 DEF DirAt
<1>. QED
  BY <1>2, <1>3

SenderInv ==
  /\ ~snd.early
  /\ \A i \in 1 .. Len(pkts) : pkts[i].dir = DirAt(i - 1)
  /\ snd.pc = "idle" => out = DirAt(Len(pkts))
  /\ snd.pc \in {"writing", "written"} => out = Spent(pkts[Len(pkts)])
  /\ snd.pc = "install" => /\ Len(pkts) > 0 /\ pkts[Len(pkts)].payload = NewKeys
                           /\ out = Count(Spent(pkts[Len(pkts)]))
  /\ snd.pc = "writing" => snd.next <= Cells(Len(pkts))

LEMMA DirsKept ==
  ASSUME TypeInv, SenderInv, [Next]_vars, NEW i \in 1 .. Len(pkts)
  PROVE  pkts'[i].dir = DirAt(i - 1)'
<1>1. i - 1 \in 0 .. Len(pkts)
  BY Ranges
<1>2. DirAt(i - 1)' = DirAt(i - 1)
  BY <1>1, CellsKept
<1>. QED
  BY <1>2, PacketsGrow DEF SenderInv

LEMMA SenderInvNext ==
  ASSUME TypeInv, Disconnect, ~EarlyInstall, SenderInv, [Next]_vars
  PROVE  SenderInv'
<1>. SUFFICES ASSUME NEW n \in Nat, n = Len(pkts)
              PROVE  SenderInv'
  BY Ranges
<1>1. /\ n \in Nat /\ out \in Direction /\ snd \in SenderState
      /\ pkts \in Seq(SendCall) /\ n \in 0 .. Len(pkts)
  BY Ranges DEF TypeInv, TypeCore, TypeOK
<1>2. ASSUME NEW p \in Payload, SendBegin(p)
      PROVE  SenderInv'
  <2>. DEFINE c == [payload |-> p, dir |-> out, done |-> FALSE]
  <2>1. /\ Len(pkts') = n + 1 /\ (n + 1) - 1 = n /\ pkts'[n + 1] = c
        /\ snd'.pc = "writing" /\ snd'.next = 1 /\ snd'.early = snd.early
        /\ out' = Advance(out, Blocks[p]) /\ snd.pc = "idle"
    BY <1>1, <1>2 DEF SendBegin, SenderState
  <2>2. out' = Spent(pkts'[n + 1])
    <3>1. Spent(c) = Advance(out, Blocks[p])
      BY DEF Spent
    <3>. QED
      BY <2>1, <3>1
  <2>3. 1 <= Cells(n + 1)'
    <3>1. Blocks[pkts'[n + 1].payload] \in Nat \ {0}
      BY <2>1, SessionAssumption
    <3>2. DataCells(n + 1)' \in Nat \ {0}
      BY <2>1, <3>1 DEF DataCells
    <3>. QED
      BY <3>2 DEF Cells
  <2>4. out = DirAt(n)'
    BY <1>1, <2>1, CellsKept DEF SenderInv
  <2>5. ASSUME NEW i \in 1 .. n + 1
        PROVE  pkts'[i].dir = DirAt(i - 1)'
    <3>1. CASE i \in 1 .. n
      BY <3>1, DirsKept
    <3>2. CASE i = n + 1
      BY <2>1, <2>4, <3>2
    <3>. QED
      BY <1>1, <3>1, <3>2
  <2>. QED
    BY <2>1, <2>2, <2>3, <2>5 DEF SenderInv
<1>3. CASE WriteCell
  <2>1. UNCHANGED <<out, pkts>> /\ snd.pc = "writing" /\ snd'.early = snd.early
    BY <1>1, <1>3 DEF WriteCell, SenderState
  <2>2. \/ snd'.pc = "written"
        \/ snd'.pc = "writing" /\ snd'.next = snd.next + 1 /\ snd.next # Cells(n)
    BY <1>1, <1>3, <2>1 DEF WriteCell, SenderState
  <2>3. snd.next <= Cells(n) /\ snd.next \in Nat /\ Cells(n) \in Nat
    <3>1. n \in 1 .. Len(pkts)
      BY <1>1, <2>1 DEF TypeInv, TypeCore, PacketInHand
    <3>2. DataCells(n) \in Nat
      BY <3>1, CellCounts
    <3>. QED
      BY <1>1, <2>1, <3>2 DEF SenderInv, SenderState, Cells
  <2>4. snd'.pc = "writing" => snd'.next <= Cells(n)
    BY <2>2, <2>3
  <2>5. Cells(n)' = Cells(n) /\ Spent(pkts[n])' = Spent(pkts[n])
    BY <2>1 DEF Cells, DataCells, Spent
  <2>. QED
    BY <2>1, <2>2, <2>4, <2>5, DirsKept DEF SenderInv
<1>4. CASE SendReturn
  <2>1. /\ n \in 1 .. Len(pkts) /\ snd.pc = "written" /\ out = Spent(pkts[n])
        /\ out' = Count(out) /\ Len(pkts') = n
    BY <1>1, <1>4 DEF SendReturn, TypeInv, TypeCore, PacketInHand, SenderInv
  <2>2. /\ snd'.early = snd.early
        /\ snd'.pc = IF pkts[n].payload = NewKeys THEN "install" ELSE "idle"
    BY <1>1, <1>4 DEF SendReturn, SenderState
  <2>3. Spent(pkts'[n]) = Spent(pkts[n]) /\ pkts'[n].payload = pkts[n].payload
    BY <2>1, PacketsGrow DEF Spent
  <2>4. pkts[n].payload # NewKeys => out' = DirAt(n)'
    BY <2>1, <2>3 DEF DirAt, After
  <2>. QED
    BY <1>1, <2>1, <2>2, <2>3, <2>4, DirsKept DEF SenderInv
<1>5. CASE InstallOut
  <2>1. /\ n > 0 /\ pkts[n].payload = NewKeys /\ out = Count(Spent(pkts[n]))
        /\ ~snd.early
    BY <1>1, <1>5 DEF InstallOut, SenderInv
  <2>2. UNCHANGED pkts /\ snd'.pc = "idle" /\ ~snd'.early
    BY <1>1, <1>5 DEF InstallOut, SenderState
  <2>3. out' = DirAt(n)
    <3>1. snd.kex = out.key
      BY <1>5, KexIsKey DEF InstallOut
    <3>. QED
      BY <1>5, <2>1, <3>1 DEF InstallOut, DirAt, After
  <2>4. DirAt(n)' = DirAt(n)
    BY <1>1, CellsKept
  <2>. QED
    BY <2>1, <2>2, <2>3, <2>4, DirsKept DEF SenderInv
<1>6. CASE WriteFail \/ InstallOutFail \/ Close
  <2>1. UNCHANGED pkts /\ snd'.pc = "closed" /\ ~snd'.early
    BY <1>1, <1>6 DEF WriteFail, InstallOutFail, Close, SenderInv, SenderState
  <2>. QED
    BY <2>1, DirsKept DEF SenderInv
<1>7. CASE UNCHANGED <<out, pkts, snd>>
  BY <1>7 DEF SenderInv, DirAt, After, Spent, Cells, DataCells
<1>8. ~InstallEarly
  BY DEF InstallEarly
<1>9. Receiver \/ Flip \/ Ended \/ UNCHANGED vars => UNCHANGED <<out, pkts, snd>>
  BY DEF Receiver, RecvHead, RecvBody, RecvMac, RecvExtract, RecvDamaged, JunkRead,
     JunkEnd, RecvEof, InstallIn, InstallInFail, Flip, Ended, vars
<1>. QED
  BY <1>2, <1>3, <1>4, <1>5, <1>6, <1>7, <1>8, <1>9 DEF Next, Sender

(* Places in the stream: the cell of a packet, the one that follows it, the *)
(* one the sender writes next, the one the reader expects, and the n-th     *)
(* that is on its way, the one after the last being what the sender writes. *)

At(i, k) == [pid |-> i, part |-> k]

Succ(i, k) == IF k < Cells(i) THEN At(i, k + 1) ELSE At(i + 1, 1)

Writes ==
  IF snd.pc = "writing" THEN At(Len(pkts), snd.next) ELSE At(Len(pkts) + 1, 1)

Expects ==
  IF rcv.pc \in {"body", "mac"} THEN At(rcv.pid, rcv.part) ELSE At(rcv.pid + 1, 1)

Place(n) ==
  IF n <= Len(wire) THEN At(wire[n].pid, wire[n].part) ELSE Writes

\* No cell is damaged; the last one may be cut short, by a sender that stopped.
WholeCells ==
  \A n \in 1 .. Len(wire) :
    wire[n].shape = "whole"
      \/ (wire[n].shape = "cut" /\ n = Len(wire) /\ snd.pc = "closed")

Consecutive ==
  \A n \in 1 .. Len(wire) : \A i, k :
    /\ n < Len(wire) \/ snd.pc # "closed"
    /\ Place(n) = At(i, k)
    => Place(n + 1) = Succ(i, k)

ReaderPlaced ==
  /\ rcv.pc \notin {"closed", "short"}
  /\ Len(wire) > 0 \/ snd.pc # "closed"
  => Place(1) = Expects

StreamInv == WholeCells /\ Consecutive /\ ReaderPlaced

LEMMA SuccKept ==
  ASSUME TypeInv, [Next]_vars
  PROVE  \A n \in 1 .. Len(wire) : \A i, k :
           Place(n) = At(i, k) => Succ(i, k)' = Succ(i, k)
<1>. SUFFICES ASSUME NEW n \in 1 .. Len(wire), NEW i, NEW k, Place(n) = At(i, k)
              PROVE  Succ(i, k)' = Succ(i, k)
  OBVIOUS
<1>1. Place(n) = At(wire[n].pid, wire[n].part)
  BY Ranges DEF Place
<1>2. i = wire[n].pid
  BY <1>1 DEF At
<1>3. i \in 1 .. Len(pkts)
  BY <1>2, Ranges
<1>. QED
  BY <1>3, CellsKept DEF Succ

\* A step that leaves the stream alone, and the places of its two ends unless
\* the end stops.
LEMMA StreamSame ==
  ASSUME TypeInv, StreamInv, [Next]_vars, UNCHANGED wire,
         snd.pc = "closed" => snd'.pc = "closed",
         Writes' = Writes \/ snd'.pc = "closed",
         rcv'.pc \in {"closed", "short"}
           \/ (Expects' = Expects /\ rcv.pc \notin {"closed", "short"})
  PROVE  StreamInv'
<1>1. Len(wire) \in Nat
  BY Ranges
<1>2. WholeCells'
  BY DEF StreamInv, WholeCells
<1>3. \A n : n <= Len(wire) \/ snd'.pc # "closed" => Place(n)' = Place(n)
  BY DEF Place
<1>4. Consecutive'
  <2>. SUFFICES ASSUME NEW n \in 1 .. Len(wire), NEW i, NEW k,
                       n < Len(wire) \/ snd'.pc # "closed", Place(n)' = At(i, k)
                PROVE  Place(n + 1)' = Succ(i, k)'
    BY DEF Consecutive
  <2>1. Place(n) = At(i, k) /\ Place(n + 1)' = Place(n + 1)
    BY <1>1, <1>3
  <2>2. Place(n + 1) = Succ(i, k)
    BY <2>1 DEF StreamInv, Consecutive
  <2>. QED
    BY <2>1, <2>2, SuccKept
<1>5. ReaderPlaced'
  <2>. SUFFICES ASSUME rcv'.pc \notin {"closed", "short"},
                       Len(wire) > 0 \/ snd'.pc # "closed"
                PROVE  Place(1)' = Expects'
    BY DEF ReaderPlaced
  <2>1. Place(1)' = Place(1)
    BY <1>1, <1>3
  <2>. QED
    BY <2>1 DEF StreamInv, ReaderPlaced
<1>. QED
  BY <1>2, <1>4, <1>5 DEF StreamInv

\* The reader takes the first cell and expects the next, or stops.
LEMMA StreamTail ==
  ASSUME TypeInv, StreamInv, [Next]_vars, wire # <<>>, wire' = Tail(wire),
         UNCHANGED <<snd, pkts>>,
         rcv'.pc \in {"closed", "short"}
           \/ \E i, k : Place(1) = At(i, k) /\ Expects' = Succ(i, k)
  PROVE  StreamInv'
<1>1. /\ Len(wire) \in Nat \ {0} /\ Len(wire') = Len(wire) - 1
      /\ \A n \in 1 .. Len(wire') : wire'[n] = wire[n + 1] /\ n + 1 \in 1 .. Len(wire)
  <2>1. wire \in Seq(CellOf(Len(pkts)))
    BY DEF TypeInv, TypeCore, TypeOK
  <2>. QED
    BY <2>1
<1>2. WholeCells'
  <2>. SUFFICES ASSUME NEW n \in 1 .. Len(wire')
                PROVE  wire'[n].shape = "whole"
                         \/ (/\ wire'[n].shape = "cut" /\ n = Len(wire')
                             /\ snd'.pc = "closed")
    BY DEF WholeCells
  <2>1. wire'[n] = wire[n + 1] /\ n + 1 \in 1 .. Len(wire)
    BY <1>1
  <2>2. \/ wire[n + 1].shape = "whole"
        \/ wire[n + 1].shape = "cut" /\ n + 1 = Len(wire) /\ snd.pc = "closed"
    BY <2>1 DEF StreamInv, WholeCells
  <2>3. n + 1 = Len(wire) => n = Len(wire')
    <3>1. Len(wire) \in Int /\ n \in Int
      BY <1>1
    <3>2. \A a, b \in Int : a + 1 = b => a = b - 1
      OBVIOUS
    <3>. QED
      BY <1>1, <3>1, <3>2, Zenon
  <2>. QED
    BY <2>1, <2>2, <2>3
<1>3. Writes' = Writes
  BY DEF Writes
<1>4. \A n \in 1 .. Len(wire) : Place(n)' = Place(n + 1)
  BY <1>1, <1>3 DEF Place
<1>5. Consecutive'
  <2>. SUFFICES ASSUME NEW n \in 1 .. Len(wire'), NEW i, NEW k,
                       n < Len(wire') \/ snd'.pc # "closed", Place(n)' = At(i, k)
                PROVE  Place(n + 1)' = Succ(i, k)'
    BY DEF Consecutive
  <2>1. /\ n \in 1 .. Len(wire) /\ n + 1 \in 1 .. Len(wire)
        /\ n + 1 < Len(wire) \/ snd.pc # "closed"
    BY <1>1
  <2>2. Place(n + 1) = At(i, k) /\ Place(n + 1)' = Place((n + 1) + 1)
    BY <1>4, <2>1
  <2>3. Place((n + 1) + 1) = Succ(i, k)
    BY <2>1, <2>2 DEF StreamInv, Consecutive
  <2>. QED
    BY <2>1, <2>2, <2>3, SuccKept
<1>6. ReaderPlaced'
  <2>. SUFFICES ASSUME rcv'.pc \notin {"closed", "short"},
                       Len(wire') > 0 \/ snd'.pc # "closed"
                PROVE  Place(1)' = Expects'
    BY DEF ReaderPlaced
  <2>1. PICK i, k : Place(1) = At(i, k) /\ Expects' = Succ(i, k)
    OBVIOUS
  <2>2. 1 \in 1 .. Len(wire) /\ (1 < Len(wire) \/ snd.pc # "closed") /\ 1 + 1 = 2
    BY <1>1
  <2>3. Place(2) = Succ(i, k)
    BY <2>1, <2>2 DEF StreamInv, Consecutive
  <2>. QED
    BY <1>4, <2>1, <2>2, <2>3
<1>. QED
  BY <1>2, <1>5, <1>6 DEF StreamInv

\* The sender writes the cell it is at, whole, or in part as its last.
LEMMA StreamAppend ==
  ASSUME TypeInv, StreamInv, [Next]_vars, snd.pc = "writing", UNCHANGED <<pkts, rcv>>,
         NEW c, wire' = Append(wire, c), At(c.pid, c.part) = Writes,
         \/ c.shape = "whole" /\ Writes' = Succ(c.pid, c.part)
         \/ c.shape = "cut" /\ snd'.pc = "closed"
  PROVE  StreamInv'
<1>. SUFFICES ASSUME NEW n \in Nat, n = Len(wire)
              PROVE  StreamInv'
  BY Ranges
<1>1. /\ Len(wire') = n + 1 /\ wire'[n + 1] = c
      /\ \A m \in 1 .. n : wire'[m] = wire[m]
  BY DEF TypeInv, TypeCore, TypeOK
<1>2. WholeCells'
  <2>. SUFFICES ASSUME NEW m \in 1 .. n + 1
                PROVE  wire'[m].shape = "whole"
                         \/ (/\ wire'[m].shape = "cut" /\ m = n + 1
                             /\ snd'.pc = "closed")
    BY <1>1 DEF WholeCells
  <2>1. CASE m \in 1 .. n
    BY <1>1, <2>1 DEF StreamInv, WholeCells
  <2>2. CASE m = n + 1
    BY <1>1, <2>2
  <2>. QED
    BY <2>1, <2>2
<1>3. \A m \in 1 .. n + 1 : Place(m)' = Place(m)
  BY <1>1 DEF Place
<1>4. Place(n + 2)' = Writes' /\ Place(n + 1) = Writes
  BY <1>1 DEF Place
<1>5. Consecutive'
  <2>. SUFFICES ASSUME NEW m \in 1 .. n + 1, NEW i, NEW k,
                       m < n + 1 \/ snd'.pc # "closed", Place(m)' = At(i, k)
                PROVE  Place(m + 1)' = Succ(i, k)'
    BY <1>1 DEF Consecutive
  <2>1. Place(m) = At(i, k)
    BY <1>3
  <2>2. CASE m \in 1 .. n
    <3>1. Place(m + 1) = Succ(i, k)
      BY <2>1, <2>2 DEF StreamInv, Consecutive
    <3>2. Place(m + 1)' = Place(m + 1)
      BY <1>3, <2>2
    <3>. QED
      BY <2>1, <2>2, <3>1, <3>2, SuccKept
  <2>3. CASE m = n + 1
    <3>1. i = c.pid /\ k = c.part /\ snd'.pc # "closed" /\ m + 1 = n + 2
      BY <1>4, <2>1, <2>3 DEF At
    <3>2. Place(m + 1)' = Succ(i, k)
      BY <1>4, <3>1
    <3>3. Succ(i, k)' = Succ(i, k)
      BY DEF Succ, Cells, DataCells
    <3>. QED
      BY <3>2, <3>3
  <2>. QED
    BY <2>2, <2>3
<1>6. ReaderPlaced'
  <2>1. Place(1)' = Place(1)
    BY <1>3
  <2>2. Expects' = Expects
    BY DEF Expects
  <2>. QED
    BY <2>1, <2>2 DEF StreamInv, ReaderPlaced
<1>. QED
  BY <1>2, <1>5, <1>6 DEF StreamInv

ReceiverInv ==
  /\ rcv.pc \notin {"junk", "hung"}
  /\ rcv.pc = "short" => wire = <<>> /\ snd.pc = "closed"
  /\ rcv.pc = "head" => in = DirAt(rcv.pid)
  /\ InHand => rcv.intact
  /\ rcv.pc = "body" => /\ in = Advance(pkts[rcv.pid].dir, 1)
                        /\ rcv.part <= DataCells(rcv.pid)
  /\ rcv.pc = "mac" => /\ in = Spent(pkts[rcv.pid])
                       /\ rcv.part = Cells(rcv.pid) /\ MacOf(in) > 0
  /\ rcv.pc = "extract" => in = Spent(pkts[rcv.pid])
  /\ rcv.pc = "install" => /\ rcv.pid > 0 /\ pkts[rcv.pid].payload = NewKeys
                           /\ in = Count(Spent(pkts[rcv.pid]))

\* The callers' view: the packet read last is the last one returned, and what
\* was returned is what was sent.
Prefix ==
  /\ rcv.pc \in {"head", "install"} => Len(delivered) = rcv.pid
  /\ InHand => Len(delivered) = rcv.pid - 1
  /\ Len(delivered) <= Len(pkts)
  /\ \A k \in 1 .. Len(delivered) : delivered[k].payload = pkts[k].payload

OrderInv == SenderInv /\ StreamInv /\ ReceiverInv /\ Prefix

\* Steps of the sender.
LEMMA OrderInvSender ==
  ASSUME TypeInv, Disconnect, ~EarlyInstall, OrderInv, [Next]_vars,
         UNCHANGED <<in, rcv, delivered>>, ~Flip, ~Receiver
  PROVE  StreamInv' /\ ReceiverInv' /\ Prefix'
<1>. SUFFICES ASSUME NEW n \in Nat, n = Len(pkts)
              PROVE  StreamInv' /\ ReceiverInv' /\ Prefix'
  BY Ranges
<1>1. /\ snd \in SenderState /\ pkts \in Seq(SendCall) /\ rcv.pid \in 0 .. n
      /\ InHand => rcv.pid \in 1 .. n
  BY Ranges DEF TypeInv, TypeCore, TypeOK
<1>2. Expects' = Expects
  BY DEF Expects
<1>3. snd.pc = "closed" => UNCHANGED <<snd, wire, pkts>>
  BY DEF Next, Sender, InstallEarly, SendBegin, WriteCell, WriteFail, SendReturn,
     InstallOut, InstallOutFail, Close, Ended, vars
<1>4. StreamInv'
  <2>1. CASE rcv.pc \in {"closed", "short"} /\ UNCHANGED <<snd, wire, pkts>>
    <3>1. Writes' = Writes
      BY <2>1 DEF Writes
    <3>. QED
      BY <2>1, <3>1, StreamSame DEF OrderInv
  <2>2. ASSUME UNCHANGED wire, Writes' = Writes \/ snd'.pc = "closed"
        PROVE  StreamInv'
    <3>1. rcv'.pc \in {"closed", "short"}
            \/ (Expects' = Expects /\ rcv.pc \notin {"closed", "short"})
      BY <1>2
    <3>. QED
      BY <1>3, <2>2, <3>1, StreamSame DEF OrderInv
  <2>3. ASSUME NEW p \in Payload, SendBegin(p)
        PROVE  StreamInv'
    <3>1. Writes' = At(n + 1, 1) /\ Writes = At(n + 1, 1)
      BY <1>1, <2>3 DEF SendBegin, Writes, SenderState
    <3>2. UNCHANGED wire
      BY <2>3 DEF SendBegin
    <3>. QED
      BY <2>2, <3>1, <3>2
  <2>4. CASE SendReturn \/ InstallOut
    <3>1. snd.pc # "writing" /\ snd'.pc # "writing" /\ UNCHANGED wire
      BY <1>1, <2>4 DEF SendReturn, InstallOut, SenderState
    <3>2. Len(pkts') = Len(pkts)
      BY <1>1, <2>4 DEF SendReturn, InstallOut
    <3>. QED
      BY <2>2, <3>1, <3>2 DEF Writes
  <2>5. CASE InstallOutFail \/ Close
    <3>1. snd'.pc = "closed" /\ UNCHANGED wire
      BY <1>1, <2>5 DEF InstallOutFail, Close, SenderState
    <3>. QED
      BY <2>2, <3>1
  <2>6. CASE WriteCell
    <3>. DEFINE c == Cell(n, snd.next)
    <3>1. /\ snd.pc = "writing" /\ UNCHANGED pkts /\ wire' = Append(wire, c)
          /\ c.pid = n /\ c.part = snd.next /\ c.shape = "whole"
      BY <2>6 DEF WriteCell, Cell
    <3>2. At(c.pid, c.part) = Writes
      BY <3>1 DEF Writes
    <3>3. Writes' = Succ(n, snd.next)
      <4>1. snd.next <= Cells(n) /\ snd.next \in Nat /\ Cells(n) \in Nat
        <5>1. n \in 1 .. Len(pkts)
          BY <3>1 DEF TypeInv, TypeCore, PacketInHand
        <5>2. Cells(n) \in Nat
          BY <5>1, CellCounts
        <5>. QED
          BY <1>1, <3>1, <5>2 DEF OrderInv, SenderInv, SenderState
      <4>2. CASE snd.next = Cells(n)
        <5>1. snd'.pc = "written"
          BY <1>1, <2>6, <4>2 DEF WriteCell, SenderState
        <5>. QED
          BY <3>1, <4>1, <4>2, <5>1 DEF Writes, Succ
      <4>3. CASE snd.next # Cells(n)
        <5>1. snd'.pc = "writing" /\ snd'.next = snd.next + 1
          BY <1>1, <2>6, <3>1, <4>3 DEF WriteCell, SenderState
        <5>. QED
          BY <3>1, <4>1, <4>3, <5>1 DEF Writes, Succ
      <4>. QED
        BY <4>2, <4>3
    <3>. HIDE DEF c
    <3>. QED
      BY <3>1, <3>2, <3>3, StreamAppend DEF OrderInv
  <2>7. CASE WriteFail
    <3>1. snd'.pc = "closed" /\ snd.pc = "writing" /\ UNCHANGED pkts
      BY <1>1, <2>7 DEF WriteFail, SenderState
    <3>2. CASE UNCHANGED wire
      BY <2>2, <3>1, <3>2
    <3>3. ASSUME NEW c, c = Shaped(Cell(n, snd.next), "cut"), wire' = Append(wire, c)
          PROVE  StreamInv'
      <4>1. c.pid = n /\ c.part = snd.next /\ c.shape = "cut"
        BY <3>3 DEF Shaped, Cell
      <4>2. At(c.pid, c.part) = Writes
        BY <3>1, <4>1 DEF Writes
      <4>. QED
        BY <3>1, <3>3, <4>1, <4>2, StreamAppend DEF OrderInv
    <3>. QED
      BY <2>7, <3>2, <3>3 DEF WriteFail
  <2>8. CASE UNCHANGED <<snd, wire, pkts>>
    <3>1. Writes' = Writes
      BY <2>8 DEF Writes
    <3>. QED
      BY <2>2, <2>8, <3>1
  <2>9. ~InstallEarly
    BY DEF InstallEarly
  <2>. QED
    BY <2>3, <2>4, <2>5, <2>6, <2>7, <2>8, <2>9 DEF Next, Sender, Ended, vars
<1>5. ReceiverInv'
  <2>1. DirAt(rcv.pid)' = DirAt(rcv.pid)
    <3>1. \A i \in 0 .. n : DirAt(i)' = DirAt(i)
      BY CellsKept
    <3>. QED
      BY <1>1, <3>1
  <2>2. rcv.pid \in 1 .. n =>
          /\ pkts'[rcv.pid].payload = pkts[rcv.pid].payload
          /\ pkts'[rcv.pid].dir = pkts[rcv.pid].dir
    BY PacketsGrow
  <2>3. rcv.pid \in 1 .. n =>
          /\ Spent(pkts[rcv.pid])' = Spent(pkts[rcv.pid])
          /\ Cells(rcv.pid)' = Cells(rcv.pid)
          /\ DataCells(rcv.pid)' = DataCells(rcv.pid)
    BY <2>2 DEF Spent, Cells, DataCells
  <2>4. rcv.pc = "install" => rcv.pid \in 1 .. n
    BY <1>1 DEF OrderInv, ReceiverInv
  <2>5. rcv.pc = "short" => wire' = <<>> /\ snd'.pc = "closed"
    BY <1>3 DEF OrderInv, ReceiverInv
  <2>. QED
    BY <1>1, <2>1, <2>2, <2>3, <2>4, <2>5 DEF OrderInv, ReceiverInv, InHand
<1>6. Prefix'
  <2>1. Len(pkts') \in {n, n + 1} /\ Len(delivered) \in Nat /\ Len(delivered) <= n
    BY PacketsGrow, Ranges DEF OrderInv, Prefix
  <2>2. ASSUME NEW k \in 1 .. Len(delivered)
        PROVE  delivered[k].payload = pkts'[k].payload
    <3>1. k \in 1 .. Len(pkts)
      BY <2>1
    <3>. QED
      BY <3>1, PacketsGrow DEF OrderInv, Prefix
  <2>. QED
    BY <2>1, <2>2 DEF OrderInv, Prefix, InHand
<1>. QED
  BY <1>4, <1>5, <1>6

(* Steps of the receiver.  The cell at the head of the stream is the one    *)
(* expected; cut short, it is the last, and the reader waits for the end.   *)

LEMMA CellAtHead ==
  ASSUME TypeInv, OrderInv, wire # <<>>, rcv.pc \in {"head", "body", "mac"}
  PROVE  /\ At(Head(wire).pid, Head(wire).part) = Expects /\ Place(1) = Expects
         /\ Head(wire).pid \in 1 .. Len(pkts)
         /\ \/ Head(wire).shape = "whole"
            \/ /\ Head(wire).shape = "cut" /\ Tail(wire) = <<>>
               /\ snd.pc = "closed"
<1>1. /\ Len(wire) \in Nat /\ Len(wire) > 0 /\ Head(wire) = wire[1]
      /\ 1 \in 1 .. Len(wire) /\ wire \in Seq(CellOf(Len(pkts)))
      /\ Len(wire) = 1 => Tail(wire) = <<>>
  <2>1. wire \in Seq(CellOf(Len(pkts)))
    BY DEF TypeInv, TypeCore, TypeOK
  <2>2. Len(wire) \in Nat /\ Len(wire) > 0
    BY <2>1
  <2>3. Len(wire) = 1 => Tail(wire) = <<>>
    <3>1. wire # <<>>
      OBVIOUS
    <3>2. Len(Tail(wire)) = Len(wire) - 1 /\ Tail(wire) \in Seq(CellOf(Len(pkts)))
      BY <2>1, <3>1, HeadTailProperties
    <3>3. Len(wire) = 1 => Len(Tail(wire)) = 0
      BY <3>2
    <3>. QED
      BY <3>2, <3>3, EmptySeq
  <2>. QED
    BY <2>1, <2>2, <2>3
<1>2. Place(1) = At(Head(wire).pid, Head(wire).part)
  BY <1>1 DEF Place
<1>3. Place(1) = Expects
  BY <1>1 DEF OrderInv, StreamInv, ReaderPlaced
<1>4. Head(wire).pid \in 1 .. Len(pkts)
  BY <1>1, Ranges
<1>5. wire[1].shape = "whole" \/ (/\ wire[1].shape = "cut" /\ 1 = Len(wire)
                                  /\ snd.pc = "closed")
  BY <1>1 DEF OrderInv, StreamInv, WholeCells
<1>. QED
  BY <1>1, <1>2, <1>3, <1>4, <1>5

\* A reader that stops, or waits at the end of the stream, promises nothing.
LEMMA OrderInvStops ==
  ASSUME TypeInv, OrderInv, [Next]_vars, UNCHANGED <<snd, pkts, delivered>>,
         wire' = wire \/ (wire # <<>> /\ wire' = Tail(wire)),
         \/ rcv'.pc = "closed"
         \/ rcv'.pc = "short" /\ wire' = <<>> /\ snd.pc = "closed"
  PROVE  StreamInv' /\ ReceiverInv' /\ Prefix'
<1>1. StreamInv'
  <2>1. CASE wire' = wire
    <3>1. Writes' = Writes
      BY DEF Writes
    <3>. QED
      BY <2>1, <3>1, StreamSame DEF OrderInv
  <2>2. CASE wire # <<>> /\ wire' = Tail(wire)
    BY <2>2, StreamTail DEF OrderInv
  <2>. QED
    BY <2>1, <2>2
<1>2. ReceiverInv' /\ Prefix'
  BY DEF OrderInv, ReceiverInv, Prefix, InHand
<1>. QED
  BY <1>1, <1>2

\* The reader cannot lose its place: it can only meet the end of the stream.
LEMMA NoDerail ==
  ASSUME TypeInv, OrderInv, [Next]_vars, UNCHANGED <<snd, pkts, delivered>>,
         wire # <<>>, rcv.pc \in {"head", "body", "mac"},
         NEW i, NEW k, Derail(i, k), At(i, k) = Expects, Head(wire).shape # "whole"
  PROVE  StreamInv' /\ ReceiverInv' /\ Prefix'
<1>1. /\ Head(wire).pid = i /\ Head(wire).part = k /\ Head(wire).shape = "cut"
      /\ Tail(wire) = <<>> /\ snd.pc = "closed"
  BY CellAtHead DEF At
<1>2. wire' = Tail(wire) /\ ReceiverAt("short")
  BY <1>1 DEF Derail
<1>3. rcv'.pc = "short"
  BY <1>2 DEF ReceiverAt, TypeInv, TypeCore, TypeOK, ReceiverState
<1>. QED
  BY <1>1, <1>2, <1>3, OrderInvStops

LEMMA ErrorStops ==
  ASSUME TypeInv, Disconnect, ReturnError
  PROVE  rcv'.pc = "closed"
BY DEF ReturnError, ReceiverAt, TypeInv, TypeCore, TypeOK, ReceiverState

LEMMA OrderInvHead ==
  ASSUME TypeInv, Disconnect, OrderInv, [Next]_vars, RecvHead
  PROVE  StreamInv' /\ ReceiverInv' /\ Prefix'
<1>. SUFFICES ASSUME NEW i, i = Head(wire).pid
              PROVE  StreamInv' /\ ReceiverInv' /\ Prefix'
  OBVIOUS
<1>1. /\ UNCHANGED <<snd, pkts, delivered>> /\ wire # <<>> /\ rcv.pc = "head"
      /\ in \in Direction /\ rcv.pid \in Nat
  BY Ranges DEF RecvHead, TypeInv, TypeCore, TypeOK
<1>2. /\ i = rcv.pid + 1 /\ Head(wire).part = 1 /\ i \in 1 .. Len(pkts)
      /\ Place(1) = At(i, 1) /\ At(i, 1) = Expects
      /\ Head(wire).shape \in {"whole", "cut"}
  BY <1>1, CellAtHead DEF Expects, At
<1>3. in = pkts[i].dir /\ pkts[i] \in SendCall
  <2>1. pkts[i].dir = DirAt(i - 1) /\ i - 1 = rcv.pid
    BY <1>1, <1>2 DEF OrderInv, SenderInv
  <2>2. pkts[i] \in SendCall
    BY <1>2, ElementOfSeq DEF TypeInv, TypeCore, TypeOK
  <2>. QED
    BY <1>1, <2>1, <2>2 DEF OrderInv, ReceiverInv
<1>4. Decrypts(i)
  BY <1>3 DEF Decrypts
<1>5. CASE Head(wire).shape = "whole" /\ wire' = Tail(wire) /\ ReturnError
  BY <1>1, <1>5, ErrorStops, OrderInvStops
<1>6. CASE Head(wire).shape # "whole" /\ Derail(i, 1)
  BY <1>1, <1>2, <1>6, NoDerail
<1>7. ASSUME Head(wire).shape = "whole", wire' = Tail(wire), in' = Advance(in, 1),
             rcv' = [rcv EXCEPT
                       !.pc = IF DataCells(i) > 1 THEN "body"
                              ELSE IF MacOf(in) > 0 THEN "mac" ELSE "extract",
                       !.pid = i, !.part = 2, !.intact = Head(wire).shape = "whole"]
      PROVE  StreamInv' /\ ReceiverInv' /\ Prefix'
  <2>0. /\ rcv'.pid = i /\ rcv'.part = 2 /\ rcv'.intact
        /\ rcv'.pc = IF DataCells(i) > 1 THEN "body"
                     ELSE IF MacOf(in) > 0 THEN "mac" ELSE "extract"
    <3>1. rcv \in ReceiverState(Len(pkts))
      BY DEF TypeInv, TypeCore, TypeOK
    <3>2. rcv'.intact = (Head(wire).shape = "whole")
      BY <1>7, <3>1 DEF ReceiverState
    <3>. QED
      BY <1>7, <3>1, <3>2 DEF ReceiverState
  <2>1. /\ DataCells(i) \in Nat \ {0}
        /\ Cells(i) = DataCells(i) \/ Cells(i) = DataCells(i) + 1
        /\ Cells(i) = DataCells(i) + 1 <=> MacOf(in) > 0
    BY <1>2, <1>3, CellCounts
  <2>2. Expects' = Succ(i, 1)
    <3>1. CASE DataCells(i) > 1
      BY <2>0, <2>1, <3>1 DEF Expects, Succ, At
    <3>2. CASE ~(DataCells(i) > 1)
      <4>1. DataCells(i) = 1
        BY <2>1, <3>2
      <4>2. CASE MacOf(in) > 0
        BY <2>0, <2>1, <4>1, <4>2 DEF Expects, Succ, At
      <4>3. CASE ~(MacOf(in) > 0)
        BY <2>0, <2>1, <4>1, <4>3 DEF Expects, Succ, At
      <4>. QED
        BY <4>2, <4>3
    <3>. QED
      BY <3>1, <3>2
  <2>3. StreamInv'
    BY <1>1, <1>2, <1>7, <2>2, StreamTail DEF OrderInv
  <2>4. ~(DataCells(i) > 1) => in' = Spent(pkts[i])
    <3>1. CASE pkts[i].dir.encrypted
      <4>1. ~(DataCells(i) > 1) => Blocks[pkts[i].payload] = 1
        BY <2>1, <3>1 DEF DataCells
      <4>. QED
        BY <1>3, <1>7, <4>1 DEF Spent
    <3>2. CASE ~pkts[i].dir.encrypted
      BY <2>1, <3>2 DEF DataCells
    <3>. QED
      BY <3>1, <3>2
  <2>5. MacOf(in') = MacOf(in)
    BY <1>1, <1>7, KeptByUse
  <2>6. rcv'.pc = "mac" => 2 = Cells(i)
    BY <2>0, <2>1
  <2>7. /\ rcv'.pid = i /\ rcv'.part = 2 /\ rcv'.intact
        /\ rcv'.pc \in {"body", "mac", "extract"}
        /\ rcv'.pc = "body" => DataCells(i) >= 2
        /\ rcv'.pc # "body" => ~(DataCells(i) > 1)
        /\ rcv'.pc = "mac" => MacOf(in) > 0
    BY <2>0, <2>1
  <2>8. ReceiverInv'
    <3>1. Cells(i)' = Cells(i) /\ DataCells(i)' = DataCells(i)
      BY <1>1 DEF Cells, DataCells
    <3>2. Spent(pkts[i])' = Spent(pkts[i])
      BY <1>1
    <3>3. rcv'.pc = "body" => in' = Advance(pkts'[i].dir, 1) /\ 2 <= DataCells(i)'
      BY <1>1, <1>3, <1>7, <2>1, <2>7, <3>1
    <3>4. rcv'.pc # "body" => in' = Spent(pkts'[i])
      BY <1>1, <2>4, <2>7
    <3>. QED
      BY <2>5, <2>6, <2>7, <3>1, <3>3, <3>4 DEF ReceiverInv, Cells, DataCells
  <2>9. Prefix'
    BY <1>1, <1>2, <2>7 DEF OrderInv, Prefix, InHand
  <2>. QED
    BY <2>3, <2>8, <2>9
<1>. QED
  BY <1>2, <1>4, <1>5, <1>6, <1>7, Zenon DEF RecvHead

LEMMA OrderInvBody ==
  ASSUME TypeInv, Disconnect, OrderInv, [Next]_vars, RecvBody
  PROVE  StreamInv' /\ ReceiverInv' /\ Prefix'
<1>. SUFFICES ASSUME NEW i, i = rcv.pid, NEW k, k = rcv.part
              PROVE  StreamInv' /\ ReceiverInv' /\ Prefix'
  OBVIOUS
<1>1. /\ UNCHANGED <<snd, pkts, delivered>> /\ wire # <<>> /\ rcv.pc = "body"
      /\ in \in Direction /\ rcv \in ReceiverState(Len(pkts)) /\ InHand
      /\ i \in 1 .. Len(pkts) /\ k \in Nat \ {0}
  <2>1. rcv.pc = "body" /\ InHand
    BY DEF RecvBody, InHand
  <2>. QED
    BY <2>1, Ranges DEF RecvBody, TypeInv, TypeCore, TypeOK
<1>2. /\ Place(1) = At(i, k) /\ At(i, k) = Expects
      /\ Head(wire).pid = i /\ Head(wire).part = k
      /\ Head(wire).shape \in {"whole", "cut"}
  <2>1. Expects = At(i, k)
    BY <1>1 DEF Expects
  <2>. QED
    BY <1>1, <2>1, CellAtHead DEF At
<1>3. CASE Head(wire).shape # "whole"
  <2>1. ~Continues
    BY <1>2, <1>3 DEF Continues
  <2>2. Derail(i, k)
    BY <2>1 DEF RecvBody
  <2>. QED
    BY <1>1, <1>2, <1>3, <2>2, NoDerail
<1>4. CASE Head(wire).shape = "whole"
  <2>1. Continues
    BY <1>2, <1>4 DEF Continues
  <2>2. PICK c : /\ c = IF k # DataCells(i) THEN "body"
                        ELSE IF MacOf(in) > 0 THEN "mac" ELSE "extract"
                 /\ rcv' = [rcv EXCEPT !.part = rcv.part + 1,
                              !.intact = rcv.intact /\ Head(wire).shape = "whole",
                              !.pc = c]
    BY <2>1 DEF RecvBody
  <2>3. /\ rcv'.pid = i /\ rcv'.part = k + 1 /\ rcv'.pc = c /\ rcv'.intact
    BY <1>1, <1>4, <2>2 DEF ReceiverState, OrderInv, ReceiverInv
  <2>4. /\ wire' = Tail(wire)
        /\ in' = IF k = DataCells(i) THEN Advance(in, k - 1) ELSE in
    BY <2>1 DEF RecvBody, RestBlocks
  <2>5. pkts[i] \in SendCall /\ pkts[i].dir \in Direction
    <3>1. pkts[i] \in SendCall
      BY <1>1, ElementOfSeq DEF TypeInv, TypeCore, TypeOK
    <3>. QED
      BY <3>1 DEF SendCall
  <2>6. in = Advance(pkts[i].dir, 1) /\ k <= DataCells(i)
    BY <1>1 DEF OrderInv, ReceiverInv
  <2>7. MacOf(in) = MacOf(pkts[i].dir) /\ MacOf(Spent(pkts[i])) = MacOf(pkts[i].dir)
    <3>1. 1 \in Nat
      OBVIOUS
    <3>. QED
      BY <2>5, <2>6, <3>1, KeptByUse, SpentTypes
  <2>8. /\ DataCells(i) \in Nat \ {0}
        /\ Cells(i) = DataCells(i) \/ Cells(i) = DataCells(i) + 1
        /\ Cells(i) = DataCells(i) + 1 <=> MacOf(in) > 0
    BY <1>1, <2>7, CellCounts
  <2>9. Expects' = Succ(i, k)
    <3>1. CASE k # DataCells(i)
      <4>1. k < Cells(i)
        BY <1>1, <2>6, <2>8, <3>1
      <4>. QED
        BY <2>2, <2>3, <3>1, <4>1 DEF Expects, Succ
    <3>2. CASE k = DataCells(i) /\ MacOf(in) > 0
      <4>1. k < Cells(i)
        BY <1>1, <2>8, <3>2
      <4>. QED
        BY <2>2, <2>3, <3>2, <4>1 DEF Expects, Succ
    <3>3. CASE k = DataCells(i) /\ ~(MacOf(in) > 0)
      <4>1. ~(k < Cells(i))
        BY <1>1, <2>8, <3>3
      <4>. QED
        BY <2>2, <2>3, <3>3, <4>1 DEF Expects, Succ
    <3>. QED
      BY <3>1, <3>2, <3>3
  <2>10. StreamInv'
    BY <1>1, <1>2, <2>4, <2>9, StreamTail DEF OrderInv
  <2>11. k = DataCells(i) => in' = Spent(pkts[i])
    <3>. SUFFICES ASSUME k = DataCells(i)
                  PROVE  in' = Spent(pkts[i])
      OBVIOUS
    <3>1. in' = Advance(Advance(pkts[i].dir, 1), k - 1)
      BY <2>4, <2>6
    <3>2. 1 \in Nat /\ k - 1 \in Nat /\ 1 + (k - 1) = k
      BY <1>1
    <3>3. in' = Advance(pkts[i].dir, k)
      BY <2>5, <3>1, <3>2, AdvanceTwice
    <3>. QED
      BY <3>3 DEF Spent, DataCells, Advance
  <2>12. ReceiverInv'
    <3>1. CASE k # DataCells(i)
      <4>1. c = "body" /\ in' = in /\ k + 1 <= DataCells(i)
        BY <1>1, <2>2, <2>4, <2>6, <2>8, <3>1
      <4>. QED
        BY <1>1, <2>3, <2>6, <4>1 DEF ReceiverInv, DataCells
    <3>2. CASE k = DataCells(i)
      <4>1. /\ c = IF MacOf(in) > 0 THEN "mac" ELSE "extract"
            /\ in' = Spent(pkts[i]) /\ (c = "mac" => k + 1 = Cells(i))
        BY <2>2, <2>8, <2>11, <3>2
      <4>2. MacOf(in') = MacOf(in)
        BY <2>7, <4>1
      <4>. QED
        BY <1>1, <2>3, <4>1, <4>2 DEF ReceiverInv, Cells, DataCells
    <3>. QED
      BY <3>1, <3>2
  <2>13. Prefix'
    <3>1. InHand' /\ rcv'.pc \notin {"head", "install"}
      BY <2>2, <2>3 DEF InHand
    <3>. QED
      BY <1>1, <2>3, <3>1 DEF OrderInv, Prefix
  <2>. QED
    BY <2>10, <2>12, <2>13
<1>. QED
  BY <1>3, <1>4

\* The MAC verifies: it was computed under the same key and sequence number.
LEMMA OrderInvMac ==
  ASSUME TypeInv, Disconnect, OrderInv, [Next]_vars, RecvMac
  PROVE  StreamInv' /\ ReceiverInv' /\ Prefix'
<1>. SUFFICES ASSUME NEW i, i = rcv.pid, NEW k, k = rcv.part
              PROVE  StreamInv' /\ ReceiverInv' /\ Prefix'
  OBVIOUS
<1>1. /\ UNCHANGED <<snd, pkts, delivered>> /\ wire # <<>> /\ rcv.pc = "mac"
      /\ rcv \in ReceiverState(Len(pkts)) /\ InHand
      /\ i \in 1 .. Len(pkts) /\ k \in Nat \ {0}
  <2>1. rcv.pc = "mac" /\ InHand
    BY DEF RecvMac, InHand
  <2>. QED
    BY <2>1, Ranges DEF RecvMac, TypeInv, TypeCore, TypeOK
<1>2. /\ Place(1) = At(i, k) /\ At(i, k) = Expects
      /\ Head(wire).pid = i /\ Head(wire).part = k
      /\ Head(wire).shape \in {"whole", "cut"}
  <2>1. Expects = At(i, k)
    BY <1>1 DEF Expects
  <2>. QED
    BY <1>1, <2>1, CellAtHead DEF At
<1>3. CASE Head(wire).shape # "whole"
  <2>1. ~Continues
    BY <1>2, <1>3 DEF Continues
  <2>2. Derail(i, k)
    BY <2>1 DEF RecvMac
  <2>. QED
    BY <1>1, <1>2, <1>3, <2>2, NoDerail
<1>4. CASE Head(wire).shape = "whole"
  <2>1. Continues
    BY <1>2, <1>4 DEF Continues
  <2>2. rcv.intact /\ in = Spent(pkts[i]) /\ k = Cells(i)
    BY <1>1 DEF OrderInv, ReceiverInv
  <2>3. pkts[i].dir.mac = in.mac /\ pkts[i].dir.seq = in.seq
    <3>1. pkts[i].dir \in Direction /\ Blocks[pkts[i].payload] \in Nat
      BY <1>1, PositionTypes, Ranges
    <3>. QED
      BY <2>2, <3>1, KeptByUse, SeqOps DEF Spent
  <2>4. MacVerifies
    BY <1>4, <2>2, <2>3 DEF MacVerifies
  <2>5. wire' = Tail(wire) /\ ReceiverAt("extract") /\ in' = in
    BY <2>1, <2>4 DEF RecvMac
  <2>6. rcv'.pid = i /\ rcv'.pc = "extract" /\ rcv'.intact
    BY <1>1, <2>2, <2>5 DEF ReceiverAt, ReceiverState
  <2>7. Expects' = Succ(i, k)
    <3>1. ~(k < Cells(i))
      BY <1>1, <2>2
    <3>. QED
      BY <2>6, <3>1 DEF Expects, Succ
  <2>8. StreamInv'
    BY <1>1, <1>2, <2>5, <2>7, StreamTail DEF OrderInv
  <2>9. ReceiverInv'
    BY <1>1, <2>2, <2>5, <2>6 DEF ReceiverInv
  <2>10. Prefix'
    <3>1. InHand' /\ rcv'.pc \notin {"head", "install"}
      BY <2>6 DEF InHand
    <3>. QED
      BY <1>1, <2>6, <3>1 DEF OrderInv, Prefix
  <2>. QED
    BY <2>8, <2>9, <2>10
<1>. QED
  BY <1>3, <1>4

LEMMA OrderInvExtract ==
  ASSUME TypeInv, Disconnect, OrderInv, [Next]_vars, RecvExtract
  PROVE  StreamInv' /\ ReceiverInv' /\ Prefix'
<1>. SUFFICES ASSUME NEW i, i = rcv.pid, NEW n \in Nat, n = Len(delivered)
              PROVE  StreamInv' /\ ReceiverInv' /\ Prefix'
  BY Ranges
<1>1. /\ UNCHANGED <<snd, pkts, wire>> /\ rcv.pc = "extract" /\ InHand
      /\ rcv \in ReceiverState(Len(pkts)) /\ i \in 1 .. Len(pkts)
      /\ delivered \in Seq(Result(Len(pkts))) /\ Len(pkts) \in Nat
  <2>1. rcv.pc = "extract" /\ InHand
    BY DEF RecvExtract, InHand
  <2>. QED
    BY <2>1, Ranges DEF RecvExtract, TypeInv, TypeCore, TypeOK
<1>2. CASE ReturnError /\ UNCHANGED delivered
  BY <1>1, <1>2, ErrorStops, OrderInvStops
<1>3. CASE Return(i, pkts[i].payload) /\ in' = Count(in)
  <2>1. /\ rcv'.pid = i
        /\ rcv'.pc = IF pkts[i].payload = NewKeys THEN "install" ELSE "head"
    BY <1>1, <1>3 DEF Return, ReceiverAt, ReceiverState
  <2>2. /\ Len(delivered') = n + 1 /\ delivered'[n + 1].payload = pkts[i].payload
        /\ \A k \in 1 .. n : delivered'[k] = delivered[k]
    BY <1>1, <1>3 DEF Return
  <2>3. StreamInv'
    <3>1. Expects' = Expects /\ Writes' = Writes
      BY <1>1, <2>1 DEF Expects, Writes
    <3>. QED
      BY <1>1, <3>1, StreamSame DEF OrderInv
  <2>4. ReceiverInv'
    <3>1. in' = Count(Spent(pkts[i]))
      BY <1>1, <1>3 DEF OrderInv, ReceiverInv
    <3>2. pkts[i].payload # NewKeys => in' = DirAt(i)
      BY <1>1, <3>1 DEF DirAt, After
    <3>3. DirAt(i)' = DirAt(i)
      <4>1. i \in 0 .. Len(pkts)
        BY <1>1
      <4>. QED
        BY <4>1, CellsKept
    <3>. QED
      BY <1>1, <2>1, <3>1, <3>2, <3>3 DEF ReceiverInv, InHand
  <2>5. Prefix'
    <3>1. n = i - 1 /\ n + 1 = i /\ n + 1 <= Len(pkts)
      BY <1>1 DEF OrderInv, Prefix
    <3>2. ASSUME NEW k \in 1 .. n + 1
          PROVE  delivered'[k].payload = pkts'[k].payload
      <4>1. CASE k \in 1 .. n
        BY <1>1, <2>2, <4>1 DEF OrderInv, Prefix
      <4>2. CASE k = n + 1
        BY <1>1, <2>2, <3>1, <4>2
      <4>. QED
        BY <4>1, <4>2
    <3>3. ~InHand'
      BY <2>1 DEF InHand
    <3>. QED
      BY <1>1, <2>1, <2>2, <3>1, <3>2, <3>3 DEF Prefix
  <2>. QED
    BY <2>3, <2>4, <2>5
<1>. QED
  BY <1>2, <1>3 DEF RecvExtract

LEMMA OrderInvInstall ==
  ASSUME TypeInv, Disconnect, OrderInv, [Next]_vars, InstallIn
  PROVE  StreamInv' /\ ReceiverInv' /\ Prefix'
<1>1. /\ UNCHANGED <<snd, pkts, wire, delivered>> /\ rcv.pc = "install"
      /\ rcv \in ReceiverState(Len(pkts)) /\ rcv.pid \in 0 .. Len(pkts)
      /\ rcv'.pc = "head" /\ rcv'.pid = rcv.pid
  BY Ranges DEF InstallIn, TypeInv, TypeCore, TypeOK, ReceiverState
<1>2. StreamInv'
  <2>1. Expects' = Expects /\ Writes' = Writes
    BY <1>1 DEF Expects, Writes
  <2>. QED
    BY <1>1, <2>1, StreamSame DEF OrderInv
<1>3. in' = DirAt(rcv.pid)
  <2>1. /\ rcv.pid > 0 /\ pkts[rcv.pid].payload = NewKeys
        /\ in = Count(Spent(pkts[rcv.pid]))
    BY <1>1 DEF OrderInv, ReceiverInv
  <2>2. in' = After(pkts[rcv.pid])
    <3>1. rcv.kex = in.key
      BY <1>1, KexIsKey
    <3>. QED
      BY <2>1, <3>1 DEF InstallIn, After
  <2>. QED
    BY <1>1, <2>1, <2>2 DEF DirAt
<1>4. ReceiverInv'
  <2>1. DirAt(rcv.pid)' = DirAt(rcv.pid)
    BY <1>1 DEF DirAt, After, Spent
  <2>. QED
    BY <1>1, <1>3, <2>1 DEF ReceiverInv, InHand
<1>5. Prefix'
  BY <1>1 DEF OrderInv, Prefix, InHand
<1>. QED
  BY <1>2, <1>4, <1>5

LEMMA OrderInvNext ==
  ASSUME Disconnect, ~EarlyInstall, "flip" \notin Faults,
         TypeInv, OrderInv, [Next]_vars
  PROVE  OrderInv'
<1>1. SenderInv'
  BY SenderInvNext DEF OrderInv
<1>2. ~Flip
  BY DEF Flip, CanFault
<1>3. CASE ~Receiver
  <2>1. UNCHANGED <<in, rcv, delivered>>
    BY <1>2, <1>3 DEF Next, Sender, InstallEarly, SendBegin, WriteCell, WriteFail,
       SendReturn, InstallOut, InstallOutFail, Close, Ended, vars
  <2>. QED
    BY <1>1, <1>2, <1>3, <2>1, OrderInvSender DEF OrderInv
<1>4. CASE RecvHead \/ RecvBody \/ RecvMac \/ RecvExtract \/ InstallIn
  BY <1>1, <1>4, OrderInvHead, OrderInvBody, OrderInvMac, OrderInvExtract,
     OrderInvInstall
  DEF OrderInv
<1>5. ~RecvDamaged /\ ~JunkRead /\ ~JunkEnd
  BY DEF OrderInv, ReceiverInv, RecvDamaged, JunkRead, JunkEnd, InHand
<1>6. CASE RecvEof \/ InstallInFail
  <2>1. UNCHANGED <<snd, pkts, delivered, wire>>
    BY <1>6 DEF RecvEof, InstallInFail
  <2>2. rcv'.pc = "closed"
    <3>1. rcv \in ReceiverState(Len(pkts))
      BY DEF TypeInv, TypeCore, TypeOK
    <3>2. ReceiverAt("closed") => rcv'.pc = "closed"
      BY <3>1 DEF ReceiverAt, ReceiverState
    <3>. QED
      BY <1>6, <3>1, <3>2, InstallFields DEF RecvEof
  <2>. QED
    BY <1>1, <2>1, <2>2, OrderInvStops DEF OrderInv
<1>. QED
  BY <1>3, <1>4, <1>5, <1>6 DEF Receiver

LEMMA OrderInvInit == Init => OrderInv
<1>. SUFFICES ASSUME Init
              PROVE  OrderInv
  OBVIOUS
<1>1. /\ Len(pkts) = 0 /\ Len(wire) = 0 /\ Len(delivered) = 0
      /\ out = Fresh /\ in = Fresh /\ snd.pc = "idle" /\ ~snd.early
      /\ rcv.pc = "head" /\ rcv.pid = 0
  BY DEF Init
<1>2. SenderInv /\ ReceiverInv /\ Prefix
  BY <1>1 DEF SenderInv, ReceiverInv, Prefix, DirAt, InHand
<1>3. Place(1) = At(1, 1) /\ Expects = At(1, 1)
  BY <1>1 DEF Place, Writes, Expects
<1>4. StreamInv
  BY <1>1, <1>3 DEF StreamInv, WholeCells, Consecutive, ReaderPlaced
<1>. QED
  BY <1>2, <1>4 DEF OrderInv

LEMMA OrderInvAlways ==
  ASSUME Disconnect, ~EarlyInstall, "flip" \notin Faults
  PROVE  Spec => [](TypeInv /\ OrderInv)
<1>1. Init => TypeInv /\ OrderInv
  BY InitType, OrderInvInit
<1>2. (TypeInv /\ OrderInv) /\ [Next]_vars => (TypeInv /\ OrderInv)'
  BY NextType, OrderInvNext
<1>. QED
  BY <1>1, <1>2, PTL DEF Spec

\* On a stream nobody damages, between callers that disconnect at the first
\* error and install keys after NEWKEYS, session_recv always stands at the
\* first cell of a packet that was sent with exactly the receiver's direction
\* state, and the two states are equal when nothing is on its way.
THEOREM Synchronised ==
  ASSUME Disconnect, ~EarlyInstall, "flip" \notin Faults
  PROVE  Spec => []InSync
<1>1. TypeInv /\ OrderInv => InSync
  <2>. SUFFICES ASSUME TypeInv, OrderInv, rcv.pc = "head"
                PROVE  /\ wire # <<>> => /\ Head(wire).part = 1
                                         /\ pkts[Head(wire).pid].dir = in
                       /\ wire = <<>> /\ snd.pc = "idle" => in = out
    BY DEF InSync
  <2>1. in = DirAt(rcv.pid) /\ Expects = At(rcv.pid + 1, 1) /\ rcv.pid \in Nat
    BY Ranges DEF OrderInv, ReceiverInv, Expects
  <2>2. CASE wire # <<>>
    <3>1. /\ Head(wire).pid = rcv.pid + 1 /\ Head(wire).part = 1
          /\ Head(wire).pid \in 1 .. Len(pkts)
      BY <2>1, <2>2, CellAtHead DEF At
    <3>2. pkts[Head(wire).pid].dir = DirAt(Head(wire).pid - 1)
      BY <3>1 DEF OrderInv, SenderInv
    <3>3. Head(wire).pid - 1 = rcv.pid
      BY <2>1, <3>1
    <3>. QED
      BY <2>1, <2>2, <3>1, <3>2, <3>3
  <2>3. ASSUME wire = <<>>, snd.pc = "idle"
        PROVE  in = out
    <3>1. Len(wire) = 0 /\ Place(1) = Expects
      BY <2>3 DEF OrderInv, StreamInv, ReaderPlaced
    <3>2. At(Len(pkts) + 1, 1) = At(rcv.pid + 1, 1)
      BY <2>1, <2>3, <3>1 DEF Place, Writes
    <3>3. Len(pkts) = rcv.pid
      <4>1. Len(pkts) + 1 = rcv.pid + 1 /\ Len(pkts) \in Nat
        BY <3>2, Ranges DEF At
      <4>. QED
        BY <2>1, <4>1
    <3>. QED
      BY <2>1, <2>3, <3>3 DEF OrderInv, SenderInv
  <2>. QED
    BY <2>2, <2>3
<1>. QED
  BY <1>1, OrderInvAlways, PTL

(* The abstract specification.  A call of session_send accepts a payload,   *)
(* the return of session_recv delivers one, and every other step stutters.  *)

Sent == [i \in DOMAIN pkts |-> pkts[i].payload]
Received == [j \in DOMAIN delivered |-> delivered[j].payload]

\* The payloads of a sequence of calls, or results, are a sequence.
LEMMA Payloads ==
  ASSUME NEW S, \A x \in S : x.payload \in Payload, NEW s \in Seq(S),
         NEW f, f = [i \in DOMAIN s |-> s[i].payload]
  PROVE  /\ f \in Seq(Payload) /\ Len(f) = Len(s)
         /\ \A i \in 1 .. Len(s) : f[i] = s[i].payload
<1>1. /\ DOMAIN s = 1 .. Len(s) /\ Len(s) \in Nat
      /\ \A i \in 1 .. Len(s) : s[i].payload \in Payload
  OBVIOUS
<1>2. f \in [1 .. Len(s) -> Payload]
  BY <1>1
<1>3. \A n \in Nat : \A g \in [1 .. n -> Payload] : g \in Seq(Payload) /\ Len(g) = n
  OBVIOUS
<1>. QED
  BY <1>1, <1>2, <1>3

LEMMA PayloadSeqs ==
  ASSUME TypeInv, TypeInv'
  PROVE  /\ Sent \in Seq(Payload) /\ Len(Sent) = Len(pkts)
         /\ \A i \in 1 .. Len(pkts) : Sent[i] = pkts[i].payload
         /\ Received \in Seq(Payload) /\ Len(Received) = Len(delivered)
         /\ \A j \in 1 .. Len(delivered) : Received[j] = delivered[j].payload
         /\ Sent' \in Seq(Payload) /\ Len(Sent') = Len(pkts')
         /\ \A i \in 1 .. Len(pkts') : Sent'[i] = pkts'[i].payload
         /\ Received' \in Seq(Payload) /\ Len(Received') = Len(delivered')
         /\ \A j \in 1 .. Len(delivered') : Received'[j] = delivered'[j].payload
<1>1. \A n : /\ \A x \in SendCall : x.payload \in Payload
             /\ \A x \in Result(n) : x.payload \in Payload
  BY DEF SendCall, Result
<1>2. /\ pkts \in Seq(SendCall) /\ delivered \in Seq(Result(Len(pkts)))
      /\ pkts' \in Seq(SendCall) /\ delivered' \in Seq(Result(Len(pkts')))
  BY DEF TypeInv, TypeCore, TypeOK
<1>3. /\ Sent \in Seq(Payload) /\ Len(Sent) = Len(pkts)
      /\ \A i \in 1 .. Len(pkts) : Sent[i] = pkts[i].payload
  <2>1. Sent = [i \in DOMAIN pkts |-> pkts[i].payload]
    BY Zenon DEF Sent
  <2>. QED
    BY <1>1, <1>2, <2>1, Payloads
<1>4. /\ Received \in Seq(Payload) /\ Len(Received) = Len(delivered)
      /\ \A j \in 1 .. Len(delivered) : Received[j] = delivered[j].payload
  <2>1. Received = [i \in DOMAIN delivered |-> delivered[i].payload]
    BY Zenon DEF Received
  <2>. QED
    BY <1>1, <1>2, <2>1, Payloads
<1>5. /\ Sent' \in Seq(Payload) /\ Len(Sent') = Len(pkts')
      /\ \A i \in 1 .. Len(pkts') : Sent'[i] = pkts'[i].payload
  <2>1. Sent' = [i \in DOMAIN pkts' |-> pkts'[i].payload]
    BY Zenon DEF Sent
  <2>. QED
    BY <1>1, <1>2, <2>1, Payloads
<1>6. /\ Received' \in Seq(Payload) /\ Len(Received') = Len(delivered')
      /\ \A j \in 1 .. Len(delivered') : Received'[j] = delivered'[j].payload
  <2>1. Received' = [i \in DOMAIN delivered' |-> delivered'[i].payload]
    BY Zenon DEF Received
  <2>. QED
    BY <1>1, <1>2, <2>1, Payloads
<1>. QED
  BY <1>3, <1>4, <1>5, <1>6

\* Two sequences of the same length with the same elements are equal.
LEMMA SameSeqs ==
  ASSUME NEW S, NEW s \in Seq(S), NEW t \in Seq(S), Len(s) = Len(t),
         \A i \in 1 .. Len(s) : s[i] = t[i]
  PROVE  s = t
BY SeqEqual

LEMMA SentStep ==
  ASSUME TypeInv, TypeInv', [Next]_vars
  PROVE  \/ Sent' = Sent
         \/ /\ \E p \in Payload : Sent' = Append(Sent, p)
            /\ UNCHANGED delivered
<1>1. /\ Sent \in Seq(Payload) /\ Len(Sent) = Len(pkts) /\ Len(pkts) \in Nat
      /\ \A i \in 1 .. Len(pkts) : Sent[i] = pkts[i].payload
  BY PayloadSeqs, Ranges
<1>2. /\ Sent' \in Seq(Payload) /\ Len(Sent') = Len(pkts')
      /\ \A i \in 1 .. Len(pkts') : Sent'[i] = pkts'[i].payload
  BY PayloadSeqs
<1>3. \A i \in 1 .. Len(pkts) : pkts'[i].payload = pkts[i].payload
  BY PacketsGrow
<1>4. CASE Len(pkts') = Len(pkts)
  <2>1. \A i \in 1 .. Len(Sent) : Sent[i] = Sent'[i]
    BY <1>1, <1>2, <1>3, <1>4
  <2>. QED
    BY <1>1, <1>2, <1>4, <2>1, SameSeqs
<1>5. ASSUME NEW p \in Payload, SendBegin(p)
      PROVE  Sent' = Append(Sent, p) /\ UNCHANGED delivered
  <2>1. /\ Len(pkts') = Len(pkts) + 1 /\ pkts'[Len(pkts) + 1].payload = p
        /\ UNCHANGED delivered
    BY <1>5 DEF SendBegin, TypeInv, TypeCore, TypeOK
  <2>2. /\ Append(Sent, p) \in Seq(Payload) /\ Len(Append(Sent, p)) = Len(pkts) + 1
        /\ Append(Sent, p)[Len(pkts) + 1] = p
        /\ \A i \in 1 .. Len(pkts) : Append(Sent, p)[i] = Sent[i]
    BY <1>1, AppendProperties
  <2>3. ASSUME NEW i \in 1 .. Len(pkts) + 1
        PROVE  Sent'[i] = Append(Sent, p)[i]
    <3>1. CASE i \in 1 .. Len(pkts)
      BY <1>1, <1>2, <1>3, <2>1, <2>2, <3>1
    <3>2. CASE i = Len(pkts) + 1
      BY <1>2, <2>1, <2>2, <3>2
    <3>. QED
      BY <1>1, <3>1, <3>2
  <2>4. Sent' = Append(Sent, p)
    BY <1>2, <2>1, <2>2, <2>3, SameSeqs
  <2>. QED
    BY <2>1, <2>4
<1>6. ~(\E p \in Payload : SendBegin(p)) => Len(pkts') = Len(pkts)
  <2>1. SendReturn => Len(pkts') = Len(pkts)
    BY DEF SendReturn, TypeInv, TypeCore, TypeOK
  <2>. QED
    BY <2>1 DEF Next, Sender, Receiver, InstallEarly, WriteCell, WriteFail,
       InstallOut, InstallOutFail, Close, RecvHead, RecvBody, RecvMac, RecvExtract,
       RecvDamaged, JunkRead, JunkEnd, RecvEof, InstallIn, InstallInFail, Flip,
       Ended, vars
<1>. QED
  BY <1>4, <1>5, <1>6

\* session_recv returns the payload the abstract specification delivers next.
LEMMA ReceivedStep ==
  ASSUME TypeInv, TypeInv', OrderInv, OrderInv', [Next]_vars,
         delivered' # delivered
  PROVE  /\ Len(Received) < Len(Sent)
         /\ Received' = Append(Received, Sent[Len(Received) + 1])
<1>. SUFFICES ASSUME NEW n \in Nat, n = Len(delivered)
              PROVE  /\ Len(Received) < Len(Sent)
                     /\ Received' = Append(Received, Sent[Len(Received) + 1])
  BY Ranges
<1>1. /\ \E d : delivered' = Append(delivered, d)
      /\ delivered \in Seq(Result(Len(pkts)))
  BY ReceiverCounts DEF TypeInv, TypeCore, TypeOK
<1>2. /\ Len(delivered') = n + 1
      /\ \A k \in 1 .. n : delivered'[k] = delivered[k]
  BY <1>1
<1>3. UNCHANGED pkts /\ Len(pkts) \in Nat
  <2>1. SendReturn \/ (\E p \in Payload : SendBegin(p)) => UNCHANGED delivered
    BY DEF SendReturn, SendBegin
  <2>. QED
    BY <2>1, Ranges DEF Next, Sender, Receiver, InstallEarly, WriteCell, WriteFail,
       InstallOut, InstallOutFail, Close, RecvHead, RecvBody, RecvMac, RecvExtract,
       RecvDamaged, JunkRead, JunkEnd, RecvEof, InstallIn, InstallInFail, Flip,
       Ended, vars
<1>4. /\ n + 1 <= Len(pkts)
      /\ delivered'[n + 1].payload = pkts[n + 1].payload
  BY <1>2, <1>3 DEF OrderInv, Prefix
<1>5. /\ Sent \in Seq(Payload) /\ Len(Sent) = Len(pkts)
      /\ Received \in Seq(Payload) /\ Len(Received) = n
      /\ \A j \in 1 .. n : Received[j] = delivered[j].payload
      /\ Sent[n + 1] = pkts[n + 1].payload
  <2>1. n + 1 \in 1 .. Len(pkts)
    BY <1>3, <1>4
  <2>. QED
    BY <2>1, PayloadSeqs
<1>6. /\ Received' \in Seq(Payload) /\ Len(Received') = n + 1
      /\ \A j \in 1 .. n + 1 : Received'[j] = delivered'[j].payload
  BY <1>2, PayloadSeqs
<1>. DEFINE next == Append(Received, Sent[n + 1])
<1>7. Sent[n + 1] \in Payload
  <2>1. n + 1 \in 1 .. Len(Sent)
    BY <1>3, <1>4, <1>5
  <2>. QED
    BY <1>5, <2>1, ElementOfSeq
<1>8. /\ next \in Seq(Payload) /\ Len(next) = n + 1 /\ next[n + 1] = Sent[n + 1]
      /\ \A j \in 1 .. n : next[j] = Received[j]
  BY <1>5, <1>7, AppendProperties
<1>. HIDE DEF next
<1>9. ASSUME NEW j \in 1 .. n + 1
      PROVE  Received'[j] = next[j]
  <2>1. CASE j \in 1 .. n
    <3>1. delivered'[j] = delivered[j] /\ Received[j] = delivered[j].payload
      BY <1>2, <1>5, <2>1
    <3>. QED
      BY <1>6, <1>8, <2>1, <3>1
  <2>2. CASE j = n + 1
    <3>1. Received'[n + 1] = pkts[n + 1].payload
      BY <1>4, <1>6
    <3>. QED
      BY <1>5, <1>8, <2>2, <3>1
  <2>. QED
    BY <2>1, <2>2
<1>10. Received' = next
  BY <1>6, <1>8, <1>9, SameSeqs
<1>11. n < Len(pkts)
  BY <1>3, <1>4
<1>. QED
  BY <1>5, <1>10, <1>11 DEF next

\* What the callers see is ordered delivery: session_recv returns the payloads
\* handed to session_send, in that order, across rekeys, failed writes, failed
\* allocations and failed key changes.
THEOREM Implements ==
  ASSUME Disconnect, ~EarlyInstall, "flip" \notin Faults
  PROVE  Spec => ImplementsOrderedDelivery
<1>1. Init => Abstract!Init
  BY DEF Init, Abstract!Init
<1>2. (TypeInv /\ OrderInv) /\ (TypeInv /\ OrderInv)' /\ [Next]_vars
        => [Abstract!Next]_(Abstract!vars)
  <2>. SUFFICES ASSUME TypeInv, OrderInv, TypeInv', OrderInv', [Next]_vars
                PROVE  [Abstract!Next]_(Abstract!vars)
    OBVIOUS
  <2>1. CASE delivered' # delivered
    <3>1. /\ Len(Received) < Len(Sent)
          /\ Received' = Append(Received, Sent[Len(Received) + 1])
      BY <2>1, ReceivedStep
    <3>2. Sent' = Sent
      BY <2>1, SentStep
    <3>. QED
      BY <3>1, <3>2 DEF Abstract!Next, Abstract!Deliver, Sent, Received
  <2>2. CASE UNCHANGED delivered
    <3>1. Received' = Received
      BY <2>2 DEF Received
    <3>2. Sent' = Sent \/ \E p \in Payload : Sent' = Append(Sent, p)
      BY SentStep
    <3>. QED
      BY <3>1, <3>2 DEF Abstract!Next, Abstract!Accept, Abstract!vars, Sent, Received
  <2>. QED
    BY <2>1, <2>2
<1>. QED
  BY <1>1, <1>2, OrderInvAlways, PTL DEF Spec, ImplementsOrderedDelivery, Abstract!Spec
=============================================================================
