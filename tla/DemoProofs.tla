------------------------------ MODULE DemoProofs ------------------------------
(***************************************************************************)
(* The invariant of the two programs of main.c over one connection, and    *)
(* theorems that follow.  The identification exchange keeps its invariant   *)
(* (IdentProofs) inside them; here it is shown where a packet is on a       *)
(* stream, and that a program that receives one receives all of it.  Last,  *)
(* that parse_target reads a target as it is meant.                         *)
(***************************************************************************)
EXTENDS Demo, IdentProofs

\* Bytes that p writes before its packet, and those on the wire to e behind them
Whole(p) == Len(prefix[p]) + Len(ident[p])
Extra(e, p) == Count(e) + Len(wire[e]) - (Whole(p) - Len(todo[p]))

\* Where on the wire to e the packet of p begins
Place(e, p) == Whole(p) - Count(e) + 1

\* The payload an end means to send
Mine(e) == IF e = "client" THEN "IGNORE" ELSE "DEBUG"

\* What is on the wire to e behind the peer's identification string is what p has
\* sent of its packet.
ArrivalInv(e, p) ==
  /\ sent[p] # "nothing" => todo[p] = <<>>
  /\ pc[e] \in Unread \cup Reading \cup Past =>
       /\ sent[p] \in {"nothing", "none"} => Extra(e, p) = 0
       /\ sent[p] = "part" => Extra(e, p) < FrameLen
       /\ sent[p] = "all" =>
            /\ Extra(e, p) = FrameLen
            /\ wire[e][Place(e, p)] \in Payload
            /\ ~trouble => wire[e][Place(e, p)] = Mine(p)

\* Each program sends one packet and receives one; the server answers.
PacketInv(e, p) ==
  /\ pc[e] \in Unread \cup Reading \cup {"done"} => sent[e] = "nothing"
  /\ pc[e] \in Unread \cup Reading \cup Past => got[e] = "nothing"
  /\ got[e] # "nothing" => sent[p] = "all" /\ wire[e] = <<>>

ServerInv ==
  /\ pc["server"] \in {"wait", "answer"} => sent["server"] = "nothing"
  /\ pc["server"] = "answer" \/ sent["server"] # "nothing" => got["server"] # "nothing"

ProgramTypes ==
  /\ target \in Targets \cup {<<>>} /\ address.port \in 0 .. MaxPort
  /\ connected \in BOOLEAN /\ lost \in BOOLEAN /\ trouble \in BOOLEAN
  /\ sent \in [End -> {"nothing", "all", "none", "part"}]
  /\ got \in [End -> Payload \cup {"nothing"}]

\* As long as nothing has failed outside the two programs
QuietInv(e) ==
  /\ pc[e] \notin {"failed", "died"}
  /\ sent[e] \in {"nothing", "all"}
  /\ got[e] \in {"nothing", Mine(Peer(e))}
  /\ pc[e] \in {"close", "returned"} => sent[e] = "all" /\ got[e] # "nothing"
  /\ pc["client"] = "wait" => sent["client"] = "all"

DemoInv ==
  /\ ExchangeInv /\ ProgramTypes /\ ServerInv
  /\ \A e \in End : ArrivalInv(e, Peer(e)) /\ PacketInv(e, Peer(e))

QuietDemo ==
  (\A e \in End : Tolerable(e)) /\ ~trouble => ~lost /\ \A e \in End : QuietInv(e)

-----------------------------------------------------------------------------
(* Packets.                                                                 *)

LEMMA FrameFacts ==
  /\ FrameLen \in Nat \ {0}
  /\ \A q \in Payload :
       /\ Frame(q) \in Seq(Symbol) /\ Len(Frame(q)) = FrameLen /\ Frame(q)[1] = q
       /\ \A n \in 0 .. FrameLen - 1 :
            SubSeq(Frame(q), 1, n) \in Seq(Symbol) /\ Len(SubSeq(Frame(q), 1, n)) = n
<1>1. Body \in Seq(Byte) /\ Len(Body) \in Nat
  BY DemoAssumption
<1>2. Body \in Seq(Symbol)
  BY <1>1 DEF Symbol
<1>3. FrameLen \in Nat \ {0}
  BY <1>1 DEF FrameLen
<1>4. ASSUME NEW q \in Payload
      PROVE  Frame(q) \in Seq(Symbol) /\ Len(Frame(q)) = FrameLen /\ Frame(q)[1] = q
  <2>1. q \in Symbol
    BY DEF Payload, Symbol
  <2>2. <<q>> \in Seq(Symbol) /\ Len(<<q>>) = 1 /\ <<q>>[1] = q
    BY <2>1
  <2>3. /\ <<q>> \o Body \in Seq(Symbol) /\ Len(<<q>> \o Body) = 1 + Len(Body)
        /\ (<<q>> \o Body)[1] = <<q>>[1]
    BY <1>1, <1>2, <2>2, ConcatProperties
  <2>. QED
    BY <1>1, <2>2, <2>3 DEF Frame, FrameLen
<1>5. ASSUME NEW q \in Payload, NEW n \in 0 .. FrameLen - 1
      PROVE  SubSeq(Frame(q), 1, n) \in Seq(Symbol) /\ Len(SubSeq(Frame(q), 1, n)) = n
  <2>1. Frame(q) \in Seq(Symbol) /\ Len(Frame(q)) = FrameLen /\ n <= FrameLen /\ n \in Nat
    BY <1>3, <1>4
  <2>. HIDE DEF FrameLen
  <2>2. \A f \in Seq(Symbol) : n <= Len(f) =>
          SubSeq(f, 1, n) \in Seq(Symbol) /\ Len(SubSeq(f, 1, n)) = n
    BY <2>1
  <2>. QED
    BY <2>1, <2>2
<1>. QED
  BY <1>3, <1>4, <1>5

\* What e has put on the wire, with what became of its packet
SentAs(e, s, r) ==
  /\ s \in Seq(Symbol) /\ r \in {"all", "none", "part"}
  /\ wire' = [wire EXCEPT ![Peer(e)] = wire[Peer(e)] \o s]
  /\ sent' = [sent EXCEPT ![e] = r]
  /\ r = "all" => Len(s) = FrameLen /\ s[1] \in Payload
  /\ r = "none" => Len(s) = 0
  /\ r = "part" => Len(s) < FrameLen
  /\ ~trouble' => ~trouble /\ lost' = lost /\ r = "all" /\ s[1] = Mine(e)
  /\ trouble' \in BOOLEAN /\ lost' \in BOOLEAN

LEMMA SendEffect ==
  ASSUME IdentTypes, ProgramTypes, NEW e \in End, SendCall(e, Mine(e))
  PROVE  \E s, r : SentAs(e, s, r)
<1>. DEFINE p == Peer(e)
<1>1. p \in End /\ wire \in [End -> Seq(Symbol)] /\ Mine(e) \in {"IGNORE", "DEBUG"}
      /\ lost \in BOOLEAN /\ trouble \in BOOLEAN
  BY Peers DEF IdentTypes, ProgramTypes, Mine
<1>. HIDE DEF p
<1>2. CASE \E q \in {Mine(e), "junk"} : SendAll(e, q)
  <2>1. PICK q \in {Mine(e), "junk"} : SendAll(e, q)
    BY <1>2
  <2>2. q \in Payload
    BY <1>1, <2>1 DEF Payload
  <2>3. SentAs(e, Frame(q), "all")
    <3>1. ~trouble' => ~trouble /\ q = Mine(e)
      BY <1>1, <2>1 DEF SendAll
    <3>2. trouble' \in BOOLEAN
      BY <1>1, <2>1 DEF SendAll
    <3>. QED
      BY <1>1, <2>1, <2>2, <3>1, <3>2, FrameFacts DEF SentAs, SendAll, p
  <2>. QED
    BY <2>3
<1>3. CASE SendNothing(e)
  <2>1. wire[p] \o <<>> = wire[p]
    BY <1>1, ConcatEmptySeq
  <2>2. wire' = [wire EXCEPT ![p] = wire[p] \o <<>>]
    BY <1>1, <1>3, <2>1 DEF SendNothing
  <2>3. <<>> \in Seq(Symbol) /\ Len(<<>>) = 0
    OBVIOUS
  <2>4. SentAs(e, <<>>, "none")
    BY <1>1, <1>3, <2>2, <2>3 DEF SentAs, SendNothing, p
  <2>. QED
    BY <2>4
<1>4. CASE SendPart(e, Mine(e))
  <2>1. PICK n \in 0 .. FrameLen - 1 :
          wire' = [wire EXCEPT ![p] = @ \o SubSeq(Frame(Mine(e)), 1, n)]
    BY <1>4, Zenon DEF SendPart, p
  <2>2. Mine(e) \in Payload
    BY <1>1 DEF Payload
  <2>. DEFINE s == SubSeq(Frame(Mine(e)), 1, n)
  <2>3. s \in Seq(Symbol) /\ Len(s) = n
    BY <2>2, FrameFacts
  <2>4. n < FrameLen
    BY FrameFacts
  <2>5. wire' = [wire EXCEPT ![p] = wire[p] \o s]
    BY <2>1
  <2>. HIDE DEF s
  <2>6. SentAs(e, s, "part")
    BY <1>4, <2>3, <2>4, <2>5 DEF SentAs, SendPart, p
  <2>. QED
    BY <2>6
<1>. QED
  BY <1>2, <1>3, <1>4, Zenon DEF SendCall

-----------------------------------------------------------------------------
(* Steps of the programs outside the exchange, as far as its invariant sees *)
(* them.                                                                    *)

\* An end goes elsewhere.
Shift(e, l) ==
  /\ pc' = [pc EXCEPT ![e] = l] /\ OnlyGoto /\ UNCHANGED <<sent, got>>
  /\ \/ pc[e] \in Unread /\ l \in Unread \cup {"usage", "failed", "died"}
     \/ e = "server" /\ pc[e] = "done" /\ l = "wait"
     \/ pc[e] = "read" /\ l = "failed"
     \/ pc[e] \in {"done", "answer", "wait"} /\ l \in {"died", "hung"}
     \/ pc[e] = "wait" /\ l = "close"
     \/ pc[e] = "close" /\ l = "returned"

\* An end takes a packet, and keeps it or not.
Takes(e) ==
  /\ pc[e] = "wait" /\ Arrived(e) /\ TakeFrame(e)
  /\ \/ Goto(e, "close") /\ got' = got
     \/ /\ Goto(e, IF e = "server" THEN "answer" ELSE "close")
        /\ got' = [got EXCEPT ![e] = wire[e][1]]
  /\ UNCHANGED <<ident, prefix, todo, line, attempt, known, consumed, sent>>

\* An end sends its packet.
Sends(e) ==
  /\ \/ e = "client" /\ pc[e] = "done" /\ Goto(e, "wait")
     \/ e = "server" /\ pc[e] = "answer" /\ Goto(e, "close")
  /\ SendCall(e, Mine(e))

LEMMA Kinds ==
  ASSUME DemoNext
  PROVE  \/ UNCHANGED allVars
         \/ \E e \in End : \/ Exchange(e) /\ UNCHANGED programVars
                           \/ \E l : Shift(e, l)
                           \/ Takes(e) \/ Sends(e)
<1>. USE DEF Goto
<1>1. "client" \in End /\ "server" \in End
  BY DEF End
<1>2. CASE Parse
  <2>1. \E l \in {"usage", "connect"} : pc' = [pc EXCEPT !["client"] = l]
    BY <1>2, Zenon DEF Parse
  <2>2. \E l : Shift("client", l)
    BY <1>2, <2>1 DEF Parse, Shift, Unread
  <2>. QED
    BY <1>1, <2>2
<1>3. CASE Connect
  <2>1. \E l \in {"write", "failed"} : pc' = [pc EXCEPT !["client"] = l]
    BY <1>3, Zenon DEF Connect
  <2>2. \E l : Shift("client", l)
    BY <1>3, <2>1 DEF Connect, Shift, Unread
  <2>. QED
    BY <1>1, <2>2
<1>4. CASE Listen
  <2>1. \E l \in {"accept", "write", "failed"} : pc' = [pc EXCEPT !["server"] = l]
    BY <1>4, Zenon DEF Listen
  <2>2. pc["server"] \in {"start", "accept"} /\ OnlyGoto /\ UNCHANGED <<sent, got>>
    BY <1>4, Zenon DEF Listen
  <2>3. \E l : Shift("server", l)
    BY <2>1, <2>2 DEF Shift, Unread
  <2>. QED
    BY <1>1, <2>3
<1>5. CASE ClientSends
  BY <1>1, <1>5 DEF ClientSends, Sends, Mine
<1>6. CASE ServerAnswers
  BY <1>1, <1>6 DEF ServerAnswers, Sends, Mine
<1>7. CASE ServerWaits
  <2>1. Shift("server", "wait")
    BY <1>7 DEF ServerWaits, Shift, programVars
  <2>. QED
    BY <1>1, <2>1
<1>8. ASSUME NEW e \in End, Receives(e) PROVE Takes(e)
  BY <1>8, Zenon DEF Receives, Takes
<1>9. ASSUME NEW e \in End, ReceivesNothing(e) PROVE Takes(e) \/ \E l : Shift(e, l)
  <2>1. CASE ~Arrived(e) /\ UNCHANGED <<wire, lost, trouble>>
    <3>1. Shift(e, "close")
      BY <1>9, <2>1 DEF ReceivesNothing, Shift, OnlyGoto
    <3>. QED
      BY <3>1
  <2>2. CASE Arrived(e) /\ TakeFrame(e)
    BY <1>9, <2>2 DEF ReceivesNothing, Takes
  <2>. QED
    BY <1>9, <2>1, <2>2 DEF ReceivesNothing
<1>10. ASSUME NEW e \in End, Close(e) PROVE \E l : Shift(e, l)
  <2>1. Shift(e, "returned")
    BY <1>10 DEF Close, Shift
  <2>. QED
    BY <2>1
<1>11. ASSUME NEW e \in End, Die(e) PROVE \E l : Shift(e, l)
  <2>1. PICK l \in {"died", "hung"} :
          /\ Goto(e, l)
          /\ (pc[e] = "write" /\ l = "died") \/ pc[e] \in {"done", "answer", "wait"}
    BY <1>11, Zenon DEF Die
  <2>2. Shift(e, l)
    BY <1>11, <2>1 DEF Die, Shift, Unread
  <2>. QED
    BY <2>2
<1>12. ASSUME NEW e \in End, BreakDown(e) PROVE \E l : Shift(e, l)
  <2>1. CASE Broken(e)
    <3>1. Shift(e, "failed")
      BY <1>12, <2>1 DEF BreakDown, Broken, Shift, Unread
    <3>. QED
      BY <3>1
  <2>2. CASE pc[e] = "wait" /\ Goto(e, "close") /\ OnlyGoto
    <3>1. Shift(e, "close")
      BY <1>12, <2>2 DEF BreakDown, Shift
    <3>. QED
      BY <3>1
  <2>. QED
    BY <1>12, <2>1, <2>2 DEF BreakDown
<1>13. CASE ClientStep
  BY <1>1, <1>5, <1>8, <1>9, <1>10, <1>13, Zenon DEF ClientStep
<1>14. CASE ServerStep
  BY <1>1, <1>4, <1>6, <1>7, <1>8, <1>9, <1>10, <1>14, Zenon DEF ServerStep
<1>. QED
  BY <1>2, <1>3, <1>11, <1>12, <1>13, <1>14, Zenon DEF DemoNext, DemoEnded

-----------------------------------------------------------------------------
(* The exchange keeps its invariant inside the programs.                    *)

LEMMA Moved ==
  ASSUME ExchangeInv, NEW e \in End, NEW l \in Phase,
         pc' = [pc EXCEPT ![e] = l],
         UNCHANGED <<ident, prefix, todo, line, attempt, known, consumed>>,
         wire' \in [End -> Seq(Symbol)], wire'[Peer(e)] = wire[Peer(e)],
         l \in Unread \cup Reading \cup Past => wire'[e] = wire[e],
         l \in HasWritten => pc[e] \in HasWritten,
         l \in Unread => pc[e] \in Unread, l \notin Reading,
         l \in Past \cup {"answer"} => pc[e] \in Past
  PROVE  ExchangeInv'
<1>. DEFINE p == Peer(e)
<1>1. PICK o \in Openings : OpenedBy(o) /\ \A d \in End : EndInv(o, d, Peer(d))
  BY Zenon DEF ExchangeInv
<1>2. /\ p \in End /\ p # e /\ Peer(p) = e /\ \A d \in End : d = e \/ d = p
      /\ EndInv(o, e, p) /\ EndInv(o, p, e) /\ IdentTypes
  BY <1>1, Peers, Zenon DEF ExchangeInv
<1>3. OpenedBy(o)'
  BY <1>1, Zenon DEF OpenedBy
<1>4. pc'[e] = l /\ pc'[p] = pc[p] /\ pc' \in [End -> Phase]
  BY <1>2 DEF IdentTypes
<1>5. IdentTypes'
  BY <1>2, <1>4 DEF IdentTypes
<1>6. EndInv(o, p, e)'
  BY <1>2, <1>4, Stays
<1>7. EndInv(o, e, p)'
  <2>1. l \in Unread => l # "line" /\ pc[e] # "line"
    BY DEF Unread
  <2>2. /\ pc'[e] \in Unread \cup Reading \cup Past => pc[e] \in Unread \cup Reading \cup Past
        /\ pc'[e] \in Unread \cup Reading =>
             pc[e] \in Unread \cup Reading /\ (pc'[e] = "line" <=> pc[e] = "line")
        /\ pc'[e] \in Reading => pc[e] \in Reading
        /\ pc'[e] \in Past \cup {"answer"} => pc[e] \in Past \cup {"answer"}
        /\ pc'[e] \in HasWritten => pc[e] \in HasWritten
        /\ pc'[e] \in Unread \cup Reading \cup Past => wire'[e] = wire[e]
    BY <1>4, <2>1
  <2>. QED
    BY <1>2, <2>2, Move
<1>. QED
  BY <1>2, <1>3, <1>5, <1>6, <1>7, Zenon DEF ExchangeInv

LEMMA ShiftKeeps ==
  ASSUME ExchangeInv, NEW e \in End, NEW l, Shift(e, l)
  PROVE  ExchangeInv'
<1>1. /\ pc' = [pc EXCEPT ![e] = l]
      /\ UNCHANGED <<ident, prefix, todo, wire, line, attempt, known, consumed>>
  BY DEF Shift, OnlyGoto
<1>2. wire \in [End -> Seq(Symbol)]
  BY DEF ExchangeInv, IdentTypes
<1>3. /\ l \in Phase
      /\ l \in HasWritten => pc[e] \in HasWritten
      /\ l \in Unread => pc[e] \in Unread
      /\ l \notin Reading
      /\ l \in Past \cup {"answer"} => pc[e] \in Past
  BY DEF Shift, Phase, HasWritten, Unread, Reading, Past
<1>. QED
  BY <1>1, <1>2, <1>3, Moved

LEMMA TakesKeeps ==
  ASSUME ExchangeInv, NEW e \in End, Takes(e)
  PROVE  ExchangeInv'
<1>. DEFINE w == SubSeq(wire[e], FrameLen + 1, Len(wire[e]))
<1>1. PICK l \in {"answer", "close"} : pc' = [pc EXCEPT ![e] = l]
  BY Zenon DEF Takes, Goto
<1>2. /\ wire' = [wire EXCEPT ![e] = w] /\ pc[e] = "wait"
      /\ UNCHANGED <<ident, prefix, todo, line, attempt, known, consumed>>
  BY DEF Takes, TakeFrame
<1>3. wire \in [End -> Seq(Symbol)] /\ Peer(e) \in End /\ Peer(e) # e
  BY Peers DEF ExchangeInv, IdentTypes
<1>4. w \in Seq(Symbol)
  BY <1>3, FrameFacts
<1>. HIDE DEF w
<1>5. wire' \in [End -> Seq(Symbol)] /\ wire'[Peer(e)] = wire[Peer(e)]
  BY <1>2, <1>3, <1>4
<1>6. /\ l \in Phase /\ l \notin Unread \cup Reading \cup Past
      /\ l \in HasWritten => pc[e] \in HasWritten
      /\ l \in Past \cup {"answer"} => pc[e] \in Past
  BY <1>2 DEF Phase, HasWritten, Unread, Reading, Past
<1>. QED
  BY <1>1, <1>2, <1>5, <1>6, Moved

LEMMA SendsKeeps ==
  ASSUME ExchangeInv, ProgramTypes, NEW e \in End, Sends(e)
  PROVE  ExchangeInv'
<1>. DEFINE p == Peer(e)
<1>1. PICK o \in Openings : OpenedBy(o) /\ \A d \in End : EndInv(o, d, Peer(d))
  BY Zenon DEF ExchangeInv
<1>2. /\ p \in End /\ p # e /\ Peer(p) = e /\ \A d \in End : d = e \/ d = p
      /\ EndInv(o, e, p) /\ EndInv(o, p, e) /\ IdentTypes
  BY <1>1, Peers, Zenon DEF ExchangeInv
<1>3. UNCHANGED <<ident, prefix, todo, line, attempt, known, consumed>>
  BY Zenon DEF Sends, SendCall
<1>4. OpenedBy(o)'
  BY <1>1, <1>3, Zenon DEF OpenedBy
<1>5. PICK s, r : SentAs(e, s, r)
  BY <1>2, SendEffect DEF Sends
<1>. HIDE DEF p
<1>6. s \in Seq(Symbol) /\ wire' = [wire EXCEPT ![p] = wire[p] \o s]
  BY <1>5 DEF SentAs, p
<1>7. wire \in [End -> Seq(Symbol)] /\ pc \in [End -> Phase]
  BY <1>2 DEF IdentTypes
<1>8. wire'[p] = wire[p] \o s /\ wire'[e] = wire[e] /\ wire' \in [End -> Seq(Symbol)]
  <2>1. wire[p] \o s \in Seq(Symbol)
    BY <1>2, <1>6, <1>7
  <2>. QED
    BY <1>2, <1>6, <1>7, <2>1
<1>9. \/ pc[e] = "done" /\ pc'[e] = "wait" /\ pc'[p] = pc[p] /\ pc' \in [End -> Phase]
      \/ pc[e] = "answer" /\ pc'[e] = "close" /\ pc'[p] = pc[p] /\ pc' \in [End -> Phase]
  BY <1>2, <1>7 DEF Sends, Goto, Phase, Past
<1>10. IdentTypes'
  BY <1>2, <1>3, <1>8, <1>9 DEF IdentTypes
<1>11. EndInv(o, e, p)'
  BY <1>2, <1>3, <1>8, <1>9, Move DEF Unread, Reading, Past, HasWritten
<1>12. EndInv(o, p, e)'
  <2>1. todo[e] = <<>> /\ todo'[e] = <<>>
    BY <1>2, <1>3, <1>9 DEF EndInv, WriteInv, HasWritten
  <2>2. /\ wire'[p] = wire[p] \o s /\ consumed'[p] = consumed[p] /\ pc'[p] = pc[p]
        /\ s \in Seq(Symbol)
    BY <1>3, <1>6, <1>8, <1>9
  <2>3. WriteInv(o, e) /\ StreamInv(o, p, e)
    BY <1>2 DEF EndInv
  <2>4. StreamInv(o, p, e)'
    BY <1>2, <2>1, <2>2, <2>3, StreamGrows, Zenon
  <2>5. WriteInv(o, p)'
    BY <1>2, <1>3, <2>2 DEF EndInv, WriteInv, Written
  <2>6. ConsumedInv(o, p, e)'
    BY <1>2, <1>3 DEF EndInv, ConsumedInv, Count
  <2>7. LineInv(o, p, e)'
    BY <1>2, <1>3, <2>2 DEF EndInv, LineInv, Count, Skipped
  <2>8. SuccessInv(o, p, e)'
    BY <1>2, <1>3, <2>2 DEF EndInv, SuccessInv, Count
  <2>. QED
    BY <2>4, <2>5, <2>6, <2>7, <2>8 DEF EndInv
<1>13. \A d \in End : EndInv(o, d, Peer(d))'
  <2>1. EndInv(o, e, Peer(e))' /\ EndInv(o, p, Peer(p))'
    BY <1>2, <1>11, <1>12 DEF p
  <2>. QED
    BY <1>2, <2>1, Zenon
<1>. QED
  BY <1>4, <1>10, <1>13, Zenon DEF ExchangeInv

LEMMA ExchangeKept ==
  ASSUME ExchangeInv, ProgramTypes, [DemoNext]_allVars
  PROVE  ExchangeInv'
<1>1. CASE UNCHANGED allVars
  BY <1>1, ExchangeStutter DEF allVars
<1>2. ASSUME NEW e \in End, Exchange(e) PROVE ExchangeInv'
  BY <1>2, ExchangeStep
<1>3. ASSUME NEW e \in End, NEW l, Shift(e, l) PROVE ExchangeInv'
  BY <1>3, ShiftKeeps
<1>4. ASSUME NEW e \in End, Takes(e) PROVE ExchangeInv'
  BY <1>4, TakesKeeps
<1>5. ASSUME NEW e \in End, Sends(e) PROVE ExchangeInv'
  BY <1>5, SendsKeeps
<1>. QED
  BY <1>1, <1>2, <1>3, <1>4, <1>5, Kinds, Zenon

-----------------------------------------------------------------------------
(* Where a packet is.                                                       *)

LEMMA Places ==
  ASSUME ExchangeInv, NEW e \in End, NEW p \in End, p = Peer(e)
  PROVE  /\ Whole(p) \in Nat /\ Count(e) \in Nat /\ Count(e) <= Whole(p)
         /\ Len(wire[e]) \in Nat /\ Len(todo[p]) \in Nat
         /\ pc[e] \in HasWritten => todo[e] = <<>>
         /\ pc[e] = "read" /\ wire[e] # <<>> => Count(e) + 1 <= Whole(p)
         /\ pc[e] \in Past => Count(e) = Whole(p) /\ todo[p] = <<>>
<1>1. PICK o \in Openings : OpenedBy(o) /\ EndInv(o, e, p)
  BY Zenon DEF ExchangeInv
<1>2. IdentTypes
  BY DEF ExchangeInv
<1>3. Whole(p) = Total(o, p) /\ Total(o, p) \in Nat
  BY <1>1, OpeningFacts DEF OpenedBy, Whole, Total
<1>4. Count(e) \in Nat /\ Len(wire[e]) \in Nat /\ Len(todo[p]) \in Nat /\ todo[p] \in Seq(Byte)
  BY <1>2 DEF IdentTypes, Count
<1>5. Count(e) <= Whole(p)
  BY <1>1, <1>3 DEF EndInv, ConsumedInv
<1>6. pc[e] = "read" /\ wire[e] # <<>> => Count(e) + 1 <= Whole(p)
  BY <1>1, <1>2, <1>3, NextByte
<1>7. ASSUME pc[e] \in Past PROVE Count(e) = Whole(p) /\ todo[p] = <<>>
  <2>1. Count(e) = Whole(p)
    BY <1>1, <1>3, <1>7 DEF EndInv, SuccessInv
  <2>2. todo[p] # <<>> => Count(e) + Len(wire[e]) = Whole(p) - Len(todo[p])
    BY <1>1, <1>3, <1>7 DEF EndInv, StreamInv, Written
  <2>3. todo[p] # <<>> => Len(todo[p]) > 0
    BY <1>4
  <2>. QED
    BY <1>3, <1>4, <2>1, <2>2, <2>3
<1>8. pc[e] \in HasWritten => todo[e] = <<>>
  BY <1>1 DEF EndInv, WriteInv
<1>. QED
  BY <1>3, <1>4, <1>5, <1>6, <1>7, <1>8

\* An end that waits and has a packet's worth of bytes has the peer's packet.
LEMMA WholePacket ==
  ASSUME ExchangeInv, ProgramTypes, NEW e \in End, NEW p \in End, p = Peer(e),
         ArrivalInv(e, p), pc[e] = "wait", Arrived(e)
  PROVE  /\ sent[p] = "all" /\ Len(wire[e]) = FrameLen
         /\ wire[e][1] \in Payload /\ (~trouble => wire[e][1] = Mine(p))
<1>1. /\ Count(e) = Whole(p) /\ todo[p] = <<>>
      /\ Whole(p) \in Nat /\ Len(wire[e]) \in Nat
  BY Places DEF Past
<1>2. Extra(e, p) = Len(wire[e]) /\ Place(e, p) = 1
  <2>1. Len(todo[p]) = 0
    BY <1>1
  <2>. QED
    BY <1>1, <2>1 DEF Extra, Place
<1>3. Len(wire[e]) >= FrameLen /\ FrameLen \in Nat \ {0}
  BY FrameFacts DEF Arrived
<1>4. /\ sent[p] \in {"nothing", "none"} => Len(wire[e]) = 0
      /\ sent[p] = "part" => Len(wire[e]) < FrameLen
      /\ sent[p] = "all" =>
           /\ Len(wire[e]) = FrameLen /\ wire[e][1] \in Payload
           /\ ~trouble => wire[e][1] = Mine(p)
  BY <1>2 DEF ArrivalInv, Past
<1>5. sent[p] \in {"nothing", "none", "part", "all"}
  BY DEF ProgramTypes
<1>6. sent[p] = "all"
  BY <1>1, <1>3, <1>4, <1>5
<1>. QED
  BY <1>4, <1>6

LEMMA ArrivalStays ==
  ASSUME NEW e, NEW p, ArrivalInv(e, p),
         ident' = ident, prefix' = prefix, consumed'[e] = consumed[e],
         todo'[p] = todo[p], sent'[p] = sent[p], ~trouble' => ~trouble,
         pc'[e] \in Unread \cup Reading \cup Past =>
           pc[e] \in Unread \cup Reading \cup Past /\ wire'[e] = wire[e]
  PROVE  ArrivalInv(e, p)'
<1>1. Whole(p)' = Whole(p) /\ Place(e, p)' = Place(e, p)
  BY DEF Whole, Place, Count
<1>2. pc'[e] \in Unread \cup Reading \cup Past => Extra(e, p)' = Extra(e, p)
  BY <1>1 DEF Extra, Count
<1>. QED
  BY <1>1, <1>2, Zenon DEF ArrivalInv

LEMMA TroubleStays ==
  ASSUME ProgramTypes, [DemoNext]_allVars
  PROVE  trouble' \in BOOLEAN /\ lost' \in BOOLEAN /\ connected' \in BOOLEAN
         /\ (~trouble' => ~trouble)
<1>. DEFINE Goal == trouble' \in BOOLEAN /\ lost' \in BOOLEAN /\ connected' \in BOOLEAN
                    /\ (~trouble' => ~trouble)
<1>1. trouble \in BOOLEAN /\ lost \in BOOLEAN /\ connected \in BOOLEAN
  BY DEF ProgramTypes
<1>2. ASSUME NEW e \in End, NEW q, SendCall(e, q) PROVE Goal
  <2>1. connected' = connected
    BY <1>2, Zenon DEF SendCall
  <2>2. ASSUME NEW m, SendAll(e, m) PROVE Goal
    <3>1. /\ lost' = lost /\ trouble' = (trouble \/ m = "junk")
      BY <2>2 DEF SendAll
    <3>2. trouble' \in BOOLEAN /\ (~trouble' => ~trouble)
      BY <1>1, <3>1
    <3>. QED
      BY <1>1, <2>1, <3>1, <3>2
  <2>3. ASSUME SendNothing(e) \/ SendPart(e, q) PROVE Goal
    <3>1. trouble' = TRUE /\ (lost' = lost \/ lost' = TRUE)
      BY <2>3, Zenon DEF SendNothing, SendPart
    <3>2. trouble' /\ trouble' \in BOOLEAN
      BY <3>1
    <3>3. lost' \in BOOLEAN
      <4>1. CASE lost' = lost
        BY <1>1, <4>1
      <4>2. CASE lost' = TRUE
        BY <4>2
      <4>. QED
        BY <3>1, <4>1, <4>2
    <3>4. connected' \in BOOLEAN
      BY <1>1, <2>1
    <3>. QED
      BY <3>2, <3>3, <3>4
  <2>. QED
    BY <1>2, <2>2, <2>3, Zenon DEF SendCall
<1>3. ASSUME UNCHANGED <<lost, trouble, connected>> PROVE Goal
  BY <1>1, <1>3
<1>4. ASSUME NEW e \in End, Receives(e) \/ ReceivesNothing(e) \/ Close(e) PROVE Goal
  <2>1. CASE Receives(e)
    BY <1>3, <2>1 DEF Receives
  <2>2. CASE ReceivesNothing(e)
    <3>1. (lost' = lost /\ trouble' = trouble) \/ (lost' = lost /\ trouble' = TRUE)
      BY <2>2, Zenon DEF ReceivesNothing
    <3>2. connected' = connected
      BY <2>2, Zenon DEF ReceivesNothing
    <3>. QED
      BY <1>1, <3>1, <3>2
  <2>3. CASE Close(e)
    BY <1>1, <2>3 DEF Close
  <2>. QED
    BY <1>4, <2>1, <2>2, <2>3
<1>5. ASSUME NEW e \in End, Die(e) \/ BreakDown(e) PROVE Goal
  BY <1>1, <1>5 DEF Die, BreakDown
<1>6. CASE Parse \/ Connect \/ Listen
  BY <1>1, <1>6 DEF Parse, Connect, Listen
<1>7. CASE ClientStep
  BY <1>2, <1>3, <1>4, <1>7, Zenon DEF ClientStep, ClientSends, programVars, End
<1>8. CASE ServerStep
  BY <1>2, <1>3, <1>4, <1>6, <1>8, Zenon DEF ServerStep, ServerAnswers, ServerWaits,
     programVars, End
<1>9. CASE UNCHANGED allVars
  BY <1>3, <1>9 DEF allVars, programVars
<1>. QED
  BY <1>5, <1>6, <1>7, <1>8, <1>9, Zenon DEF DemoNext, DemoEnded

\* The parts of the invariant that the programs add, for an end and its peer
ChatInv(e, p) == ArrivalInv(e, p) /\ PacketInv(e, p)

LEMMA PacketStays ==
  ASSUME NEW e, NEW p, PacketInv(e, p),
         sent'[e] = sent[e], sent'[p] = sent[p], got'[e] = got[e],
         got[e] # "nothing" => wire'[e] = wire[e],
         pc'[e] \in Unread \cup Reading \cup {"done"} =>
           pc[e] \in Unread \cup Reading \cup {"done"},
         pc'[e] \in Unread \cup Reading \cup Past => pc[e] \in Unread \cup Reading \cup Past
  PROVE  PacketInv(e, p)'
BY Zenon DEF PacketInv

LEMMA ShiftChats ==
  ASSUME DemoInv, NEW e \in End, NEW p \in End, p = Peer(e), NEW l, Shift(e, l),
         ~trouble' => ~trouble
  PROVE  ChatInv(e, p)' /\ ChatInv(p, e)' /\ ServerInv'
<1>1. /\ p # e /\ Peer(p) = e /\ pc \in [End -> Phase] /\ "server" \in End
      /\ ArrivalInv(e, p) /\ ArrivalInv(p, e) /\ PacketInv(e, p) /\ PacketInv(p, e)
      /\ ServerInv
  BY Peers DEF DemoInv, ExchangeInv, IdentTypes, End
<1>2. /\ pc' = [pc EXCEPT ![e] = l]
      /\ UNCHANGED <<ident, prefix, todo, wire, line, attempt, known, consumed, sent, got>>
  BY DEF Shift, OnlyGoto
<1>3. pc'[e] = l /\ pc'[p] = pc[p]
  BY <1>1, <1>2
<1>4. /\ l \in Unread \cup Reading \cup {"done"} =>
           pc[e] \in Unread \cup Reading \cup {"done"}
      /\ l \in Unread \cup Reading \cup Past => pc[e] \in Unread \cup Reading \cup Past
      /\ l \in {"wait", "answer"} => e = "server" /\ pc[e] = "done" /\ l = "wait"
  BY DEF Shift, Unread, Reading, Past
<1>5. ArrivalInv(e, p)'
  BY <1>1, <1>2, <1>3, <1>4, ArrivalStays
<1>6. ArrivalInv(p, e)'
  BY <1>1, <1>2, <1>3, ArrivalStays
<1>7. PacketInv(e, p)'
  BY <1>1, <1>2, <1>3, <1>4, PacketStays
<1>8. PacketInv(p, e)'
  BY <1>1, <1>2, <1>3, PacketStays
<1>9. ServerInv'
  <2>1. CASE e = "server"
    <3>1. pc[e] = "done" => sent[e] = "nothing"
      BY <1>1 DEF PacketInv
    <3>. QED
      BY <1>1, <1>2, <1>3, <1>4, <2>1, <3>1 DEF ServerInv
  <2>2. CASE e # "server"
    <3>1. pc'["server"] = pc["server"]
      BY <1>1, <1>2, <2>2
    <3>. QED
      BY <1>1, <1>2, <3>1 DEF ServerInv
  <2>. QED
    BY <2>1, <2>2
<1>. QED
  BY <1>5, <1>6, <1>7, <1>8, <1>9 DEF ChatInv

LEMMA TakesChats ==
  ASSUME DemoInv, NEW e \in End, NEW p \in End, p = Peer(e), Takes(e),
         ~trouble' => ~trouble
  PROVE  /\ ChatInv(e, p)' /\ ChatInv(p, e)' /\ ServerInv'
         /\ got' \in [End -> Payload \cup {"nothing"}]
<1>1. /\ p # e /\ Peer(p) = e /\ pc \in [End -> Phase] /\ "server" \in End
      /\ wire \in [End -> Seq(Symbol)] /\ got \in [End -> Payload \cup {"nothing"}]
      /\ ArrivalInv(e, p) /\ ArrivalInv(p, e) /\ PacketInv(e, p) /\ PacketInv(p, e)
      /\ ServerInv /\ ExchangeInv /\ ProgramTypes
  BY Peers DEF DemoInv, ExchangeInv, IdentTypes, ProgramTypes, End
<1>2. /\ pc[e] = "wait" /\ Arrived(e)
      /\ UNCHANGED <<ident, prefix, todo, line, attempt, known, consumed, sent>>
      /\ wire' = [wire EXCEPT ![e] = SubSeq(wire[e], FrameLen + 1, Len(wire[e]))]
      /\ \/ pc' = [pc EXCEPT ![e] = "close"] /\ got' = got
         \/ /\ pc' = [pc EXCEPT ![e] = IF e = "server" THEN "answer" ELSE "close"]
            /\ got' = [got EXCEPT ![e] = wire[e][1]]
  BY DEF Takes, TakeFrame, Goto
<1>3. sent[p] = "all" /\ Len(wire[e]) = FrameLen /\ wire[e][1] \in Payload
  BY <1>1, <1>2, WholePacket
<1>4. /\ wire'[e] = <<>> /\ wire'[p] = wire[p] /\ pc'[p] = pc[p] /\ got'[p] = got[p]
      /\ \/ pc'[e] = "close" /\ got' = got
         \/ /\ pc'[e] = "close" \/ (pc'[e] = "answer" /\ e = "server")
            /\ got'[e] = wire[e][1]
  <2>1. SubSeq(wire[e], FrameLen + 1, Len(wire[e])) = <<>>
    BY <1>3, FrameFacts
  <2>2. wire'[e] = <<>> /\ wire'[p] = wire[p]
    BY <1>1, <1>2, <2>1
  <2>. QED
    BY <1>1, <1>2, <2>2
<1>5. got' \in [End -> Payload \cup {"nothing"}]
  BY <1>1, <1>2, <1>3
<1>6. ArrivalInv(e, p)'
  BY <1>1, <1>2, <1>4, ArrivalStays DEF Unread, Reading, Past
<1>7. ArrivalInv(p, e)'
  BY <1>1, <1>2, <1>4, ArrivalStays
<1>8. PacketInv(e, p)'
  BY <1>1, <1>2, <1>3, <1>4 DEF PacketInv, Unread, Reading, Past
<1>9. PacketInv(p, e)'
  BY <1>1, <1>2, <1>4, PacketStays
<1>10. ServerInv'
  <2>1. "nothing" \notin Payload
    BY DEF Payload
  <2>2. CASE e = "server"
    BY <1>1, <1>2, <1>3, <1>4, <2>1, <2>2 DEF ServerInv
  <2>3. CASE e # "server"
    <3>1. pc'["server"] = pc["server"] /\ got'["server"] = got["server"]
      BY <1>1, <1>2, <2>3
    <3>. QED
      BY <1>1, <1>2, <3>1 DEF ServerInv
  <2>. QED
    BY <2>2, <2>3
<1>. QED
  BY <1>5, <1>6, <1>7, <1>8, <1>9, <1>10 DEF ChatInv

LEMMA SendsChats ==
  ASSUME DemoInv, NEW e \in End, NEW p \in End, p = Peer(e), Sends(e),
         ~trouble' => ~trouble
  PROVE  /\ ChatInv(e, p)' /\ ChatInv(p, e)' /\ ServerInv'
         /\ sent' \in [End -> {"nothing", "all", "none", "part"}]
<1>1. /\ p # e /\ Peer(p) = e /\ pc \in [End -> Phase] /\ "server" \in End
      /\ wire \in [End -> Seq(Symbol)] /\ IdentTypes
      /\ sent \in [End -> {"nothing", "all", "none", "part"}]
      /\ ArrivalInv(e, p) /\ ArrivalInv(p, e) /\ PacketInv(e, p) /\ PacketInv(p, e)
      /\ ServerInv /\ ExchangeInv /\ ProgramTypes
  BY Peers DEF DemoInv, ExchangeInv, IdentTypes, ProgramTypes, End
<1>2. UNCHANGED <<ident, prefix, todo, line, attempt, known, consumed, got>>
  BY Zenon DEF Sends, SendCall
<1>3. PICK s, r : SentAs(e, s, r)
  BY <1>1, SendEffect DEF Sends
<1>4. /\ s \in Seq(Symbol) /\ r \in {"all", "none", "part"}
      /\ wire' = [wire EXCEPT ![p] = wire[p] \o s] /\ sent' = [sent EXCEPT ![e] = r]
      /\ r = "all" => Len(s) = FrameLen /\ s[1] \in Payload
      /\ r = "none" => Len(s) = 0
      /\ r = "part" => Len(s) < FrameLen
      /\ ~trouble' => s[1] = Mine(e)
  BY <1>3 DEF SentAs
<1>5. /\ wire'[p] = wire[p] \o s /\ wire'[e] = wire[e]
      /\ sent'[e] = r /\ sent'[p] = sent[p]
      /\ sent' \in [End -> {"nothing", "all", "none", "part"}]
  BY <1>1, <1>4
<1>6. \/ e = "client" /\ pc[e] = "done" /\ pc'[e] = "wait" /\ pc'[p] = pc[p]
      \/ e = "server" /\ pc[e] = "answer" /\ pc'[e] = "close" /\ pc'[p] = pc[p]
  BY <1>1 DEF Sends, Goto
<1>7. sent[e] = "nothing"
  BY <1>1, <1>6 DEF PacketInv, ServerInv
<1>8. got[p] = "nothing"
  BY <1>1, <1>7 DEF PacketInv
<1>9. todo[e] = <<>> /\ Len(todo[e]) = 0
  <2>1. todo[e] = <<>>
    BY <1>1, <1>6, Places DEF HasWritten
  <2>. QED
    BY <2>1
<1>10. ArrivalInv(e, p)'
  BY <1>1, <1>2, <1>5, <1>6, ArrivalStays DEF Unread, Reading, Past
<1>11. ArrivalInv(p, e)'
  <2>. SUFFICES ASSUME pc[p] \in Unread \cup Reading \cup Past
                PROVE  /\ r = "none" => Extra(p, e)' = 0
                       /\ r = "part" => Extra(p, e)' < FrameLen
                       /\ r = "all" =>
                            /\ Extra(p, e)' = FrameLen
                            /\ wire'[p][Place(p, e)'] \in Payload
                            /\ ~trouble' => wire'[p][Place(p, e)'] = Mine(e)
    BY <1>2, <1>4, <1>5, <1>6, <1>9 DEF ArrivalInv
  <2>1. /\ Whole(e) \in Nat /\ Count(p) \in Nat /\ Len(wire[p]) \in Nat
        /\ Extra(p, e) = 0
    BY <1>1, <1>7, Places DEF ArrivalInv
  <2>2. /\ Whole(e)' = Whole(e) /\ Count(p)' = Count(p) /\ todo'[e] = todo[e]
        /\ Place(p, e)' = Place(p, e)
    BY <1>2 DEF Whole, Count, Place
  <2>3. /\ Len(wire'[p]) = Len(wire[p]) + Len(s) /\ Len(s) \in Nat
        /\ Len(s) >= 1 => wire'[p][Len(wire[p]) + 1] = s[1]
    BY <1>1, <1>4, <1>5
  <2>4. Extra(p, e)' = Len(s)
    <3>1. /\ Extra(p, e) = Count(p) + Len(wire[p]) - (Whole(e) - 0)
          /\ Extra(p, e)' = Count(p) + (Len(wire[p]) + Len(s)) - (Whole(e) - 0)
      BY <1>9, <2>2, <2>3 DEF Extra
    <3>3. Whole(e) \in Int /\ Count(p) \in Int /\ Len(wire[p]) \in Int /\ Len(s) \in Int
      BY <2>1, <2>3
    <3>4. Count(p) + Len(wire[p]) - (Whole(e) - 0) = 0
      BY <2>1, <3>1, Zenon
    <3>5. Count(p) + (Len(wire[p]) + Len(s)) - (Whole(e) - 0) = Len(s)
      <4>. DEFINE c == Count(p)
                  w == Len(wire[p])
                  l == Len(s)
                  t == Whole(e)
      <4>1. c \in Int /\ w \in Int /\ l \in Int /\ t \in Int /\ c + w - (t - 0) = 0
        BY <3>3, <3>4
      <4>. HIDE DEF c, w, l, t
      <4>2. c + (w + l) - (t - 0) = l
        BY <4>1
      <4>. QED
        BY <4>2 DEF c, w, l, t
    <3>. QED
      BY <3>1, <3>5
  <2>5. Place(p, e) = Len(wire[p]) + 1
    <3>1. Extra(p, e) = Count(p) + Len(wire[p]) - (Whole(e) - 0)
      BY <1>9 DEF Extra
    <3>2. \A c, w, t \in Int : c + w - (t - 0) = 0 => t - c + 1 = w + 1
      OBVIOUS
    <3>3. Whole(e) \in Int /\ Count(p) \in Int /\ Len(wire[p]) \in Int
      BY <2>1
    <3>4. Count(p) + Len(wire[p]) - (Whole(e) - 0) = 0
      BY <2>1, <3>1, Zenon
    <3>5. Whole(e) - Count(p) + 1 = Len(wire[p]) + 1
      <4>. DEFINE c == Count(p)
                  w == Len(wire[p])
                  t == Whole(e)
      <4>1. c \in Int /\ w \in Int /\ t \in Int /\ c + w - (t - 0) = 0
        BY <3>3, <3>4, Zenon
      <4>. HIDE DEF c, w, t
      <4>2. t - c + 1 = w + 1
        BY <4>1, <3>2, Zenon
      <4>. QED
        BY <4>2 DEF c, w, t
    <3>. QED
      BY <3>5, Zenon DEF Place
  <2>6. FrameLen >= 1
    BY FrameFacts
  <2>. QED
    BY <1>4, <2>2, <2>3, <2>4, <2>5, <2>6
<1>12. PacketInv(e, p)'
  BY <1>1, <1>2, <1>5, <1>6 DEF PacketInv, Unread, Reading, Past
<1>13. PacketInv(p, e)'
  <2>1. /\ pc[p] \in Unread \cup Reading \cup {"done"} => sent[p] = "nothing"
    BY <1>1 DEF PacketInv
  <2>. QED
    BY <1>2, <1>5, <1>6, <1>8, <2>1 DEF PacketInv
<1>14. ServerInv'
  <2>1. e = "server" => got[e] # "nothing"
    BY <1>1, <1>6 DEF ServerInv
  <2>2. "server" = e \/ "server" = p
    BY <1>1, Peers
  <2>. QED
    BY <1>1, <1>2, <1>5, <1>6, <2>1, <2>2 DEF ServerInv
<1>. QED
  BY <1>5, <1>10, <1>11, <1>12, <1>13, <1>14 DEF ChatInv

LEMMA ExchangeChats ==
  ASSUME DemoInv, NEW e \in End, NEW p \in End, p = Peer(e), Exchange(e),
         UNCHANGED programVars
  PROVE  ChatInv(e, p)' /\ ChatInv(p, e)' /\ ServerInv'
<1>1. /\ p # e /\ Peer(p) = e /\ pc \in [End -> Phase] /\ "server" \in End
      /\ wire \in [End -> Seq(Symbol)] /\ todo \in [End -> Seq(Byte)]
      /\ consumed \in [End -> Seq(Byte)] /\ IdentTypes
      /\ ArrivalInv(e, p) /\ ArrivalInv(p, e) /\ PacketInv(e, p) /\ PacketInv(p, e)
      /\ ServerInv /\ ExchangeInv /\ ProgramTypes
  BY Peers DEF DemoInv, ExchangeInv, IdentTypes, ProgramTypes, End
<1>2. /\ pc[e] \in {"write", "read", "line"} /\ pc'[p] = pc[p]
      /\ pc'[e] \in {"write", "read", "line", "done", "failed"}
      /\ pc["server"] \in {"write", "read", "line"} \/ pc'["server"] = pc["server"]
      /\ pc'["server"] = pc["server"]
           \/ pc'["server"] \in {"write", "read", "line", "done", "failed"}
  BY <1>1, ExchangePhases
<1>3. sent' = sent /\ got' = got /\ trouble' = trouble
  BY DEF programVars
<1>4. sent[e] = "nothing" /\ got[e] = "nothing" /\ pc[e] \in Unread \cup Reading
  BY <1>1, <1>2 DEF PacketInv, Unread, Reading
<1>5. ServerInv'
  BY <1>1, <1>2, <1>3 DEF ServerInv
<1>6. PacketInv(e, p)'
  BY <1>1, <1>2, <1>3, <1>4 DEF PacketInv, Unread, Reading, Past
<1>7. CASE Write(e)
  <2>. DEFINE t == todo[e]
  <2>1. PICK n \in 1 .. Len(t) :
          /\ todo' = [todo EXCEPT ![e] = SubSeq(t, n + 1, Len(t))]
          /\ wire' = [wire EXCEPT ![p] = wire[p] \o SubSeq(t, 1, n)]
          /\ UNCHANGED <<ident, prefix, line, attempt, consumed>>
    BY <1>7, Zenon DEF Write
  <2>2. /\ todo'[e] = SubSeq(t, n + 1, Len(t)) /\ todo'[p] = todo[p]
        /\ wire'[p] = wire[p] \o SubSeq(t, 1, n) /\ wire'[e] = wire[e]
    BY <1>1, <2>1, Zenon
  <2>3. t \in Seq(Byte) /\ wire[p] \in Seq(Symbol) /\ Len(t) \in Nat /\ Len(wire[p]) \in Nat
    BY <1>1
  <2>. HIDE DEF t
  <2>4. Len(todo'[e]) = Len(t) - n /\ Len(wire'[p]) = Len(wire[p]) + n
    <3>1. /\ SubSeq(t, 1, n) \in Seq(Byte) /\ Len(SubSeq(t, 1, n)) = n
          /\ Len(SubSeq(t, n + 1, Len(t))) = Len(t) - n
      BY <2>3
    <3>2. SubSeq(t, 1, n) \in Seq(Symbol)
      BY <3>1 DEF Symbol
    <3>. QED
      BY <2>2, <2>3, <3>1, <3>2
  <2>5. ArrivalInv(e, p)'
    BY <1>1, <1>3, <1>4, <2>1, <2>2, ArrivalStays DEF Unread, Reading, Past
  <2>6. ArrivalInv(p, e)'
    <3>. SUFFICES ASSUME pc[p] \in Unread \cup Reading \cup Past
                  PROVE  Extra(p, e)' = 0
      BY <1>2, <1>3, <1>4, <2>1 DEF ArrivalInv
    <3>1. Extra(p, e) = 0
      BY <1>1, <1>4 DEF ArrivalInv
    <3>2. Extra(p, e) = Count(p) + Len(wire[p]) - (Whole(e) - Len(t))
      BY DEF Extra, t
    <3>3. Extra(p, e)' = Count(p) + (Len(wire[p]) + n) - (Whole(e) - (Len(t) - n))
      BY <2>1, <2>4 DEF Extra, Count, Whole
    <3>4. Count(p) \in Int /\ Whole(e) \in Int
      BY <1>1, Places
    <3>. DEFINE c == Count(p)
                w == Len(wire[p])
                k == Len(t)
                v == Whole(e)
    <3>5. /\ c \in Int /\ w \in Int /\ k \in Int /\ v \in Int /\ n \in Int
          /\ c + w - (v - k) = 0
      BY <2>3, <3>1, <3>2, <3>4
    <3>. HIDE DEF c, w, k, v
    <3>6. c + (w + n) - (v - (k - n)) = 0
      BY <3>5
    <3>. QED
      BY <3>3, <3>6 DEF c, w, k, v
  <2>7. PacketInv(p, e)'
    <3>1. got[p] # "nothing" => sent[e] = "all"
      BY <1>1 DEF PacketInv
    <3>. QED
      BY <1>1, <1>2, <1>3, <1>4, <3>1, PacketStays
  <2>. QED
    BY <1>5, <1>6, <2>5, <2>6, <2>7 DEF ChatInv
<1>8. CASE ReadByte(e)
  <2>1. PICK o \in Openings : EndInv(o, e, p)
    BY <1>1, Zenon DEF ExchangeInv
  <2>2. /\ pc[e] = "read" /\ wire[e] # <<>>
        /\ consumed' = [consumed EXCEPT ![e] = consumed[e] \o <<wire[e][1]>>]
        /\ wire' = [wire EXCEPT ![e] = Tail(wire[e])] /\ wire[e][1] \in Byte
        /\ UNCHANGED <<ident, prefix, todo>>
    BY <1>1, <1>8, <2>1, ReadEffect, Zenon
  <2>3. /\ consumed'[e] = consumed[e] \o <<wire[e][1]>> /\ consumed'[p] = consumed[p]
        /\ wire'[e] = Tail(wire[e]) /\ wire'[p] = wire[p]
    BY <1>1, <2>2, Zenon
  <2>. DEFINE w == wire[e]
              l == Len(w)
              c == Count(e)
              v == Whole(p)
              k == Len(todo[p])
  <2>4. /\ c \in Nat /\ v \in Nat /\ l \in Nat /\ k \in Nat /\ c + 1 <= v
    BY <1>1, <2>2, Places
  <2>5. consumed[e] \in Seq(Byte) /\ w \in Seq(Symbol) /\ w # <<>>
    BY <1>1, <2>2
  <2>6. Count(e)' = c + 1 /\ Len(wire'[e]) = l - 1
        /\ \A j \in 1 .. l - 1 : wire'[e][j] = w[j + 1]
    <3>1. Len(consumed[e] \o <<wire[e][1]>>) = Len(consumed[e]) + 1
      BY <2>2, <2>5
    <3>2. Len(Tail(w)) = Len(w) - 1 /\ \A j \in 1 .. Len(w) - 1 : Tail(w)[j] = w[j + 1]
      BY <2>5
    <3>. QED
      BY <2>3, <3>1, <3>2 DEF Count
  <2>7. Whole(p)' = v /\ todo'[p] = todo[p]
    BY <2>2 DEF Whole
  <2>8. Extra(e, p) = c + l - (v - k) /\ Extra(e, p)' = (c + 1) + (l - 1) - (v - k)
    BY <2>6, <2>7 DEF Extra
  <2>9. Place(e, p) = v - c + 1 /\ Place(e, p)' = v - (c + 1) + 1
    BY <2>6, <2>7 DEF Place
  <2>. HIDE DEF w, l, c, v, k
  <2>10. Extra(e, p)' = Extra(e, p)
    BY <2>4, <2>8
  <2>11. ArrivalInv(e, p)'
    <3>1. /\ sent[p] # "nothing" => todo[p] = <<>>
          /\ sent[p] \in {"nothing", "none"} => Extra(e, p) = 0
          /\ sent[p] = "part" => Extra(e, p) < FrameLen
          /\ sent[p] = "all" =>
               /\ Extra(e, p) = FrameLen
               /\ w[v - c + 1] \in Payload
               /\ ~trouble => w[v - c + 1] = Mine(p)
      BY <1>1, <1>4, <2>9 DEF ArrivalInv, w
    <3>2. ASSUME sent[p] = "all" PROVE wire'[e][Place(e, p)'] = w[v - c + 1]
      <4>1. k = 0
        BY <3>1, <3>2 DEF k
      <4>2. c + l - (v - 0) = FrameLen /\ FrameLen \in Nat \ {0}
        BY <2>8, <3>1, <3>2, <4>1, FrameFacts
      <4>3. v - (c + 1) + 1 \in 1 .. l - 1 /\ v - (c + 1) + 1 + 1 = v - c + 1
        BY <2>4, <4>2
      <4>. QED
        BY <2>6, <2>9, <4>3
    <3>. QED
      BY <1>3, <2>7, <2>10, <3>1, <3>2 DEF ArrivalInv
  <2>12. ArrivalInv(p, e)'
    BY <1>1, <1>2, <1>3, <2>2, <2>3, ArrivalStays
  <2>13. PacketInv(p, e)'
    BY <1>1, <1>2, <1>3, <2>3, PacketStays
  <2>. QED
    BY <1>5, <1>6, <2>11, <2>12, <2>13 DEF ChatInv
<1>9. CASE JudgeLine(e) \/ PeerGone(e)
  <2>1. UNCHANGED <<ident, prefix, todo, wire, consumed>>
    BY <1>9, JudgeEffect, Zenon DEF PeerGone, OnlyGoto
  <2>2. ArrivalInv(e, p)'
    BY <1>1, <1>3, <1>4, <2>1, ArrivalStays
  <2>3. ArrivalInv(p, e)'
    BY <1>1, <1>2, <1>3, <2>1, ArrivalStays
  <2>4. PacketInv(p, e)'
    BY <1>1, <1>2, <1>3, <2>1, PacketStays
  <2>. QED
    BY <1>5, <1>6, <2>2, <2>3, <2>4 DEF ChatInv
<1>. QED
  BY <1>7, <1>8, <1>9 DEF Exchange

-----------------------------------------------------------------------------
(* The invariant is inductive.                                              *)

LEMMA PortInRange == \A t : ParseTarget(t).port \in 0 .. MaxPort
<1>. SUFFICES ASSUME NEW t PROVE ParseTarget(t).port \in 0 .. MaxPort
  OBVIOUS
<1>1. 0 \in 0 .. MaxPort /\ \A n : PortOk(n) => n \in 0 .. MaxPort
  BY DemoAssumption DEF PortOk
<1>2. \/ ParseTarget(t) = Refused
      \/ \E u, h, n : PortOk(n) /\ ParseTarget(t) = [user |-> u, host |-> h, port |-> n]
  BY Zenon DEF ParseTarget
<1>3. CASE ParseTarget(t) = Refused
  BY <1>1, <1>3 DEF Refused
<1>4. ASSUME NEW u, NEW h, NEW n, PortOk(n),
             ParseTarget(t) = [user |-> u, host |-> h, port |-> n]
      PROVE  ParseTarget(t).port \in 0 .. MaxPort
  BY <1>1, <1>4
<1>. QED
  BY <1>2, <1>3, <1>4, Zenon

LEMMA ParametersTyped ==
  ASSUME ProgramTypes, [DemoNext]_allVars
  PROVE  target' \in Targets \cup {<<>>} /\ address'.port \in 0 .. MaxPort
<1>1. target \in Targets \cup {<<>>} /\ address.port \in 0 .. MaxPort
  BY DEF ProgramTypes
<1>2. Refused.port \in 0 .. MaxPort
  BY DemoAssumption DEF Refused
<1>3. CASE Parse
  BY <1>1, <1>3, PortInRange DEF Parse
<1>4. CASE Connect
  BY <1>2, <1>4 DEF Connect
<1>5. CASE target' = target /\ address' = address
  BY <1>1, <1>5
<1>6. ASSUME NEW e \in End,
             Receives(e) \/ ReceivesNothing(e) \/ Close(e) \/ Die(e) \/ BreakDown(e)
      PROVE  target' = target /\ address' = address
  BY <1>6, Zenon DEF Receives, ReceivesNothing, Close, Die, BreakDown
<1>7. CASE ClientStep
  <2>1. target' = target /\ address' = address
    BY <1>6, <1>7, Zenon DEF ClientStep, ClientSends, SendCall, programVars, End
  <2>. QED
    BY <1>5, <2>1
<1>8. CASE ServerStep
  <2>1. target' = target /\ address' = address
    BY <1>6, <1>8, Zenon DEF ServerStep, ServerAnswers, ServerWaits, SendCall, Listen,
       programVars, End
  <2>. QED
    BY <1>5, <2>1
<1>9. CASE UNCHANGED allVars
  BY <1>5, <1>9 DEF allVars, programVars
<1>. QED
  BY <1>3, <1>4, <1>5, <1>6, <1>7, <1>8, <1>9, Zenon DEF DemoNext, DemoEnded

LEMMA DemoStep ==
  ASSUME DemoInv, [DemoNext]_allVars
  PROVE  DemoInv'
<1>1. ExchangeInv /\ ProgramTypes
  BY DEF DemoInv
<1>2. ExchangeInv'
  BY <1>1, ExchangeKept
<1>3. /\ trouble' \in BOOLEAN /\ lost' \in BOOLEAN /\ connected' \in BOOLEAN
      /\ ~trouble' => ~trouble
      /\ target' \in Targets \cup {<<>>} /\ address'.port \in 0 .. MaxPort
  BY <1>1, TroubleStays, ParametersTyped
<1>. DEFINE SentType == sent \in [End -> {"nothing", "all", "none", "part"}]
            GotType == got \in [End -> Payload \cup {"nothing"}]
            Chats(e) == ChatInv(e, Peer(e))
<1>4. SentType /\ GotType /\ \A e \in End : Chats(e)
  BY DEF DemoInv, ProgramTypes, ChatInv
<1>5. CASE UNCHANGED allVars
  <2>1. ServerInv' /\ ProgramTypes'
    BY <1>5 DEF allVars, vars, programVars, DemoInv, ServerInv, ProgramTypes
  <2>2. ASSUME NEW e \in End PROVE ArrivalInv(e, Peer(e))' /\ PacketInv(e, Peer(e))'
    <3>1. ArrivalInv(e, Peer(e)) /\ PacketInv(e, Peer(e))
      BY DEF DemoInv
    <3>2. UNCHANGED <<ident, prefix, consumed, todo, wire, pc, sent, got, trouble>>
      BY <1>5 DEF allVars, vars, programVars
    <3>. QED
      BY <3>1, <3>2, ArrivalStays, PacketStays
  <2>. QED
    BY <1>2, <2>1, <2>2, Zenon DEF DemoInv
<1>6. ASSUME NEW e \in End,
             \/ Exchange(e) /\ UNCHANGED programVars
             \/ \E l : Shift(e, l)
             \/ Takes(e) \/ Sends(e)
      PROVE  SentType' /\ GotType' /\ ServerInv' /\ \A d \in End : Chats(d)'
  <2>. DEFINE p == Peer(e)
  <2>1. p \in End /\ Peer(p) = e /\ \A d \in End : d = e \/ d = p
    BY Peers
  <2>. HIDE DEF p
  <2>2. SentType' /\ GotType' /\ ServerInv' /\ ChatInv(e, p)' /\ ChatInv(p, e)'
    <3>1. CASE Exchange(e) /\ UNCHANGED programVars
      BY <1>4, <2>1, <3>1, ExchangeChats DEF p, programVars
    <3>2. ASSUME NEW l, Shift(e, l)
          PROVE  SentType' /\ GotType' /\ ServerInv' /\ ChatInv(e, p)' /\ ChatInv(p, e)'
      <4>1. SentType' /\ GotType'
        BY <1>4, <3>2 DEF Shift
      <4>. QED
        BY <1>3, <2>1, <3>2, <4>1, ShiftChats DEF p
    <3>3. CASE Takes(e)
      <4>1. SentType'
        BY <1>4, <3>3 DEF Takes
      <4>. QED
        BY <1>3, <2>1, <3>3, <4>1, TakesChats DEF p
    <3>4. CASE Sends(e)
      <4>1. GotType'
        BY <1>4, <3>4 DEF Sends, SendCall
      <4>. QED
        BY <1>3, <2>1, <3>4, <4>1, SendsChats DEF p
    <3>. QED
      BY <1>6, <3>1, <3>2, <3>3, <3>4
  <2>3. Chats(e)' /\ Chats(p)'
    BY <2>1, <2>2 DEF p
  <2>. QED
    BY <2>1, <2>2, <2>3, Zenon
<1>7. ASSUME DemoNext, ~UNCHANGED allVars
      PROVE  SentType' /\ GotType' /\ ServerInv' /\ \A d \in End : Chats(d)'
  <2>1. PICK e \in End : \/ Exchange(e) /\ UNCHANGED programVars
                         \/ \E l : Shift(e, l)
                         \/ Takes(e) \/ Sends(e)
    BY <1>7, Kinds, Zenon
  <2>. QED
    BY <1>6, <2>1
<1>8. CASE DemoNext /\ ~UNCHANGED allVars
  BY <1>2, <1>3, <1>7, <1>8, Zenon DEF DemoInv, ProgramTypes, ChatInv
<1>. QED
  BY <1>5, <1>8

LEMMA DemoStart == DemoInit => DemoInv
<1>. SUFFICES ASSUME DemoInit PROVE DemoInv
  OBVIOUS
<1>1. /\ Opened /\ pc = [client |-> "start", server |-> "start"]
      /\ target \in Targets /\ address = Refused
      /\ connected = FALSE /\ lost = FALSE /\ trouble = FALSE
      /\ sent = [e \in End |-> "nothing"]
      /\ got = [e \in End |-> "nothing"]
  BY DEF DemoInit
<1>2. pc \in [End -> Unread] /\ \A e \in End : pc[e] = "start"
  BY <1>1 DEF End, Unread
<1>3. ExchangeInv
  BY <1>1, <1>2, OpenedInv
<1>4. ProgramTypes
  <2>1. address.port \in 0 .. MaxPort
    BY <1>1, DemoAssumption DEF Refused
  <2>2. /\ sent \in [End -> {"nothing", "all", "none", "part"}]
        /\ got \in [End -> Payload \cup {"nothing"}]
    BY <1>1
  <2>. QED
    BY <1>1, <2>1, <2>2 DEF ProgramTypes
<1>5. ServerInv
  BY <1>1, <1>2 DEF ServerInv, End
<1>6. ASSUME NEW e \in End PROVE ArrivalInv(e, Peer(e)) /\ PacketInv(e, Peer(e))
  <2>. DEFINE p == Peer(e)
  <2>1. p \in End
    BY Peers
  <2>2. /\ consumed[e] = <<>> /\ wire[e] = prefix[p] /\ todo[p] = ident[p]
        /\ sent[p] = "nothing" /\ got[e] = "nothing" /\ sent[e] = "nothing"
    BY <1>1, <2>1 DEF Opened
  <2>. HIDE DEF p
  <2>3. Len(prefix[p]) \in Nat /\ Len(ident[p]) \in Nat
    <3>1. prefix \in [End -> Seq(Byte)] /\ ident \in [End -> Seq(Byte)]
      BY <1>3, InvTypes, Zenon DEF IdentTypeOK
    <3>2. prefix[p] \in Seq(Byte) /\ ident[p] \in Seq(Byte)
      BY <2>1, <3>1, Zenon
    <3>. QED
      BY <3>2
  <2>4. Extra(e, p) = 0
    BY <2>2, <2>3 DEF Extra, Whole, Count
  <2>5. ArrivalInv(e, p)
    BY <2>2, <2>4 DEF ArrivalInv
  <2>6. PacketInv(e, p)
    BY <2>2 DEF PacketInv
  <2>. QED
    BY <2>5, <2>6 DEF p
<1>. QED
  BY <1>3, <1>4, <1>5, <1>6 DEF DemoInv

LEMMA DemoInvariant == DemoSpec => []DemoInv
<1>1. DemoInv /\ [DemoNext]_allVars => DemoInv'
  BY DemoStep
<1>. QED
  BY <1>1, DemoStart, PTL DEF DemoSpec

-----------------------------------------------------------------------------
(* As long as nothing outside the two programs fails.                       *)

\* A step in which nothing fails keeps the programs going: the exchange,
LEMMA QuietExchange ==
  ASSUME DemoInv, ~lost, \A d \in End : Tolerable(d) /\ QuietInv(d),
         NEW e \in End, Exchange(e)
  PROVE  pc'[e] # "failed"
<1>. DEFINE p == Peer(e)
<1>1. /\ p \in End /\ p # e /\ Peer(p) = e /\ pc \in [End -> Phase] /\ ExchangeInv
      /\ PacketInv(e, p) /\ PacketInv(p, e)
  BY Peers DEF DemoInv, ExchangeInv, IdentTypes
<1>2. CASE Write(e)
  <2>1. RfcIdent(ident[e]) /\ Len(ident[e]) <= IdentMax /\ ident[e] \in Seq(Byte)
    BY <1>1, InvTypes DEF Tolerable, IdentTypeOK
  <2>2. IdentCheck(ident[e])
    BY <2>1, RfcChecked
  <2>3. Len(IdentStrip(ident[e])) \in 2 .. IdentMax - 2
    BY <2>2, Zenon DEF IdentCheck
  <2>4. ~(Len(IdentStrip(ident[e])) > IdentMax - 2)
    BY <2>3, IdentAssumption
  <2>5. pc' = pc \/ Goto(e, "read")
    BY <1>2, <2>4, Zenon DEF Write
  <2>. QED
    BY <1>1, <1>2, <2>5 DEF Goto, Write
<1>3. CASE ReadByte(e)
  <2>1. pc[e] = "read" /\ (pc' = pc \/ Goto(e, "line"))
    BY <1>3, Zenon DEF ReadByte, Receive
  <2>. QED
    BY <1>1, <2>1 DEF Goto
<1>4. CASE JudgeLine(e)
  BY <1>1, <1>4, RfcJudged
<1>5. CASE PeerGone(e)
  <2>1. Closed(p) /\ pc[e] \in {"write", "read"}
    BY <1>5 DEF PeerGone
  <2>2. pc[p] = "returned"
    BY <1>1, <2>1 DEF Closed, QuietInv
  <2>3. got[p] # "nothing"
    BY <1>1, <2>2 DEF QuietInv
  <2>4. sent[e] = "all" /\ sent[e] = "nothing"
    BY <1>1, <2>1, <2>3 DEF PacketInv, Unread, Reading
  <2>. QED
    BY <2>4
<1>. QED
  BY <1>2, <1>3, <1>4, <1>5 DEF Exchange

\* session_recv, which waits for a packet that arrives,
LEMMA QuietReceive ==
  ASSUME DemoInv, ~lost, ~trouble', ~trouble, \A d \in End : QuietInv(d),
         NEW e \in End
  PROVE  ~ReceivesNothing(e)
<1>. DEFINE p == Peer(e)
<1>. SUFFICES ASSUME ReceivesNothing(e) PROVE FALSE
  OBVIOUS
<1>1. pc[e] = "wait" /\ ~Arrived(e) /\ StreamEnded(e) /\ p \in End /\ ArrivalInv(e, p)
      /\ ExchangeInv
  BY Peers DEF ReceivesNothing, DemoInv
<1>2. pc[p] = "returned"
  BY <1>1 DEF StreamEnded, Closed, QuietInv
<1>3. sent[p] = "all"
  BY <1>1, <1>2 DEF QuietInv
<1>4. Extra(e, p) = FrameLen
  BY <1>1, <1>3 DEF ArrivalInv, Past
<1>5. Count(e) = Whole(p) /\ todo[p] = <<>> /\ Whole(p) \in Nat /\ Len(wire[e]) \in Nat
  BY <1>1, Places DEF Past
<1>6. Extra(e, p) = Len(wire[e])
  <2>1. Len(todo[p]) = 0
    BY <1>5
  <2>. QED
    BY <1>5, <2>1 DEF Extra
<1>7. FrameLen \in Nat
  BY FrameFacts
<1>. QED
  BY <1>1, <1>4, <1>6, <1>7 DEF Arrived

\* and the programs as a whole: they neither fail nor lose what they send.
LEMMA QuietStep ==
  ASSUME DemoInv, QuietDemo, [DemoNext]_allVars
  PROVE  QuietDemo'
<1>1. ProgramTypes /\ ExchangeInv /\ IdentTypes /\ pc \in [End -> Phase]
      /\ got \in [End -> Payload \cup {"nothing"}]
      /\ sent \in [End -> {"nothing", "all", "none", "part"}]
  BY DEF DemoInv, ProgramTypes, ExchangeInv, IdentTypes
<1>2. ident' = ident /\ prefix' = prefix
  <2>1. CASE UNCHANGED allVars
    BY <2>1 DEF allVars, vars
  <2>2. ASSUME NEW e \in End, Exchange(e) PROVE ident' = ident /\ prefix' = prefix
    BY <2>2, Zenon DEF Exchange, Write, ReadByte, Receive, JudgeLine, PeerGone, OnlyGoto
  <2>3. ASSUME NEW e \in End, (\E l : Shift(e, l)) \/ Takes(e) \/ Sends(e)
        PROVE  ident' = ident /\ prefix' = prefix
    BY <2>3, Zenon DEF Shift, OnlyGoto, Takes, Sends, SendCall
  <2>. QED
    BY <2>1, <2>2, <2>3, Kinds, Zenon
<1>. SUFFICES ASSUME (\A e \in End : Tolerable(e))', ~trouble'
              PROVE  ~lost' /\ \A e \in End : QuietInv(e)'
  BY DEF QuietDemo
<1>3. /\ ~trouble /\ \A e \in End : Tolerable(e)
  BY <1>1, <1>2, TroubleStays DEF Tolerable
<1>4. ~lost /\ \A e \in End : QuietInv(e)
  BY <1>3 DEF QuietDemo
<1>5. "client" \in End /\ "server" \in End /\ \A e \in End : e = "client" \/ e = "server"
  BY DEF End
<1>6. CASE UNCHANGED allVars
  BY <1>4, <1>6 DEF allVars, vars, programVars, QuietInv
<1>7. ASSUME NEW e \in End, NEW l, pc' = [pc EXCEPT ![e] = l],
             l \notin {"failed", "died", "close", "returned"}, e = "server" \/ l # "wait",
             UNCHANGED <<sent, got, lost>>
      PROVE  ~lost' /\ \A d \in End : QuietInv(d)'
  <2>1. ASSUME NEW d \in End PROVE QuietInv(d)'
    <3>1. pc'[e] = l /\ (d # e => pc'[d] = pc[d])
          /\ (pc'["client"] = "wait" => pc["client"] = "wait")
      BY <1>1, <1>5, <1>7
    <3>. QED
      BY <1>4, <1>7, <3>1 DEF QuietInv
  <2>. QED
    BY <1>4, <1>7, <2>1
<1>8. CASE Parse \/ Connect \/ Listen
  BY <1>5, <1>7, <1>8 DEF Parse, Connect, Listen, Goto
<1>9. ASSUME NEW e \in End, Exchange(e), UNCHANGED programVars
      PROVE  ~lost' /\ \A d \in End : QuietInv(d)'
  <2>1. pc'[e] \in {"write", "read", "line", "done"} /\ \A d \in End : d # e => pc'[d] = pc[d]
    BY <1>1, <1>3, <1>4, <1>9, QuietExchange, ExchangePhases
  <2>2. UNCHANGED <<sent, got, lost>>
    BY <1>9 DEF programVars
  <2>3. ASSUME NEW d \in End PROVE QuietInv(d)'
    <3>1. pc'["client"] = "wait" => pc["client"] = "wait"
      BY <1>5, <2>1
    <3>. QED
      BY <1>4, <2>1, <2>2, <3>1 DEF QuietInv
  <2>. QED
    BY <1>4, <2>2, <2>3
<1>10. CASE ServerWaits
  BY <1>5, <1>7, <1>10 DEF ServerWaits, Goto, programVars
<1>11. ASSUME NEW e \in End, Sends(e) PROVE ~lost' /\ \A d \in End : QuietInv(d)'
  <2>1. PICK s, r : SentAs(e, s, r)
    BY <1>1, <1>11, SendEffect DEF Sends
  <2>2. lost' = lost /\ sent' = [sent EXCEPT ![e] = "all"]
    BY <2>1 DEF SentAs
  <2>3. got' = got
    BY <1>11, Zenon DEF Sends, SendCall
  <2>4. \/ e = "client" /\ pc[e] = "done" /\ pc' = [pc EXCEPT ![e] = "wait"]
        \/ e = "server" /\ pc[e] = "answer" /\ pc' = [pc EXCEPT ![e] = "close"]
    BY <1>11, Zenon DEF Sends, Goto
  <2>5. e = "server" => got[e] # "nothing"
    BY <2>4 DEF DemoInv, ServerInv
  <2>6. ASSUME NEW d \in End PROVE QuietInv(d)'
    <3>1. /\ d # e => pc'[d] = pc[d] /\ sent'[d] = sent[d]
          /\ sent'[e] = "all"
          /\ \/ e = "client" /\ pc'[e] = "wait"
             \/ e = "server" /\ pc'[e] = "close"
          /\ e = "server" => pc'["client"] = pc["client"] /\ sent'["client"] = sent["client"]
      BY <1>1, <1>5, <2>2, <2>4
    <3>. QED
      BY <1>4, <2>3, <2>5, <3>1 DEF QuietInv
  <2>. QED
    BY <1>4, <2>2, <2>6
<1>12. ASSUME NEW e \in End, Receives(e) PROVE ~lost' /\ \A d \in End : QuietInv(d)'
  <2>1. /\ pc[e] = "wait" /\ Arrived(e) /\ got' = [got EXCEPT ![e] = wire[e][1]]
        /\ pc' = [pc EXCEPT ![e] = IF e = "server" THEN "answer" ELSE "close"]
        /\ sent' = sent /\ lost' = lost
    BY <1>12 DEF Receives, Goto
  <2>2. Peer(e) \in End /\ ArrivalInv(e, Peer(e))
    BY Peers DEF DemoInv
  <2>3. wire[e][1] = Mine(Peer(e)) /\ wire[e][1] \in Payload
    BY <1>1, <1>3, <2>1, <2>2, WholePacket
  <2>4. "nothing" \notin Payload
    BY DEF Payload
  <2>5. ASSUME NEW d \in End PROVE QuietInv(d)'
    <3>1. /\ d # e => pc'[d] = pc[d] /\ got'[d] = got[d]
          /\ got'[e] = Mine(Peer(e)) /\ got'[e] # "nothing"
          /\ \/ e = "server" /\ pc'[e] = "answer" /\ pc'["client"] = pc["client"]
             \/ e = "client" /\ pc'[e] = "close"
      BY <1>1, <1>5, <2>1, <2>3, <2>4
    <3>2. e = "client" => sent[e] = "all"
      BY <1>4, <2>1 DEF QuietInv
    <3>. QED
      BY <1>4, <2>1, <3>1, <3>2 DEF QuietInv
  <2>. QED
    BY <1>4, <2>1, <2>5
<1>13. ASSUME NEW e \in End, ReceivesNothing(e) PROVE ~lost' /\ \A d \in End : QuietInv(d)'
  BY <1>3, <1>4, <1>13, QuietReceive
<1>14. ASSUME NEW e \in End, Close(e) PROVE ~lost' /\ \A d \in End : QuietInv(d)'
  <2>1. /\ pc[e] = "close" /\ pc' = [pc EXCEPT ![e] = "returned"]
        /\ lost' = (lost \/ wire[e] # <<>>) /\ sent' = sent /\ got' = got
    BY <1>14 DEF Close, Goto
  <2>2. got[e] # "nothing" /\ sent[e] = "all"
    BY <1>4, <2>1 DEF QuietInv
  <2>3. wire[e] = <<>>
    BY <2>2 DEF DemoInv, PacketInv
  <2>4. ~lost'
    BY <1>4, <2>1, <2>3
  <2>5. ASSUME NEW d \in End PROVE QuietInv(d)'
    <3>1. /\ d # e => pc'[d] = pc[d]
          /\ pc'[e] = "returned"
          /\ pc'["client"] = "wait" => pc["client"] = "wait"
      BY <1>1, <1>5, <2>1
    <3>. QED
      BY <1>4, <2>1, <2>2, <3>1 DEF QuietInv
  <2>. QED
    BY <2>4, <2>5
<1>15. ASSUME NEW e \in End, Die(e) \/ BreakDown(e) PROVE FALSE
  <2>. DEFINE p == Peer(e)
  <2>1. p \in End /\ Peer(p) = e /\ PacketInv(p, e)
    BY Peers DEF DemoInv
  <2>2. ResetBy(p)
    BY <1>15 DEF Die, BreakDown
  <2>3. pc[p] = "returned" /\ wire[p] # <<>>
    BY <1>4, <2>1, <2>2 DEF ResetBy, Closed, QuietInv
  <2>4. got[p] # "nothing"
    BY <1>4, <2>1, <2>3 DEF QuietInv
  <2>. QED
    BY <2>1, <2>3, <2>4 DEF PacketInv
<1>16. CASE ClientStep
  <2>1. ClientSends => Sends("client")
    BY DEF ClientSends, Sends, Mine
  <2>. QED
    BY <1>5, <1>9, <1>11, <1>12, <1>13, <1>14, <1>16, <2>1, Zenon DEF ClientStep
<1>17. CASE ServerStep
  <2>1. ServerAnswers => Sends("server")
    BY DEF ServerAnswers, Sends, Mine
  <2>. QED
    BY <1>5, <1>8, <1>9, <1>10, <1>11, <1>12, <1>13, <1>14, <1>17, <2>1, Zenon DEF ServerStep
<1>. QED
  BY <1>6, <1>8, <1>15, <1>16, <1>17, Zenon DEF DemoNext, DemoEnded

-----------------------------------------------------------------------------
(* Theorems about the two programs.                                         *)

\* Every variable of the two programs keeps its type: the line fits its buffer, a
\* port is none or one that exists, and what session_recv returns is a payload,
\* never bytes from the middle of a packet.
THEOREM TypeCorrect == DemoSpec => []TypeOK
<1>1. DemoInv => TypeOK
  <2>. SUFFICES ASSUME DemoInv PROVE TypeOK
    OBVIOUS
  <2>1. IdentTypeOK /\ ProgramTypes /\ IdentTypes
    BY InvTypes DEF DemoInv, ExchangeInv
  <2>2. wire \in [End -> Seq(Byte \cup Payload)]
    <3>1. Symbol = Byte \cup Payload
      BY DEF Symbol, Payload
    <3>. QED
      BY <2>1, <3>1 DEF IdentTypes
  <2>3. pc \in [End -> {"start", "usage", "connect", "accept", "write", "read", "line",
                        "done", "wait", "answer", "close", "returned", "failed", "died",
                        "hung"}]
    BY <2>1 DEF IdentTypes, Phase, Unread, Reading, Past
  <2>. QED
    BY <2>1, <2>2, <2>3, Zenon DEF TypeOK, ProgramTypes
<1>. QED
  BY <1>1, DemoInvariant, PTL

\* In the programs as in the exchange alone: two ends that succeed hold the same
\* V_C and V_S, whatever the programs do before and after.
THEOREM StringsAgree == DemoSpec => []Agreement
<1>1. DemoInv => ExchangeInv
  BY DEF DemoInv
<1>. QED
  BY <1>1, DemoInvariant, InvAgreement, PTL

\* The packet that a program sends right behind its identification string is never
\* read by the peer's session_exchange_ident, whatever bytes are in it.
THEOREM PacketsLeft == DemoSpec => []PacketsLeftUnread
<1>1. DemoInv => ExchangeInv
  BY DEF DemoInv
<1>. QED
  BY <1>1, DemoInvariant, InvUnread, PTL

\* No program gets past the exchange with a peer that sends too many lines first,
\* or a string that session_ident_check is to refuse.
THEOREM NoJunk == DemoSpec => []NoJunkAccepted
<1>1. DemoInv => ExchangeInv
  BY DEF DemoInv
<1>. QED
  BY <1>1, DemoInvariant, InvNoJunk, PTL

\* Who prints the other's packet knows that the other has sent it in full, and a
\* client that prints the answer that the server has had its own packet.
THEOREM Delivered == DemoSpec => []EchoMeansDelivered
<1>1. DemoInv => EchoMeansDelivered
  <2>. SUFFICES ASSUME DemoInv PROVE EchoMeansDelivered
    OBVIOUS
  <2>1. \A e \in End : got[e] # "nothing" => sent[Peer(e)] = "all"
    BY DEF DemoInv, PacketInv
  <2>2. "client" \in End /\ Peer("client") = "server"
    BY DEF End, Peer
  <2>3. got["client"] # "nothing" => sent["server"] # "nothing"
    BY <2>1, <2>2
  <2>. QED
    BY <2>1, <2>3 DEF DemoInv, ServerInv, EchoMeansDelivered
<1>. QED
  BY <1>1, DemoInvariant, PTL

\* A peer that keeps to RFC 4253 is accepted inside the programs too.
THEOREM RfcPeers == DemoSpec => RfcPeersAccepted
<1>. DEFINE A == \A e \in End : Tolerable(Peer(e)) /\ pc[e] = "line" => pc'[e] # "failed"
<1>1. DemoInv /\ [DemoNext]_allVars => [A]_vars
  <2>. SUFFICES ASSUME DemoInv, DemoNext, ~UNCHANGED allVars,
                       NEW e \in End, Tolerable(Peer(e)), pc[e] = "line"
                PROVE  pc'[e] # "failed"
    BY DEF vars, allVars
  <2>1. PICK d \in End : \/ Exchange(d) /\ UNCHANGED programVars
                         \/ \E l : Shift(d, l)
                         \/ Takes(d) \/ Sends(d)
    BY Kinds, Zenon
  <2>2. pc \in [End -> Phase] /\ ExchangeInv /\ IdentTypes
    BY DEF DemoInv, ExchangeInv, IdentTypes
  <2>3. CASE Exchange(d)
    <3>1. CASE d = e
      <4>1. JudgeLine(e)
        BY <2>3, <3>1 DEF Exchange, Write, ReadByte, Receive, PeerGone
      <4>. QED
        BY <2>2, <4>1, RfcJudged
    <3>2. CASE d # e
      BY <2>2, <2>3, <3>2, ExchangePhases
    <3>. QED
      BY <3>1, <3>2
  <2>4. ASSUME (\E l : Shift(d, l)) \/ Takes(d) \/ Sends(d) PROVE pc'[e] # "failed"
    <3>1. PICK l : pc' = [pc EXCEPT ![d] = l]
      BY <2>4, Zenon DEF Shift, Takes, Sends, Goto
    <3>2. pc[d] # "line"
      BY <2>4 DEF Shift, Takes, Sends, Unread
    <3>. QED
      BY <2>2, <3>1, <3>2
  <2>. QED
    BY <2>1, <2>3, <2>4
<1>. QED
  BY <1>1, DemoInvariant, PTL DEF DemoSpec, RfcPeersAccepted

\* When both programs have ended, both peers kept to RFC 4253 and nothing failed
\* outside the two, each has returned 0 and has the other's payload: no order of
\* their calls loses a packet.  The server's close() right behind its answer does not,
\* since the server has read all there is to read and the close is no reset.
THEOREM EchoComplete == DemoSpec => []EchoArrives
<1>1. DemoInit => QuietDemo
  <2>. SUFFICES ASSUME DemoInit PROVE QuietDemo
    OBVIOUS
  <2>1. /\ pc = [client |-> "start", server |-> "start"] /\ lost = FALSE
        /\ sent = [e \in End |-> "nothing"] /\ got = [e \in End |-> "nothing"]
    BY DEF DemoInit
  <2>. QED
    BY <2>1 DEF QuietDemo, QuietInv, End
<1>2. DemoInv /\ QuietDemo /\ [DemoNext]_allVars => QuietDemo'
  BY QuietStep
<1>3. DemoInv /\ QuietDemo => EchoArrives
  <2>. SUFFICES ASSUME DemoInv, QuietDemo, \A e \in End : Closed(e) /\ Tolerable(e), ~trouble
                PROVE  /\ \A e \in End : pc[e] = "returned"
                       /\ got["server"] = "IGNORE" /\ got["client"] = "DEBUG"
    BY DEF EchoArrives
  <2>1. \A e \in End : QuietInv(e)
    BY DEF QuietDemo
  <2>2. \A e \in End : pc[e] = "returned"
    BY <2>1 DEF QuietInv, Closed
  <2>3. \A e \in End : got[e] = Mine(Peer(e))
    BY <2>1, <2>2 DEF QuietInv
  <2>. QED
    BY <2>2, <2>3 DEF End, Peer, Mine
<1>. QED
  BY <1>1, <1>2, <1>3, DemoInvariant, PTL DEF DemoSpec

-----------------------------------------------------------------------------
(* Decimal numbers.                                                         *)

\* A set that has 0 and with a number the next one, up to n, has all of them.
LEMMA Counting ==
  ASSUME NEW n \in Nat, NEW P, 0 \in P,
         \A k \in 1 .. n : k - 1 \in P => k \in P
  PROVE  \A k \in 0 .. n : k \in P
<1>. DEFINE Wrong == {k \in 0 .. n : k \notin P}
<1>1. SUFFICES ASSUME Wrong # {} PROVE FALSE
  OBVIOUS
<1>2. Wrong \subseteq Nat
  OBVIOUS
<1>3. PICK k \in Wrong : \A j \in Wrong : k <= j
  <2>. HIDE DEF Wrong
  <2>. QED
    BY <1>1, <1>2, Smallest
<1>4. k \in 1 .. n
  BY <1>3
<1>5. k - 1 \notin Wrong
  <2>1. k - 1 < k
    BY <1>4
  <2>. QED
    BY <2>1, <1>3, <1>4
<1>6. k - 1 \in P
  BY <1>4, <1>5
<1>. QED
  BY <1>4, <1>6

\* g begins with x and goes on with a[k] times what comes before it and b[k].
Recurs(g, x, a, b, n) ==
  g = [k \in 0 .. n |-> IF k = 0 THEN x ELSE a[k] * g[k - 1] + b[k]]

LEMMA RecursExists ==
  ASSUME NEW x, NEW a, NEW b, NEW n \in Nat
  PROVE  \E g : Recurs(g, x, a, b, n)
<1>. DEFINE P == {k \in Nat : \E g : Recurs(g, x, a, b, k)}
<1>1. 0 \in P
  <2>1. Recurs([k \in 0 .. 0 |-> x], x, a, b, 0)
    BY DEF Recurs
  <2>. QED
    BY <2>1
<1>2. ASSUME NEW k \in 1 .. n, k - 1 \in P PROVE k \in P
  <2>1. PICK g : Recurs(g, x, a, b, k - 1)
    BY <1>2
  <2>. DEFINE h == [i \in 0 .. k |-> IF i = k THEN a[k] * g[k - 1] + b[k] ELSE g[i]]
  <2>2. ASSUME NEW i \in 0 .. k
        PROVE  h[i] = IF i = 0 THEN x ELSE a[i] * h[i - 1] + b[i]
    <3>1. CASE i = k
      BY <3>1
    <3>2. CASE i < k
      <4>1. i \in 0 .. k - 1
        BY <3>2
      <4>2. g[i] = IF i = 0 THEN x ELSE a[i] * g[i - 1] + b[i]
        BY <4>1, <2>1 DEF Recurs
      <4>. QED
        BY <4>1, <4>2
    <3>. QED
      BY <3>1, <3>2
  <2>3. Recurs(h, x, a, b, k)
    <3>1. h = [i \in 0 .. k |-> h[i]]
      OBVIOUS
    <3>. HIDE DEF h
    <3>. QED
      BY <3>1, <2>2 DEF Recurs
  <2>. QED
    BY <2>3
<1>3. n \in P
  <2>. HIDE DEF P
  <2>. QED
    BY <1>1, <1>2, Counting
<1>. QED
  BY <1>3

LEMMA RecursIs ==
  ASSUME NEW x \in Nat, NEW n \in Nat, NEW a, NEW b, NEW g, Recurs(g, x, a, b, n),
         \A k \in 1 .. n : a[k] \in Nat /\ b[k] \in Nat
  PROVE  /\ g[0] = x /\ \A k \in 1 .. n : g[k] = a[k] * g[k - 1] + b[k]
         /\ \A k \in 0 .. n : g[k] \in Nat
<1>. DEFINE P == {k \in 0 .. n : g[k] \in Nat}
<1>1. g[0] = x /\ \A k \in 1 .. n : g[k] = a[k] * g[k - 1] + b[k]
  BY DEF Recurs
<1>2. 0 \in P
  BY <1>1
<1>3. ASSUME NEW k \in 1 .. n, k - 1 \in P PROVE k \in P
  <2>1. g[k - 1] \in Nat /\ a[k] \in Nat /\ b[k] \in Nat /\ g[k] = a[k] * g[k - 1] + b[k]
    BY <1>1, <1>3
  <2>2. g[k] \in Nat
    BY <2>1
  <2>. QED
    BY <2>2
<1>4. \A k \in 0 .. n : k \in P
  <2>. HIDE DEF P
  <2>. QED
    BY <1>2, <1>3, Counting
<1>. QED
  BY <1>1, <1>4

LEMMA DigitValue ==
  ASSUME NEW c, IsDigit(c)
  PROVE  Value(c) \in 0 .. 9 /\ c # "-" /\ c # "+" /\ c # "ws"
<1>1. PICK i \in 1 .. 10 : Digits[i] = c
  BY DEF IsDigit, Digits
<1>2. \E v \in 0 .. 9 : Digits[v + 1] = c
  <2>1. i - 1 \in 0 .. 9 /\ (i - 1) + 1 = i
    OBVIOUS
  <2>. QED
    BY <1>1, <2>1
<1>3. Value(c) \in 0 .. 9
  BY <1>2 DEF Value
<1>4. c # "-" /\ c # "+" /\ c # "ws"
  BY <1>1 DEF Digits
<1>. QED
  BY <1>3, <1>4

\* strtol of nothing but digits, one more digit at a time
LEMMA CollectedIs ==
  ASSUME NEW s \in Seq(STRING), Decimal(s)
  PROVE  \E h \in [0 .. Len(s) -> Nat] :
           /\ h[0] = 0 /\ \A k \in 1 .. Len(s) : h[k] = 10 * h[k - 1] + Value(s[k])
           /\ Collected(s) = h[Len(s)]
<1>. DEFINE n == Len(s)
            a == [k \in 1 .. n |-> 10]
            b == [k \in 1 .. n |-> Value(s[k])]
            Is(g) == g = [k \in 0 .. n |-> IF k = 0 THEN 0 ELSE 10 * g[k - 1] + Value(s[k])]
            h == CHOOSE g : Is(g)
            ks == {k \in 0 .. n : \A i \in 1 .. k : IsDigit(s[i])}
<1>1. n \in Nat \ {0} /\ \A i \in 1 .. n : IsDigit(s[i])
  BY DEF Decimal
<1>2. \A k \in 1 .. n : Value(s[k]) \in Nat
  <2>1. \A k \in 1 .. n : Value(s[k]) \in 0 .. 9
    BY <1>1, DigitValue
  <2>. QED
    BY <2>1
<1>3. s # <<>> /\ s[1] # "-" /\ s[1] # "+"
  <2>1. IsDigit(s[1])
    BY <1>1
  <2>. QED
    BY <1>1, <2>1, DigitValue
<1>4. Max(ks) = n
  <2>1. n \in ks /\ ks \subseteq 0 .. n /\ ks # {}
    BY <1>1
  <2>2. Max(ks) \in ks /\ Max(ks) >= n
    <3>. HIDE DEF ks, n
    <3>. QED
      BY <1>1, <2>1, MaxIs
  <2>3. Max(ks) \in 0 .. n
    BY <2>1, <2>2
  <2>. HIDE DEF ks
  <2>. QED
    BY <1>1, <2>2, <2>3
<1>5. Collected(s) = h[n]
  BY <1>3, <1>4, ZenonT(30) DEF Collected
<1>6. \E y : Is(y)
  <2>1. PICK g : Recurs(g, 0, a, b, n)
    BY <1>1, RecursExists
  <2>2. \A k \in 1 .. n : a[k] = 10 /\ b[k] = Value(s[k])
    OBVIOUS
  <2>. HIDE DEF a, b
  <2>3. ASSUME NEW k \in 0 .. n
        PROVE  g[k] = IF k = 0 THEN 0 ELSE 10 * g[k - 1] + Value(s[k])
    <3>1. g[k] = IF k = 0 THEN 0 ELSE a[k] * g[k - 1] + b[k]
      BY <2>1 DEF Recurs
    <3>2. k # 0 => k \in 1 .. n
      BY <1>1
    <3>. QED
      BY <2>2, <3>1, <3>2
  <2>4. g = [k \in 0 .. n |-> g[k]]
    BY <2>1 DEF Recurs
  <2>5. Is(g)
    BY <2>3, <2>4
  <2>. QED
    BY <2>5
<1>7. Is(h)
  <2>. HIDE DEF Is
  <2>. QED
    BY <1>6
<1>. HIDE DEF h
<1>8. Recurs(h, 0, a, b, n)
  <2>1. h = [k \in 0 .. n |-> IF k = 0 THEN 0 ELSE 10 * h[k - 1] + Value(s[k])]
    BY <1>7
  <2>2. ASSUME NEW k \in 0 .. n
        PROVE  h[k] = IF k = 0 THEN 0 ELSE a[k] * h[k - 1] + b[k]
    <3>1. h[k] = IF k = 0 THEN 0 ELSE 10 * h[k - 1] + Value(s[k])
      BY <2>1
    <3>2. k # 0 => a[k] = 10 /\ b[k] = Value(s[k])
      BY <1>1
    <3>. HIDE DEF a, b
    <3>. QED
      BY <3>1, <3>2
  <2>3. h = [k \in 0 .. n |-> h[k]]
    BY <2>1
  <2>. HIDE DEF a, b
  <2>. QED
    BY <2>2, <2>3 DEF Recurs
<1>9. \A k \in 1 .. n : a[k] = 10 /\ b[k] = Value(s[k]) /\ a[k] \in Nat /\ b[k] \in Nat
  BY <1>2
<1>. HIDE DEF a, b
<1>10. /\ h[0] = 0 /\ \A k \in 1 .. n : h[k] = a[k] * h[k - 1] + b[k]
       /\ \A k \in 0 .. n : h[k] \in Nat
  BY <1>1, <1>8, <1>9, RecursIs
<1>11. h \in [0 .. n -> Nat]
  <2>1. h = [k \in 0 .. n |-> h[k]]
    BY <1>8 DEF Recurs
  <2>. QED
    BY <1>10, <2>1
<1>. QED
  BY <1>5, <1>9, <1>10, <1>11

\* The sum of the digits, each times what it is worth
LEMMA NumberIs ==
  ASSUME NEW s \in Seq(STRING), Decimal(s)
  PROVE  \E w \in [0 .. Len(s) -> Nat], l \in [0 .. Len(s) -> Nat] :
           /\ w[0] = 1 /\ \A k \in 1 .. Len(s) : w[k] = 10 * w[k - 1]
           /\ l[0] = 0
           /\ \A k \in 1 .. Len(s) : l[k] = l[k - 1] + Value(s[Len(s) - k + 1]) * w[k - 1]
           /\ Number(s) = l[Len(s)]
<1>. DEFINE n == Len(s)
            IsW(g) == g = [k \in 0 .. n |-> IF k = 0 THEN 1 ELSE 10 * g[k - 1]]
            w == CHOOSE g : IsW(g)
            IsL(g) == g = [k \in 0 .. n |-> IF k = 0 THEN 0
                                            ELSE g[k - 1] + Value(s[n - k + 1]) * w[k - 1]]
            l == CHOOSE g : IsL(g)
            a10 == [k \in 1 .. n |-> 10]
            b0 == [k \in 1 .. n |-> 0]
            a1 == [k \in 1 .. n |-> 1]
            bl == [k \in 1 .. n |-> Value(s[n - k + 1]) * w[k - 1]]
<1>1. n \in Nat /\ \A k \in 1 .. n : Value(s[n - k + 1]) \in Nat
  <2>1. ASSUME NEW k \in 1 .. n PROVE Value(s[n - k + 1]) \in Nat
    <3>1. n - k + 1 \in 1 .. n
      OBVIOUS
    <3>2. IsDigit(s[n - k + 1])
      BY <3>1 DEF Decimal
    <3>3. Value(s[n - k + 1]) \in 0 .. 9
      BY <3>2, DigitValue
    <3>. QED
      BY <3>3
  <2>. QED
    BY <2>1
<1>2. Number(s) = l[n]
  BY DEF Number
<1>3. \E y \in [0 .. n -> Nat] : IsW(y)
  <2>1. PICK g : Recurs(g, 1, a10, b0, n)
    BY <1>1, RecursExists
  <2>2. \A k \in 1 .. n : a10[k] = 10 /\ b0[k] = 0 /\ a10[k] \in Nat /\ b0[k] \in Nat
    OBVIOUS
  <2>. HIDE DEF a10, b0
  <2>3. /\ g[0] = 1 /\ \A k \in 1 .. n : g[k] = a10[k] * g[k - 1] + b0[k]
        /\ \A k \in 0 .. n : g[k] \in Nat
    BY <1>1, <2>1, <2>2, RecursIs
  <2>4. g = [k \in 0 .. n |-> g[k]]
    BY <2>1 DEF Recurs
  <2>5. ASSUME NEW k \in 0 .. n PROVE g[k] = IF k = 0 THEN 1 ELSE 10 * g[k - 1]
    <3>1. CASE k = 0
      BY <2>3, <3>1
    <3>2. CASE k # 0
      <4>1. k \in 1 .. n /\ k - 1 \in 0 .. n
        BY <1>1, <3>2
      <4>2. g[k] = 10 * g[k - 1] + 0 /\ g[k - 1] \in Nat
        BY <2>2, <2>3, <4>1
      <4>. QED
        BY <3>2, <4>2
    <3>. QED
      BY <3>1, <3>2
  <2>6. g \in [0 .. n -> Nat]
    BY <2>3, <2>4
  <2>7. IsW(g)
    BY <2>4, <2>5
  <2>. QED
    BY <2>6, <2>7
<1>4. IsW(w)
  <2>. HIDE DEF IsW
  <2>. QED
    BY <1>3
<1>. HIDE DEF w
<1>5. w = [k \in 0 .. n |-> w[k]] /\ w[0] = 1 /\ \A k \in 1 .. n : w[k] = 10 * w[k - 1]
  <2>1. \A k \in 0 .. n : w[k] = IF k = 0 THEN 1 ELSE 10 * w[k - 1]
    BY <1>4, Zenon
  <2>2. 0 \in 0 .. n /\ \A k \in 1 .. n : k \in 0 .. n /\ k # 0
    BY <1>1
  <2>3. w = [k \in 0 .. n |-> w[k]]
    BY <1>4
  <2>. QED
    BY <2>1, <2>2, <2>3, Zenon
<1>6. w \in [0 .. n -> Nat]
  <2>. DEFINE P == {k \in 0 .. n : w[k] \in Nat}
  <2>1. 0 \in P
    BY <1>1, <1>5
  <2>2. ASSUME NEW k \in 1 .. n, k - 1 \in P PROVE k \in P
    <3>1. w[k] = 10 * w[k - 1] /\ w[k - 1] \in Nat
      BY <1>5, <2>2, Zenon
    <3>2. w[k] \in Nat
      BY <3>1
    <3>. QED
      BY <3>2
  <2>3. \A k \in 0 .. n : k \in P
    <3>. HIDE DEF P
    <3>. QED
      BY <1>1, <2>1, <2>2, Counting
  <2>. QED
    BY <1>5, <2>3
<1>7. \A k \in 1 .. n : a1[k] = 1 /\ a1[k] \in Nat /\ bl[k] = Value(s[n - k + 1]) * w[k - 1] /\ bl[k] \in Nat
  <2>1. ASSUME NEW k \in 1 .. n PROVE Value(s[n - k + 1]) * w[k - 1] \in Nat
    <3>1. k - 1 \in 0 .. n
      BY <1>1
    <3>2. w[k - 1] \in Nat /\ Value(s[n - k + 1]) \in Nat
      BY <1>1, <1>6, <3>1
    <3>. QED
      BY <3>2
  <2>. QED
    BY <2>1
<1>8. \E y : IsL(y)
  <2>1. PICK g : Recurs(g, 0, a1, bl, n)
    BY <1>1, RecursExists
  <2>. HIDE DEF a1, bl
  <2>2. /\ g[0] = 0 /\ \A k \in 1 .. n : g[k] = a1[k] * g[k - 1] + bl[k]
        /\ \A k \in 0 .. n : g[k] \in Nat
    BY <1>1, <1>7, <2>1, RecursIs
  <2>3. g = [k \in 0 .. n |-> g[k]]
    BY <2>1 DEF Recurs
  <2>4. ASSUME NEW k \in 0 .. n
        PROVE  g[k] = IF k = 0 THEN 0 ELSE g[k - 1] + Value(s[n - k + 1]) * w[k - 1]
    <3>1. CASE k = 0
      BY <2>2, <3>1
    <3>2. CASE k # 0
      <4>1. k \in 1 .. n /\ k - 1 \in 0 .. n
        BY <1>1, <3>2
      <4>2. g[k] = 1 * g[k - 1] + bl[k] /\ g[k - 1] \in Nat /\ bl[k] \in Nat
        BY <1>7, <2>2, <4>1
      <4>3. g[k] = g[k - 1] + bl[k]
        BY <4>2
      <4>4. bl[k] = Value(s[n - k + 1]) * w[k - 1]
        BY <1>7, <4>1
      <4>. QED
        BY <3>2, <4>3, <4>4
    <3>. QED
      BY <3>1, <3>2
  <2>5. IsL(g)
    BY <2>3, <2>4, Zenon
  <2>. QED
    BY <2>5
<1>9. IsL(l)
  <2>. HIDE DEF IsL
  <2>. QED
    BY <1>8
<1>. HIDE DEF l
<1>10. /\ l = [k \in 0 .. n |-> l[k]] /\ l[0] = 0
       /\ \A k \in 1 .. n : l[k] = l[k - 1] + Value(s[n - k + 1]) * w[k - 1]
  <2>1. \A k \in 0 .. n :
          l[k] = IF k = 0 THEN 0 ELSE l[k - 1] + Value(s[n - k + 1]) * w[k - 1]
    BY <1>9, Zenon
  <2>2. 0 \in 0 .. n /\ \A k \in 1 .. n : k \in 0 .. n /\ k # 0
    BY <1>1
  <2>3. l = [k \in 0 .. n |-> l[k]]
    BY <1>9
  <2>. QED
    BY <2>1, <2>2, <2>3, Zenon
<1>11. l \in [0 .. n -> Nat]
  <2>. DEFINE P == {k \in 0 .. n : l[k] \in Nat}
  <2>1. 0 \in P
    BY <1>1, <1>10
  <2>2. ASSUME NEW k \in 1 .. n, k - 1 \in P PROVE k \in P
    <3>1. l[k] = l[k - 1] + bl[k] /\ bl[k] \in Nat /\ l[k - 1] \in Nat
      BY <1>7, <1>10, <2>2, Zenon
    <3>2. l[k] \in Nat
      BY <3>1
    <3>. QED
      BY <3>2
  <2>3. \A k \in 0 .. n : k \in P
    <3>. HIDE DEF P
    <3>. QED
      BY <1>1, <2>1, <2>2, Counting
  <2>. QED
    BY <1>10, <2>3
<1>. QED
  BY <1>2, <1>5, <1>6, <1>10, <1>11, Zenon

\* strtol reads a decimal number as what it says.
LEMMA CollectedHonest ==
  ASSUME NEW s \in Seq(STRING), Decimal(s)
  PROVE  Collected(s) = Number(s)
<1>. DEFINE n == Len(s)
            v(k) == Value(s[k])
<1>1. n \in Nat
  OBVIOUS
<1>2. PICK h \in [0 .. n -> Nat] :
        /\ h[0] = 0 /\ \A k \in 1 .. n : h[k] = 10 * h[k - 1] + v(k)
        /\ Collected(s) = h[n]
  BY CollectedIs
<1>3. PICK w \in [0 .. n -> Nat], l \in [0 .. n -> Nat] :
        /\ w[0] = 1 /\ \A k \in 1 .. n : w[k] = 10 * w[k - 1]
        /\ l[0] = 0 /\ \A k \in 1 .. n : l[k] = l[k - 1] + v(n - k + 1) * w[k - 1]
        /\ Number(s) = l[n]
  BY NumberIs
<1>4. \A k \in 1 .. n : v(k) \in Nat
  <2>1. ASSUME NEW k \in 1 .. n PROVE v(k) \in Nat
    <3>1. IsDigit(s[k])
      BY DEF Decimal
    <3>2. Value(s[k]) \in 0 .. 9
      BY <3>1, DigitValue
    <3>. QED
      BY <3>2
  <2>. QED
    BY <2>1
<1>. HIDE DEF v, n
<1>. DEFINE P == {k \in 0 .. n : h[k] * w[n - k] + l[n - k] = l[n]}
<1>5. 0 \in P
  <2>1. n - 0 = n /\ w[n] \in Nat /\ l[n] \in Nat
    BY <1>1, <1>2, <1>3
  <2>2. h[0] * w[n - 0] + l[n - 0] = 0 * w[n] + l[n]
    BY <1>2, <2>1
  <2>3. 0 * w[n] + l[n] = l[n]
    BY <2>1
  <2>. QED
    BY <1>1, <2>2, <2>3
<1>6. ASSUME NEW k \in 1 .. n, k - 1 \in P PROVE k \in P
  <2>. DEFINE j == n - k
              x == h[k - 1]
              y == w[j]
              z == l[j]
              d == v(k)
  <2>1. j \in 0 .. n /\ j + 1 \in 1 .. n /\ j + 1 - 1 = j /\ n - (j + 1) + 1 = k
        /\ n - (k - 1) = j + 1 /\ k - 1 \in 0 .. n
    BY <1>1
  <2>2. x \in Nat /\ y \in Nat /\ z \in Nat /\ d \in Nat
    BY <1>2, <1>3, <1>4, <2>1
  <2>3. h[k] = 10 * x + d
    BY <1>2
  <2>4. w[j + 1] = 10 * y
    BY <1>3, <2>1
  <2>5. l[j + 1] = z + d * y
    <3>. DEFINE i == j + 1
    <3>1. i \in 1 .. n
      BY <2>1
    <3>. HIDE DEF i
    <3>2. l[i] = l[i - 1] + v(n - i + 1) * w[i - 1]
      BY <1>3, <3>1, Zenon
    <3>3. i - 1 = j /\ n - i + 1 = k
      BY <2>1 DEF i
    <3>4. l[i] = l[j] + v(k) * w[j]
      BY <3>2, <3>3, Zenon
    <3>. QED
      BY <3>4 DEF i
  <2>6. x * w[j + 1] + l[j + 1] = l[n]
    <3>1. x * w[n - (k - 1)] + l[n - (k - 1)] = l[n]
      BY <1>6
    <3>. QED
      BY <2>1, <3>1
  <2>. HIDE DEF x, y, z, d
  <2>7. x * (10 * y) + (z + d * y) = l[n]
    BY <2>4, <2>5, <2>6
  <2>8. x * (10 * y) + (z + d * y) = (10 * x + d) * y + z
    BY <2>2
  <2>9. h[k] * w[n - k] + l[n - k] = l[n]
    BY <2>3, <2>7, <2>8 DEF y, z
  <2>. QED
    BY <1>1, <2>9
<1>7. n \in P
  <2>1. \A k \in 0 .. n : k \in P
    <3>. HIDE DEF P
    <3>. QED
      BY <1>1, <1>5, <1>6, Counting
  <2>. QED
    BY <1>1, <2>1
<1>8. h[n] * w[n - n] + l[n - n] = l[n] /\ n - n = 0 /\ h[n] \in Nat
  BY <1>1, <1>2, <1>7
<1>9. h[n] * 1 + 0 = l[n]
  BY <1>3, <1>8
<1>. QED
  BY <1>2, <1>3, <1>8, <1>9

\* atoi gives a decimal number that an int can hold as what it is.
LEMMA AtoiHonest ==
  ASSUME NEW s \in Seq(STRING), Decimal(s), Number(s) < IntMod \div 2
  PROVE  Atoi(s) = Number(s)
<1>. DEFINE ks == {k \in 1 .. Len(s) + 1 : k \in DOMAIN s => s[k] # "ws"}
<1>1. IsDigit(s[1]) /\ Len(s) \in Nat \ {0}
  BY DEF Decimal
<1>2. s[1] # "ws"
  BY <1>1, DigitValue
<1>3. Min(ks) = 1
  <2>1. 1 \in ks /\ ks # {} /\ ks \subseteq Nat /\ \A k \in ks : k \in Nat /\ k >= 1
    BY <1>1, <1>2
  <2>. HIDE DEF ks
  <2>2. Min(ks) \in ks /\ Min(ks) <= 1
    BY <2>1, MinIs
  <2>3. Min(ks) >= 1 /\ Min(ks) \in Nat
    BY <2>1, <2>2
  <2>. QED
    BY <2>2, <2>3
<1>4. PastBlanks(s) = s
  <2>1. PastBlanks(s) = SubSeq(s, Min(ks), Len(s))
    BY DEF PastBlanks
  <2>. HIDE DEF ks
  <2>. QED
    BY <1>3, <2>1
<1>5. Collected(s) = Number(s) /\ Number(s) \in Nat
  BY CollectedHonest, NumberIs
<1>. DEFINE v == Number(s)
<1>. HIDE DEF v
<1>6. v \in Nat /\ v < IntMod \div 2
  BY <1>5 DEF v
<1>7. IntMod \in Nat \ {0} /\ LongMod \in Nat /\ IntMod <= LongMod
  BY DemoAssumption
<1>8. /\ v < LongMod \div 2 /\ LongMod \div 2 \in Nat
      /\ v % IntMod = v
  BY <1>6, <1>7
<1>9. AsLong(v) = v /\ AsInt(v) = v
  BY <1>6, <1>8 DEF AsLong, AsInt
<1>. QED
  BY <1>4, <1>5, <1>9 DEF Atoi, v

-----------------------------------------------------------------------------
(* The target.                                                              *)

LEMMA PieceOf ==
  ASSUME NEW t \in Seq(STRING), NEW m \in Nat, NEW n \in Nat, m + n <= Len(t)
  PROVE  /\ SubSeq(t, m + 1, m + n) \in Seq(STRING) /\ Len(SubSeq(t, m + 1, m + n)) = n
         /\ \A j \in 1 .. n : SubSeq(t, m + 1, m + n)[j] = t[m + j]
<1>1. \A i \in m + 1 .. m + n : t[i] \in STRING
  OBVIOUS
<1>2. /\ SubSeq(t, m + 1, m + n) \in Seq(STRING)
      /\ Len(SubSeq(t, m + 1, m + n)) = IF m + 1 <= m + n THEN m + n - (m + 1) + 1 ELSE 0
      /\ \A j \in 1 .. m + n - (m + 1) + 1 : SubSeq(t, m + 1, m + n)[j] = t[m + 1 + j - 1]
  <2>1. m + 1 \in Int /\ m + n \in Int
    OBVIOUS
  <2>. QED
    BY <1>1, <2>1, SubSeqProperties, SMTT(30)
<1>3. /\ m + n - (m + 1) + 1 = n /\ m + 1 <= m + n <=> n # 0
      /\ \A j \in 1 .. n : m + 1 + j - 1 = m + j
  OBVIOUS
<1>. QED
  BY <1>2, <1>3

\* The part of t behind position a, and its own parts
Behind(t, a, p) ==
  /\ p \in Seq(STRING) /\ Len(p) = Len(t) - a /\ \A j \in 1 .. Len(p) : p[j] = t[a + j]
  /\ \A m \in Nat, n \in Nat : m + n <= Len(p) =>
       SubSeq(p, m + 1, m + n) = SubSeq(t, a + m + 1, a + m + n)

LEMMA BehindIs ==
  ASSUME NEW t \in Seq(STRING), NEW a \in 0 .. Len(t)
  PROVE  Behind(t, a, SubSeq(t, a + 1, Len(t)))
<1>. DEFINE p == SubSeq(t, a + 1, Len(t))
            r == Len(t) - a
<1>1. a \in Nat /\ r \in Nat /\ a + r = Len(t) /\ a + r <= Len(t)
  OBVIOUS
<1>. HIDE DEF r
<1>2. p = SubSeq(t, a + 1, a + r)
  BY <1>1
<1>3. p \in Seq(STRING) /\ Len(p) = r /\ \A j \in 1 .. r : p[j] = t[a + j]
  <2>1. /\ SubSeq(t, a + 1, a + r) \in Seq(STRING) /\ Len(SubSeq(t, a + 1, a + r)) = r
        /\ \A j \in 1 .. r : SubSeq(t, a + 1, a + r)[j] = t[a + j]
    BY <1>1, PieceOf, Zenon
  <2>. QED
    BY <1>2, <2>1, Zenon
<1>4. ASSUME NEW m \in Nat, NEW n \in Nat, m + n <= Len(p)
      PROVE  SubSeq(p, m + 1, m + n) = SubSeq(t, a + m + 1, a + m + n)
  <2>. DEFINE x == SubSeq(p, m + 1, m + n)
              y == SubSeq(t, (a + m) + 1, (a + m) + n)
  <2>1. a + m \in Nat /\ (a + m) + n <= Len(t)
    BY <1>1, <1>3, <1>4
  <2>2. x \in Seq(STRING) /\ Len(x) = n /\ \A j \in 1 .. n : x[j] = p[m + j]
    <3>1. m + n <= Len(p)
      BY <1>4
    <3>. QED
      BY <1>3, <3>1, PieceOf, Zenon
  <2>3. y \in Seq(STRING) /\ Len(y) = n /\ \A j \in 1 .. n : y[j] = t[a + m + j]
    BY <2>1, PieceOf, Zenon
  <2>4. ASSUME NEW j \in 1 .. n PROVE p[m + j] = t[a + m + j]
    <3>1. m + j \in 1 .. r /\ a + (m + j) = a + m + j
      BY <1>1, <1>3, <1>4
    <3>. QED
      BY <1>3, <3>1
  <2>. HIDE DEF x, y
  <2>5. \A j \in 1 .. n : x[j] = y[j]
    BY <2>2, <2>3, <2>4
  <2>6. x = y
    BY <2>2, <2>3, <2>5, SeqEqual
  <2>. QED
    BY <2>6 DEF x, y
<1>5. r = Len(t) - a
  BY DEF r
<1>. HIDE DEF p
<1>6. Behind(t, a, p)
  BY <1>3, <1>4, <1>5 DEF Behind
<1>. QED
  BY <1>6 DEF p

\* strchr finds the first place, if there is one.
LEMMA FirstIs ==
  ASSUME NEW c, NEW t \in Seq(STRING)
  PROVE  /\ First(c, t) \in 0 .. Len(t)
         /\ First(c, t) # 0 => t[First(c, t)] = c
         /\ \A j \in 1 .. Len(t) : j < First(c, t) \/ First(c, t) = 0 => t[j] # c
<1>. DEFINE at == {i \in DOMAIN t : t[i] = c}
            f == First(c, t)
<1>1. f = IF at = {} THEN 0 ELSE Min(at)
  BY DEF First
<1>2. DOMAIN t = 1 .. Len(t) /\ at \subseteq Nat /\ Len(t) \in Nat
  OBVIOUS
<1>3. CASE at = {}
  <2>1. f = 0 /\ \A j \in 1 .. Len(t) : t[j] # c
    BY <1>1, <1>2, <1>3
  <2>. QED
    BY <1>2, <2>1
<1>4. CASE at # {}
  <2>1. Min(at) \in at /\ \A y \in at : Min(at) <= y
    <3>. HIDE DEF at
    <3>. QED
      BY <1>2, <1>4, MinIs
  <2>2. f \in at /\ \A y \in at : f <= y
    BY <1>1, <1>4, <2>1
  <2>. HIDE DEF f
  <2>3. f \in 1 .. Len(t) /\ t[f] = c
    BY <1>2, <2>2
  <2>4. \A j \in 1 .. Len(t) : j < f => t[j] # c
    BY <1>2, <2>2, <2>3
  <2>5. f # 0
    BY <1>2, <2>3
  <2>. QED
    BY <1>2, <2>3, <2>4, <2>5 DEF f
<1>. QED
  BY <1>3, <1>4

LEMMA FirstOnly ==
  ASSUME NEW c, NEW t \in Seq(STRING), NEW i \in 1 .. Len(t), t[i] = c,
         \A j \in 1 .. i - 1 : t[j] # c
  PROVE  First(c, t) = i
<1>. DEFINE f == First(c, t)
<1>1. /\ f \in 0 .. Len(t) /\ (f # 0 => t[f] = c)
      /\ \A j \in 1 .. Len(t) : j < f \/ f = 0 => t[j] # c
  BY FirstIs
<1>. HIDE DEF f
<1>2. f # 0 /\ ~(i < f)
  BY <1>1
<1>3. ~(f < i)
  BY <1>1, <1>2
<1>. QED
  BY <1>1, <1>2, <1>3 DEF f

LEMMA FirstNone ==
  ASSUME NEW c, NEW t \in Seq(STRING), \A j \in 1 .. Len(t) : t[j] # c
  PROVE  First(c, t) = 0
BY FirstIs

\* What parse_target makes of a target that has an '@', with its parts named.
Parts(t, at, c) ==
  LET hp == SubSeq(t, at + 1, Len(t))
      user == SubSeq(t, 1, at - 1)
      host == IF c = 0 THEN hp ELSE SubSeq(t, at + 1, at + c - 1)
      port == IF c = 0 THEN 22 ELSE Atoi(SubSeq(t, at + c + 1, Len(t)))
  IN IF Fits(user, UserSize) /\ Fits(host, HostSize) /\ PortOk(port)
     THEN [user |-> user, host |-> host, port |-> port] ELSE Refused

LEMMA ParsedParts ==
  ASSUME NEW t \in Seq(STRING), NEW at, at = First("@", t), at # 0,
         NEW c, c = First(":", SubSeq(t, at + 1, Len(t)))
  PROVE  /\ at \in 1 .. Len(t) /\ c \in 0 .. Len(t) - at
         /\ ParseTarget(t) = Parts(t, at, c)
<1>. DEFINE hp == SubSeq(t, at + 1, Len(t))
            n == Len(t)
            h == Len(hp)
<1>1. at \in 1 .. n /\ n \in Nat
  BY FirstIs
<1>2. Behind(t, at, hp)
  <2>1. at \in 0 .. Len(t)
    BY <1>1
  <2>. QED
    BY <2>1, BehindIs, Zenon
<1>3. c = First(":", hp)
  OBVIOUS
<1>. HIDE DEF hp
<1>4. hp \in Seq(STRING) /\ h = n - at /\ c \in 0 .. h
  <2>1. hp \in Seq(STRING) /\ h = n - at
    BY <1>2 DEF Behind
  <2>. QED
    BY <1>3, <2>1, FirstIs
<1>. HIDE DEF h, n
<1>5. at \in Nat /\ n \in Nat /\ h \in Nat /\ c \in Nat /\ h = n - at
  BY <1>1, <1>4
<1>6. ASSUME c # 0
      PROVE  /\ SubSeq(hp, 1, c - 1) = SubSeq(t, at + 1, at + c - 1)
             /\ SubSeq(hp, c + 1, h) = SubSeq(t, at + c + 1, n)
  <2>1. /\ c - 1 \in Nat /\ 0 \in Nat /\ 0 + (c - 1) <= h
        /\ h - c \in Nat /\ c \in Nat /\ c + (h - c) <= h
    BY <1>1, <1>4, <1>6
  <2>. DEFINE Pieces == \A j \in Nat, k \in Nat : j + k <= h =>
                          SubSeq(hp, j + 1, j + k) = SubSeq(t, at + j + 1, at + j + k)
  <2>2. Pieces
    BY <1>2 DEF Behind, h
  <2>3. SubSeq(hp, 0 + 1, 0 + (c - 1)) = SubSeq(t, at + 0 + 1, at + 0 + (c - 1))
    BY <2>1, <2>2, Zenon
  <2>4. SubSeq(hp, c + 1, c + (h - c)) = SubSeq(t, at + c + 1, at + c + (h - c))
    BY <2>1, <2>2, Zenon
  <2>5. 0 + 1 = 1 /\ 0 + (c - 1) = c - 1 /\ at + 0 + 1 = at + 1 /\ at + 0 + (c - 1) = at + c - 1
    BY <1>1, <2>1
  <2>6. c + (h - c) = h /\ at + c + (h - c) = n
    BY <1>5
  <2>. QED
    BY <2>3, <2>4, <2>5, <2>6, Zenon
<1>7. ParseTarget(t) =
        LET user == SubSeq(t, 1, at - 1)
            host == IF c = 0 THEN hp ELSE SubSeq(hp, 1, c - 1)
            port == IF c = 0 THEN 22 ELSE Atoi(SubSeq(hp, c + 1, h))
        IN IF at # 0 /\ Fits(user, UserSize) /\ Fits(host, HostSize) /\ PortOk(port)
           THEN [user |-> user, host |-> host, port |-> port] ELSE Refused
  BY Zenon DEF ParseTarget, hp, h
<1>8. ParseTarget(t) = Parts(t, at, c)
  <2>1. CASE c = 0
    BY <1>7, <2>1 DEF Parts, hp
  <2>2. CASE c # 0
    BY <1>6, <1>7, <2>2 DEF Parts, n
  <2>. QED
    BY <2>1, <2>2
<1>. QED
  BY <1>1, <1>2, <1>4, <1>8 DEF n

\* What parse_target makes of a target that can be split at i and k
LEMMA SplitParsed ==
  ASSUME NEW t \in Seq(STRING), NEW i \in 1 .. Len(t), NEW k \in 1 .. Len(t) + 1, i < k,
         t[i] = "@", k \in 1 .. Len(t) => t[k] = ":",
         \A j \in 1 .. i - 1 : t[j] # "@", \A j \in i + 1 .. k - 1 : t[j] # ":"
  PROVE  ParseTarget(t) = Parts(t, i, IF k <= Len(t) THEN k - i ELSE 0)
<1>. DEFINE hp == SubSeq(t, i + 1, Len(t))
            n == Len(t)
<1>1. First("@", t) = i
  BY FirstOnly
<1>2. Behind(t, i, hp)
  <2>1. i \in 0 .. Len(t)
    OBVIOUS
  <2>. QED
    BY <2>1, BehindIs, Zenon
<1>. HIDE DEF hp
<1>3. /\ hp \in Seq(STRING) /\ Len(hp) = n - i
      /\ \A j \in 1 .. Len(hp) : hp[j] = t[i + j]
  BY <1>2 DEF Behind
<1>4. First(":", hp) = IF k <= n THEN k - i ELSE 0
  <2>1. CASE k <= n
    <3>1. k - i \in 1 .. Len(hp) /\ i + (k - i) = k
      BY <1>3, <2>1
    <3>2. hp[k - i] = t[k]
      <4>1. hp[k - i] = t[i + (k - i)]
        BY <1>3, <3>1, Zenon
      <4>. QED
        BY <3>1, <4>1
    <3>3. ASSUME NEW j \in 1 .. (k - i) - 1 PROVE hp[j] # ":"
      <4>1. j \in 1 .. Len(hp) /\ i + j \in i + 1 .. k - 1
        BY <1>3, <2>1
      <4>2. hp[j] = t[i + j]
        BY <1>3, <4>1, Zenon
      <4>. QED
        BY <4>1, <4>2
    <3>4. t[k] = ":"
      BY <2>1
    <3>5. First(":", hp) = k - i
      BY <1>3, <3>1, <3>2, <3>3, <3>4, FirstOnly
    <3>. QED
      BY <2>1, <3>5
  <2>2. CASE ~(k <= n)
    <3>1. ASSUME NEW j \in 1 .. Len(hp) PROVE hp[j] # ":"
      <4>1. i + j \in i + 1 .. k - 1
        BY <1>3, <2>2
      <4>2. hp[j] = t[i + j]
        BY <1>3, Zenon
      <4>. QED
        BY <4>1, <4>2
    <3>2. First(":", hp) = 0
      BY <1>3, <3>1, FirstNone
    <3>. QED
      BY <2>2, <3>2
  <2>. QED
    BY <2>1, <2>2
<1>. DEFINE c == IF k <= n THEN k - i ELSE 0
<1>5. i = First("@", t) /\ i # 0 /\ c = First(":", SubSeq(t, i + 1, Len(t)))
  BY <1>1, <1>4 DEF hp
<1>. HIDE DEF c
<1>6. ParseTarget(t) = Parts(t, i, c)
  BY <1>5, ParsedParts, Zenon
<1>. QED
  BY <1>6 DEF c

\* A target that is user@host or user@host:port, with names that fit and a port that
\* exists, is not refused.
LEMMA FairAccepted ==
  ASSUME NEW t \in Seq(STRING), NEW i \in 1 .. Len(t), NEW k \in 1 .. Len(t) + 1, i < k,
         t[i] = "@", k \in 1 .. Len(t) => t[k] = ":",
         \A j \in 1 .. i - 1 : t[j] # "@", \A j \in i + 1 .. k - 1 : t[j] # ":",
         i - 1 \in 1 .. UserSize - 1, k - i - 1 \in 1 .. HostSize - 1,
         k \in 1 .. Len(t) =>
           /\ Decimal(SubSeq(t, k + 1, Len(t)))
           /\ Number(SubSeq(t, k + 1, Len(t))) \in 1 .. MaxPort
  PROVE  ParseTarget(t) # Refused
<1>. DEFINE n == Len(t)
            c == IF k <= n THEN k - i ELSE 0
            user == SubSeq(t, 1, i - 1)
            host == IF c = 0 THEN SubSeq(t, i + 1, n) ELSE SubSeq(t, i + 1, i + c - 1)
            port == IF c = 0 THEN 22 ELSE Atoi(SubSeq(t, i + c + 1, n))
<1>1. ParseTarget(t) = Parts(t, i, c)
  BY SplitParsed, Zenon
<1>2. i \in Nat /\ n \in Nat /\ k \in Nat /\ i < k /\ k <= n + 1
  OBVIOUS
<1>3. user \in Seq(STRING) /\ Len(user) = i - 1
  <2>1. 0 \in Nat /\ i - 1 \in Nat /\ 0 + (i - 1) <= Len(t)
    OBVIOUS
  <2>2. /\ SubSeq(t, 0 + 1, 0 + (i - 1)) \in Seq(STRING)
        /\ Len(SubSeq(t, 0 + 1, 0 + (i - 1))) = i - 1
    BY <2>1, PieceOf, Zenon
  <2>3. 0 + 1 = 1 /\ 0 + (i - 1) = i - 1
    OBVIOUS
  <2>. QED
    BY <2>2, <2>3, Zenon
<1>4. Len(host) = k - i - 1
  <2>. DEFINE m == k - i - 1
  <2>1. m \in Nat /\ i + m <= Len(t) /\ i + m = k - 1
    OBVIOUS
  <2>2. Len(SubSeq(t, i + 1, i + m)) = m
    <3>. HIDE DEF m
    <3>. QED
      BY <1>2, <2>1, PieceOf, Zenon
  <2>3. CASE k <= n
    <3>1. c # 0 /\ i + c - 1 = i + m
      BY <1>2, <2>3
    <3>2. host = SubSeq(t, i + 1, i + m)
      BY <3>1
    <3>. QED
      BY <2>2, <3>2
  <2>4. CASE ~(k <= n)
    <3>1. c = 0 /\ n = i + m
      BY <1>2, <2>4
    <3>2. host = SubSeq(t, i + 1, i + m)
      BY <3>1
    <3>. QED
      BY <2>2, <3>2
  <2>. QED
    BY <2>3, <2>4
<1>5. PortOk(port)
  <2>1. CASE k <= n
    <3>. DEFINE s == SubSeq(t, k + 1, n)
    <3>1. c # 0 /\ i + c = k
      BY <1>2, <2>1
    <3>2. port = Atoi(s)
      BY <3>1
    <3>3. s \in Seq(STRING)
      <4>1. k \in Nat /\ n - k \in Nat /\ k + (n - k) = n
        BY <1>2, <2>1
      <4>2. SubSeq(t, k + 1, k + (n - k)) \in Seq(STRING)
        BY <4>1, PieceOf
      <4>. QED
        BY <4>1, <4>2
    <3>4. Decimal(s) /\ Number(s) \in 1 .. MaxPort
      BY <1>2, <2>1
    <3>. HIDE DEF s
    <3>5. Atoi(s) = Number(s)
      <4>1. Number(s) < IntMod \div 2
        BY <3>4, DemoAssumption
      <4>. QED
        BY <3>3, <3>4, <4>1, AtoiHonest
    <3>. QED
      BY <3>2, <3>4, <3>5 DEF PortOk
  <2>2. CASE ~(k <= n)
    <3>1. port = 22
      BY <2>2
    <3>. QED
      BY <3>1, DemoAssumption DEF PortOk
  <2>. QED
    BY <2>1, <2>2
<1>6. Fits(user, UserSize) /\ Fits(host, HostSize)
  BY <1>3, <1>4 DEF Fits
<1>7. user # <<>>
  BY <1>3
<1>8. Parts(t, i, c) = [user |-> user, host |-> host, port |-> port]
  BY <1>5, <1>6 DEF Parts
<1>. HIDE DEF user, host, port, c
<1>9. ParseTarget(t).user = user
  BY <1>1, <1>8
<1>. QED
  BY <1>7, <1>9 DEF Refused

\* The address a is what the target t names, split at i and k.
Honours(t, i, k, a) ==
  /\ a.user = SubSeq(t, 1, i - 1) /\ Len(a.user) < UserSize
  /\ a.host = SubSeq(t, i + 1, k - 1) /\ Len(a.host) < HostSize
  /\ a.port \in 1 .. MaxPort
  /\ k \notin 1 .. Len(t) => a.port = 22
  /\ Decimal(SubSeq(t, k + 1, Len(t))) /\ Number(SubSeq(t, k + 1, Len(t))) < IntMod \div 2
       => a.port = Number(SubSeq(t, k + 1, Len(t)))

\* An address that is not refused is what the target names.
LEMMA AcceptedNamed ==
  ASSUME NEW t \in Seq(STRING), ParseTarget(t) # Refused
  PROVE  \E i \in 1 .. Len(t), k \in 1 .. Len(t) + 1 :
           /\ i < k /\ t[i] = "@" /\ (k \in 1 .. Len(t) => t[k] = ":")
           /\ \A j \in 1 .. i - 1 : t[j] # "@"
           /\ \A j \in i + 1 .. k - 1 : t[j] # ":"
           /\ Honours(t, i, k, ParseTarget(t))
<1>. DEFINE n == Len(t)
            i == First("@", t)
            hp == SubSeq(t, i + 1, Len(t))
            c == First(":", hp)
            k == IF c = 0 THEN n + 1 ELSE i + c
            user == SubSeq(t, 1, i - 1)
            host == IF c = 0 THEN SubSeq(t, i + 1, n) ELSE SubSeq(t, i + 1, i + c - 1)
            port == IF c = 0 THEN 22 ELSE Atoi(SubSeq(t, i + c + 1, n))
<1>1. i # 0
  <2>. SUFFICES ASSUME First("@", t) = 0 PROVE ParseTarget(t) = Refused
    OBVIOUS
  <2>. QED
    BY Zenon DEF ParseTarget
<1>2. i \in 1 .. n /\ c \in 0 .. n - i /\ ParseTarget(t) = Parts(t, i, c)
  BY <1>1, ParsedParts
<1>3. t[i] = "@" /\ \A j \in 1 .. i - 1 : t[j] # "@"
  <2>1. /\ i # 0 => t[i] = "@"
        /\ \A j \in 1 .. Len(t) : j < i \/ i = 0 => t[j] # "@"
    BY FirstIs
  <2>. HIDE DEF i
  <2>. QED
    BY <1>1, <1>2, <2>1
<1>4. Behind(t, i, hp)
  <2>1. i \in 0 .. Len(t)
    BY <1>2
  <2>. HIDE DEF i
  <2>. QED
    BY <2>1, BehindIs, Zenon
<1>. HIDE DEF i, hp
<1>5. hp \in Seq(STRING) /\ Len(hp) = n - i /\ \A j \in 1 .. Len(hp) : hp[j] = t[i + j]
  BY <1>4 DEF Behind
<1>6. /\ c # 0 => hp[c] = ":"
      /\ \A j \in 1 .. Len(hp) : j < c \/ c = 0 => hp[j] # ":"
  BY <1>5, FirstIs
<1>. HIDE DEF c
<1>7. i \in Nat /\ n \in Nat /\ c \in Nat /\ i \in 1 .. n /\ c \in 0 .. n - i
  BY <1>2
<1>8. k \in 1 .. n + 1 /\ i < k
  BY <1>7
<1>9. ASSUME k \in 1 .. n PROVE t[k] = ":"
  <2>1. c # 0 /\ k = i + c /\ c \in 1 .. Len(hp)
    BY <1>5, <1>7, <1>9
  <2>. HIDE DEF k
  <2>2. hp[c] = t[i + c]
    BY <1>5, <2>1, Zenon
  <2>. QED
    BY <1>6, <2>1, <2>2
<1>10. ASSUME NEW j \in i + 1 .. k - 1 PROVE t[j] # ":"
  <2>1. j - i \in 1 .. Len(hp) /\ (j - i < c \/ c = 0) /\ i + (j - i) = j
    BY <1>5, <1>7
  <2>2. hp[j - i] = t[i + (j - i)]
    BY <1>5, <2>1, Zenon
  <2>3. hp[j - i] # ":"
    BY <1>6, <2>1, Zenon
  <2>. QED
    BY <2>1, <2>2, <2>3
<1>11. Fits(user, UserSize) /\ Fits(host, HostSize) /\ PortOk(port)
  <2>1. Parts(t, i, c) # Refused
    BY <1>2
  <2>. QED
    BY <2>1, Zenon DEF Parts
<1>12. ParseTarget(t) = [user |-> user, host |-> host, port |-> port]
  BY <1>2, <1>11, Zenon DEF Parts
<1>13. host = SubSeq(t, i + 1, k - 1)
  <2>1. CASE c = 0
    BY <1>7, <2>1
  <2>2. CASE c # 0
    <3>1. host = SubSeq(t, i + 1, i + c - 1) /\ k = i + c
      BY <2>2
    <3>. HIDE DEF host, k
    <3>2. i + c - 1 = k - 1
      BY <1>7, <3>1
    <3>. QED
      BY <3>1, <3>2
  <2>. QED
    BY <2>1, <2>2
<1>14. k \notin 1 .. n => port = 22
  BY <1>7
<1>15. ASSUME Decimal(SubSeq(t, k + 1, n)), Number(SubSeq(t, k + 1, n)) < IntMod \div 2
       PROVE  port = Number(SubSeq(t, k + 1, n))
  <2>. DEFINE s == SubSeq(t, k + 1, n)
  <2>1. CASE c = 0
    <3>1. k + 1 = n + 2
      BY <1>7, <2>1
    <3>2. s = <<>>
      <4>1. n + 2 \in Int /\ n \in Int /\ n + 2 > n
        BY <1>7
      <4>2. SubSeq(t, n + 2, n) = <<>>
        <5>. HIDE DEF n
        <5>. QED
          BY <4>1, SubSeqEmpty
      <4>. QED
        BY <3>1, <4>2
    <3>. QED
      BY <1>15, <3>2 DEF Decimal
  <2>2. CASE c # 0
    <3>1. k = i + c /\ k <= n /\ port = Atoi(s)
      BY <1>7, <2>2
    <3>2. s \in Seq(STRING)
      <4>1. k \in Nat /\ n - k \in Nat /\ k + (n - k) = n /\ k + (n - k) <= Len(t)
        BY <1>7, <3>1
      <4>2. SubSeq(t, k + 1, k + (n - k)) \in Seq(STRING)
        <5>. HIDE DEF k
        <5>. QED
          BY <4>1, PieceOf
      <4>. QED
        BY <4>1, <4>2
    <3>. HIDE DEF s
    <3>3. Decimal(s) /\ Number(s) < IntMod \div 2
      BY <1>15 DEF s
    <3>4. Atoi(s) = Number(s)
      BY <3>2, <3>3, AtoiHonest
    <3>5. port = Number(s)
      BY <3>1, <3>4
    <3>. QED
      BY <3>5 DEF s
  <2>. QED
    BY <2>1, <2>2
<1>. HIDE DEF k, user, host, port, n
<1>16. Honours(t, i, k, ParseTarget(t))
  <2>1. Len(user) < UserSize /\ Len(host) < HostSize /\ port \in 1 .. MaxPort
    <3>1. UserSize \in Nat /\ HostSize \in Nat
      BY DemoAssumption
    <3>. QED
      BY <1>11, <3>1 DEF Fits, PortOk
  <2>2. /\ ParseTarget(t).user = user /\ ParseTarget(t).host = host
        /\ ParseTarget(t).port = port
    BY <1>12
  <2>. QED
    BY <1>13, <1>14, <1>15, <2>1, <2>2 DEF Honours, user, n
<1>. QED
  BY <1>2, <1>3, <1>8, <1>9, <1>10, <1>16 DEF n

-----------------------------------------------------------------------------
(* What the client does with its target.                                    *)

\* The labels of a program that has a connection, or had one
Connected == {"write", "read", "line", "done", "wait", "answer", "close", "returned",
              "failed", "died", "hung"}

LEMMA ExchangeLabels ==
  ASSUME NEW e, Exchange(e)
  PROVE  pc' = pc \/ \E l \in Connected : pc' = [pc EXCEPT ![e] = l]
<1>. USE DEF Goto, Connected
<1>1. CASE Write(e)
  BY <1>1, Zenon DEF Write
<1>2. CASE ReadByte(e)
  BY <1>2, Zenon DEF ReadByte, Receive
<1>3. CASE JudgeLine(e)
  <2>1. \E l \in {"failed", "read", "done"} : pc' = [pc EXCEPT ![e] = l]
    BY <1>3, Zenon DEF JudgeLine
  <2>. QED
    BY <2>1
<1>4. CASE PeerGone(e)
  BY <1>4 DEF PeerGone
<1>. QED
  BY <1>1, <1>2, <1>3, <1>4 DEF Exchange

LEMMA ProgramLabels ==
  ASSUME NEW e, Receives(e) \/ ReceivesNothing(e) \/ Close(e) \/ Die(e) \/ BreakDown(e)
  PROVE  \E l \in Connected : pc' = [pc EXCEPT ![e] = l]
<1>. USE DEF Goto
<1>1. \E l \in {"answer", "close", "returned", "failed", "died", "hung"} :
        pc' = [pc EXCEPT ![e] = l]
  <2>1. CASE Receives(e)
    BY <2>1, Zenon DEF Receives
  <2>2. CASE ReceivesNothing(e) \/ Close(e) \/ Die(e) \/ BreakDown(e)
    BY <2>2, Zenon DEF ReceivesNothing, Close, Die, BreakDown, Broken
  <2>. QED
    BY <2>1, <2>2
<1>. QED
  BY <1>1 DEF Connected

\* Only Parse makes the client refuse its target or go on to connect.
LEMMA OnlyParse ==
  ASSUME pc \in [End -> Phase], [DemoNext]_allVars, ~Parse,
         pc'["client"] \in {"usage", "connect"}
  PROVE  pc'["client"] = pc["client"] /\ target' = target /\ address' = address
<1>. DEFINE Same == target' = target /\ address' = address
            ByClient == \E l \in Connected : pc' = [pc EXCEPT !["client"] = l]
            ByServer == \E l : pc' = [pc EXCEPT !["server"] = l]
<1>1. "client" \in End /\ "server" \in End /\ "client" # "server" /\ DOMAIN pc = End
  BY DEF End
<1>2. ~ByClient
  BY <1>1 DEF Connected
<1>3. ByServer \/ pc' = pc => pc'["client"] = pc["client"]
  BY <1>1
<1>. HIDE DEF ByClient, ByServer
<1>4. ~Connect
  <2>1. Connect => \E l \in {"write", "failed"} : pc' = [pc EXCEPT !["client"] = l]
    BY Zenon DEF Connect, Goto
  <2>2. Connect => ByClient
    BY <2>1 DEF ByClient, Connected
  <2>. QED
    BY <1>2, <2>2
<1>5. ASSUME NEW e \in End,
             Receives(e) \/ ReceivesNothing(e) \/ Close(e) \/ Die(e) \/ BreakDown(e)
      PROVE  Same /\ (ByClient \/ ByServer)
  <2>1. Same
    BY <1>5, Zenon DEF Receives, ReceivesNothing, Close, Die, BreakDown
  <2>2. \E l \in Connected : pc' = [pc EXCEPT ![e] = l]
    BY <1>5, ProgramLabels
  <2>. QED
    BY <2>1, <2>2, Zenon DEF End, ByClient, ByServer
<1>6. ASSUME NEW e \in End, Exchange(e), UNCHANGED programVars
      PROVE  Same /\ (pc' = pc \/ ByClient \/ ByServer)
  <2>1. Same
    BY <1>6 DEF programVars
  <2>2. pc' = pc \/ \E l \in Connected : pc' = [pc EXCEPT ![e] = l]
    BY <1>6, ExchangeLabels
  <2>. QED
    BY <2>1, <2>2, Zenon DEF End, ByClient, ByServer
<1>7. CASE ClientSends
  <2>1. Same /\ pc' = [pc EXCEPT !["client"] = "wait"]
    BY <1>7, Zenon DEF ClientSends, SendCall, Goto
  <2>2. ByClient
    BY <2>1 DEF ByClient, Connected
  <2>. QED
    BY <1>2, <2>2
<1>8. CASE Listen \/ ServerWaits \/ ServerAnswers
  <2>1. Same /\ ByServer
    BY <1>8, Zenon DEF Listen, ServerWaits, ServerAnswers, SendCall, programVars, Goto, ByServer
  <2>. QED
    BY <1>3, <2>1
<1>9. CASE UNCHANGED allVars
  BY <1>9 DEF allVars, vars, programVars
<1>10. CASE ClientStep
  <2>1. ClientSends \/ (Same /\ (pc' = pc \/ ByClient \/ ByServer))
    BY <1>1, <1>5, <1>6, <1>10, Zenon DEF ClientStep
  <2>. QED
    BY <1>2, <1>3, <1>7, <2>1
<1>11. CASE ServerStep
  <2>1. \/ Listen \/ ServerWaits \/ ServerAnswers
        \/ Same /\ (pc' = pc \/ ByClient \/ ByServer)
    BY <1>1, <1>5, <1>6, <1>11, Zenon DEF ServerStep
  <2>. QED
    BY <1>2, <1>3, <1>8, <2>1
<1>12. ASSUME NEW e \in End, Die(e) \/ BreakDown(e)
       PROVE  Same /\ pc'["client"] = pc["client"]
  BY <1>2, <1>3, <1>5, <1>12, Zenon
<1>. QED
  BY <1>4, <1>9, <1>10, <1>11, <1>12, Zenon DEF DemoNext, DemoEnded

\* A client that refuses or connects has what parse_target makes of its target.
AddressInv ==
  pc["client"] \in {"usage", "connect"} =>
    /\ target \in Seq(STRING) /\ address = ParseTarget(target)
    /\ pc["client"] = "usage" <=> address = Refused

LEMMA AddressStep ==
  ASSUME DemoInv, AddressInv, [DemoNext]_allVars
  PROVE  AddressInv'
<1>1. pc \in [End -> Phase] /\ "client" \in End
  BY DEF DemoInv, ExchangeInv, IdentTypes, End
<1>2. CASE Parse
  <2>1. /\ address' = ParseTarget(target) /\ target' = target
        /\ pc' = [pc EXCEPT !["client"] = IF address' = Refused THEN "usage" ELSE "connect"]
    BY <1>2, Zenon DEF Parse, Goto
  <2>2. pc'["client"] = IF address' = Refused THEN "usage" ELSE "connect"
    BY <1>1, <2>1
  <2>3. target \in Seq(STRING)
    <3>1. <<>> \in Seq(STRING)
      OBVIOUS
    <3>. QED
      BY <3>1, DemoAssumption DEF DemoInv, ProgramTypes
  <2>. QED
    BY <2>1, <2>2, <2>3 DEF AddressInv
<1>3. CASE ~Parse
  <2>. SUFFICES ASSUME pc'["client"] \in {"usage", "connect"}
                PROVE  /\ target' \in Seq(STRING) /\ address' = ParseTarget(target')
                       /\ pc'["client"] = "usage" <=> address' = Refused
    BY DEF AddressInv
  <2>1. pc'["client"] = pc["client"] /\ target' = target /\ address' = address
    BY <1>1, <1>3, OnlyParse
  <2>. QED
    BY <2>1 DEF AddressInv
<1>. QED
  BY <1>2, <1>3

\* The client refuses no user@host and no user@host:port whose names fit their
\* buffers and whose port exists; where it connects, it is to the host and the port
\* that were named, 22 if no port was, the decimal number read as such if an int can
\* hold it.
THEOREM TargetKept == DemoSpec => []TargetHonoured
<1>1. DemoInit => AddressInv
  BY DEF DemoInit, AddressInv
<1>2. AddressInv => TargetHonoured
  <2>. SUFFICES ASSUME AddressInv PROVE TargetHonoured
    OBVIOUS
  <2>1. ASSUME pc["client"] = "usage", NEW x \in Splits,
               x.at - 1 \in 1 .. UserSize - 1, x.colon - x.at - 1 \in 1 .. HostSize - 1,
               x.colon \in DOMAIN target =>
                 Decimal(PortAt(x.colon)) /\ Number(PortAt(x.colon)) \in 1 .. MaxPort
        PROVE  FALSE
    <3>. DEFINE i == x.at
                k == x.colon
    <3>1. target \in Seq(STRING) /\ ParseTarget(target) = Refused
      BY <2>1 DEF AddressInv
    <3>2. DOMAIN target = 1 .. Len(target)
      BY <3>1
    <3>3. /\ i \in 1 .. Len(target) /\ k \in 1 .. Len(target) + 1 /\ i < k /\ target[i] = "@"
          /\ k \in 1 .. Len(target) => target[k] = ":"
          /\ \A j \in 1 .. i - 1 : target[j] # "@"
          /\ \A j \in i + 1 .. k - 1 : target[j] # ":"
      BY <3>2 DEF Splits
    <3>4. /\ i - 1 \in 1 .. UserSize - 1 /\ k - i - 1 \in 1 .. HostSize - 1
          /\ k \in 1 .. Len(target) =>
               /\ Decimal(SubSeq(target, k + 1, Len(target)))
               /\ Number(SubSeq(target, k + 1, Len(target))) \in 1 .. MaxPort
      BY <2>1, <3>2 DEF PortAt
    <3>. HIDE DEF i, k
    <3>5. ParseTarget(target) # Refused
      BY <3>1, <3>3, <3>4, FairAccepted, Zenon
    <3>. QED
      BY <3>1, <3>5
  <2>2. ASSUME pc["client"] = "connect"
        PROVE  \E x \in Splits :
                 /\ address.user = UserAt(x.at) /\ Len(address.user) < UserSize
                 /\ address.host = HostAt(x.at, x.colon) /\ Len(address.host) < HostSize
                 /\ address.port \in 1 .. MaxPort
                 /\ x.colon \notin DOMAIN target => address.port = 22
                 /\ Decimal(PortAt(x.colon)) /\ Number(PortAt(x.colon)) < IntMod \div 2
                      => address.port = Number(PortAt(x.colon))
    <3>1. target \in Seq(STRING) /\ address = ParseTarget(target) /\ address # Refused
      BY <2>2 DEF AddressInv
    <3>2. DOMAIN target = 1 .. Len(target)
      BY <3>1
    <3>3. PICK i \in 1 .. Len(target), k \in 1 .. Len(target) + 1 :
             /\ i < k /\ target[i] = "@" /\ (k \in 1 .. Len(target) => target[k] = ":")
             /\ \A j \in 1 .. i - 1 : target[j] # "@"
             /\ \A j \in i + 1 .. k - 1 : target[j] # ":"
             /\ Honours(target, i, k, address)
      BY <3>1, AcceptedNamed, Zenon
    <3>. DEFINE x == [at |-> i, colon |-> k]
    <3>4. x \in Splits
      BY <3>2, <3>3 DEF Splits
    <3>5. x.at = i /\ x.colon = k
      OBVIOUS
    <3>. HIDE DEF x
    <3>6. /\ address.user = UserAt(x.at) /\ Len(address.user) < UserSize
          /\ address.host = HostAt(x.at, x.colon) /\ Len(address.host) < HostSize
          /\ address.port \in 1 .. MaxPort
          /\ x.colon \notin DOMAIN target => address.port = 22
          /\ Decimal(PortAt(x.colon)) /\ Number(PortAt(x.colon)) < IntMod \div 2
               => address.port = Number(PortAt(x.colon))
      BY <3>2, <3>3, <3>5, Zenon DEF Honours, UserAt, HostAt, PortAt
    <3>. QED
      BY <3>4, <3>6
  <2>. QED
    BY <2>1, <2>2, Zenon DEF TargetHonoured
<1>3. DemoInv /\ AddressInv /\ [DemoNext]_allVars => AddressInv'
  BY AddressStep
<1>. QED
  BY <1>1, <1>2, <1>3, DemoInvariant, PTL DEF DemoSpec

=============================================================================
