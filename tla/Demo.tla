--------------------------------- MODULE Demo ---------------------------------
(***************************************************************************)
(* The two programs of main.c over one connection.  The server listens and  *)
(* accepts, the client takes user@host[:port] apart and connects; both run *)
(* session_exchange_ident (module Ident); the client sends one packet and   *)
(* waits for one, the server waits for one and answers it; both close.     *)
(*                                                                         *)
(* A packet on the wire is a symbol that stands for its payload, and bytes *)
(* like those of an identification line behind it.  session_send and       *)
(* session_recv are one step each, with the outcomes they have in Session  *)
(* and Framing for a plaintext packet.                                     *)
(***************************************************************************)
EXTENDS Ident

CONSTANTS
  Targets,              \* arguments of "coalesce connect", as characters
  UserSize, HostSize,   \* sizes of user[] and host[]
  MaxPort,              \* 65535
  IntMod, LongMod,      \* 2^32 and 2^64, the values of an int and of a long
  Body                  \* the bytes of a packet after the symbol

ASSUME DemoAssumption ==
  /\ Targets \subseteq Seq(STRING)
  /\ UserSize \in Nat /\ HostSize \in Nat
  /\ MaxPort \in Nat /\ MaxPort >= 22
  /\ IntMod \in Nat /\ LongMod \in Nat
  /\ MaxPort < IntMod \div 2 /\ IntMod <= LongMod
  /\ Body \in Seq(Byte) /\ Body # <<>>

VARIABLES
  target,     \* argv[2] of the client
  address,    \* what parse_target has made of it
  connected,  \* the client's connect() has succeeded
  lost,       \* the connection has been reset
  sent,       \* what has become of an end's packet
  got,        \* the payload an end has received
  trouble     \* history: something outside the two programs has failed

programVars == <<target, address, connected, lost, sent, got, trouble>>
allVars == <<vars, programVars>>

Payload == {"IGNORE", "DEBUG", "junk"}
Frame(p) == <<p>> \o Body
FrameLen == Len(Body) + 1

-----------------------------------------------------------------------------
(* parse_target                                                             *)

Digits == <<"0", "1", "2", "3", "4", "5", "6", "7", "8", "9">>
Value(c) == CHOOSE v \in 0 .. 9 : Digits[v + 1] = c
IsDigit(c) == \E i \in DOMAIN Digits : Digits[i] = c

\* What is behind the blanks that strtol skips; "ws" stands for a character that
\* isspace knows.
PastBlanks(s) ==
  SubSeq(s, Min({k \in 1 .. Len(s) + 1 : k \in DOMAIN s => s[k] # "ws"}), Len(s))

\* A sign, then digits as far as there are any
Collected(s) ==
  LET signed == s # <<>> /\ s[1] \in {"-", "+"}
      rest == IF signed THEN Tail(s) ELSE s
      n == Max({k \in 0 .. Len(rest) : \A i \in 1 .. k : IsDigit(rest[i])})
      number[k \in 0 .. n] == IF k = 0 THEN 0 ELSE 10 * number[k - 1] + Value(rest[k])
  IN IF signed /\ s[1] = "-" THEN -number[n] ELSE number[n]

\* strtol stops at the limits of a long,
AsLong(n) ==
  LET half == LongMod \div 2
  IN IF n >= half THEN half - 1 ELSE IF n < -half THEN -half ELSE n
\* and a long that is made an int loses its upper half.
AsInt(n) == LET m == n % IntMod IN IF m < IntMod \div 2 THEN m ELSE m - IntMod

\* atoi of the C library the program is built with, (int) strtol(s, NULL, 10)
Atoi(s) == AsInt(AsLong(Collected(PastBlanks(s))))

\* strchr, 0 for NULL
First(c, s) == LET at == {i \in DOMAIN s : s[i] = c} IN IF at = {} THEN 0 ELSE Min(at)

Refused == [user |-> <<>>, host |-> <<>>, port |-> 0]

\* Mutant: no place left for the NUL.
FitsFull(s, size) == Len(s) \in 1 .. size

Fits(s, size) == Len(s) \in 1 .. size - 1
PortOk(n) == n \in 1 .. MaxPort

ParseTarget(t) ==
  LET at == First("@", t)
      user == SubSeq(t, 1, at - 1)
      hp == SubSeq(t, at + 1, Len(t))
      colon == First(":", hp)
      host == IF colon = 0 THEN hp ELSE SubSeq(hp, 1, colon - 1)
      port == IF colon = 0 THEN 22 ELSE Atoi(SubSeq(hp, colon + 1, Len(hp)))
  IN IF at # 0 /\ Fits(user, UserSize) /\ Fits(host, HostSize) /\ PortOk(port)
     THEN [user |-> user, host |-> host, port |-> port] ELSE Refused

-----------------------------------------------------------------------------
(* Until there is a connection                                              *)

DemoInit ==
  /\ Opened
  /\ pc = [client |-> "start", server |-> "start"]
  /\ target \in Targets /\ address = Refused
  /\ connected = FALSE /\ lost = FALSE /\ trouble = FALSE
  /\ sent = [e \in End |-> "nothing"]
  /\ got = [e \in End |-> "nothing"]

\* main: the usage message, and 1 is returned, if the target cannot be parsed.
Parse ==
  /\ pc["client"] = "start"
  /\ address' = ParseTarget(target)
  /\ Goto("client", IF address' = Refused THEN "usage" ELSE "connect")
  /\ OnlyGoto /\ UNCHANGED <<target, connected, lost, sent, got, trouble>>

\* net_connect; the strings are not read again.
Connect ==
  /\ pc["client"] = "connect"
  /\ \/ /\ pc["server"] = "accept"
        /\ Goto("client", "write") /\ connected' = TRUE /\ UNCHANGED trouble
     \/ /\ Goto("client", "failed") /\ trouble' = TRUE /\ UNCHANGED connected
  /\ target' = <<>> /\ address' = Refused
  /\ OnlyGoto /\ UNCHANGED <<lost, sent, got>>

\* net_listen and net_accept; the server waits for a client as long as it takes.
Listen ==
  /\ pc["server"] = "start" \/ (pc["server"] = "accept" /\ connected)
  /\ \/ /\ Goto("server", IF pc["server"] = "start" THEN "accept" ELSE "write")
        /\ UNCHANGED trouble
     \/ /\ Goto("server", "failed") /\ trouble' = TRUE
  /\ OnlyGoto /\ UNCHANGED <<target, address, connected, lost, sent, got>>

-----------------------------------------------------------------------------
(* After the exchange                                                       *)

\* session_send_buf of payload p: all is written, to a peer that may have closed;
SendAll(e, p) ==
  /\ ~lost
  /\ wire' = [wire EXCEPT ![Peer(e)] = @ \o Frame(p)]
  /\ sent' = [sent EXCEPT ![e] = "all"]
  /\ trouble' = (trouble \/ p = "junk")
  /\ UNCHANGED lost

\* ... malloc or rand_bytes fails before anything is written;
SendNothing(e) ==
  /\ sent' = [sent EXCEPT ![e] = "none"]
  /\ trouble' = TRUE
  /\ UNCHANGED <<wire, lost>>

\* ... or the connection breaks on the way.
SendPart(e, p) ==
  /\ \E n \in 0 .. FrameLen - 1 :
       wire' = [wire EXCEPT ![Peer(e)] = @ \o SubSeq(Frame(p), 1, n)]
  /\ sent' = [sent EXCEPT ![e] = "part"]
  /\ lost' = TRUE /\ trouble' = TRUE

\* The payload is built in a buffer nobody has checked: if malloc fails in buf_init
\* its length and capacity are what was on the stack, and anything may be sent.
SendCall(e, p) ==
  /\ \/ \E q \in {p, "junk"} : SendAll(e, q)
     \/ SendNothing(e)
     \/ SendPart(e, p)
  /\ UNCHANGED <<ident, prefix, todo, line, attempt, known, consumed>>
  /\ UNCHANGED <<target, address, connected, got>>

\* The result of session_send_buf is printed, at most: the client goes on to wait
\* for an answer, the server to its end.
ClientSends == pc["client"] = "done" /\ Goto("client", "wait") /\ SendCall("client", "IGNORE")
ServerAnswers == pc["server"] = "answer" /\ Goto("server", "close") /\ SendCall("server", "DEBUG")

ServerWaits ==
  /\ pc["server"] = "done" /\ Goto("server", "wait")
  /\ OnlyGoto /\ UNCHANGED programVars

\* Mutant: a read that stops short is taken for a packet.
ArrivedSome(e) == wire[e] # <<>>

\* net_read_full has what it wants.
Arrived(e) == Len(wire[e]) >= FrameLen

\* Mutant: the packet's last byte is left in the socket.
TakeFrameShort(e) == wire' = [wire EXCEPT ![e] = SubSeq(@, FrameLen, Len(@))]

TakeFrame(e) == wire' = [wire EXCEPT ![e] = SubSeq(@, FrameLen + 1, Len(@))]

\* session_recv returns 0.
Receives(e) ==
  /\ pc[e] = "wait" /\ Arrived(e)
  /\ got' = [got EXCEPT ![e] = wire[e][1]]
  /\ TakeFrame(e)
  /\ Goto(e, IF e = "server" THEN "answer" ELSE "close")
  /\ UNCHANGED <<ident, prefix, todo, line, attempt, known, consumed>>
  /\ UNCHANGED <<target, address, connected, lost, sent, trouble>>

\* Mutant: recv() that returns 0 is tried again.
StreamEndedNever(e) == lost

\* The rest of the packet will not come.
StreamEnded(e) == lost \/ Closed(Peer(e))

\* session_recv returns -1: the stream has ended, or there is no memory for a
\* packet that has arrived.  The client does not even print it.
ReceivesNothing(e) ==
  /\ pc[e] = "wait"
  /\ \/ /\ ~Arrived(e) /\ StreamEnded(e)
        /\ UNCHANGED <<wire, lost, trouble>>
     \/ /\ Arrived(e) /\ TakeFrame(e)
        /\ trouble' = TRUE /\ UNCHANGED lost
  /\ Goto(e, "close")
  /\ UNCHANGED <<ident, prefix, todo, line, attempt, known, consumed>>
  /\ UNCHANGED <<target, address, connected, sent, got>>

\* net_close, and 0 is returned.  With bytes not read there is a reset, and the peer
\* may lose what was sent before (BreakDown).
Close(e) ==
  /\ pc[e] = "close" /\ Goto(e, "returned")
  /\ lost' = (lost \/ wire[e] # <<>>)
  /\ OnlyGoto /\ UNCHANGED <<target, address, connected, sent, got, trouble>>

\* The program dies: of SIGPIPE, in a send() on a connection its peer has closed
\* or that is lost, or in a buffer that buf_init could not allocate.  In such a
\* buffer it may also stay for ever: buf_reserve doubles a capacity that has come
\* to 0 without end.
Die(e) ==
  /\ \/ pc[e] = "write" /\ (lost \/ Closed(Peer(e))) /\ Goto(e, "died")
     \/ pc[e] \in {"done", "answer", "wait"} /\ (Goto(e, "died") \/ Goto(e, "hung"))
  /\ trouble' = TRUE
  /\ OnlyGoto /\ UNCHANGED <<target, address, connected, lost, sent, got>>

\* TCP resets a connection that was closed with bytes not read, also if they came
\* after the close.
ResetBy(p) == Closed(p) /\ wire[p] # <<>>

\* The connection breaks, for both, under a call of e: because of the peer's close,
\* or from outside.  What has arrived for e and was not read is gone with it.
BreakDown(e) ==
  /\ \/ Broken(e)
     \/ pc[e] = "wait" /\ Goto(e, "close") /\ OnlyGoto
  /\ lost' = TRUE
  /\ trouble' = (trouble \/ ~ResetBy(Peer(e)))
  /\ UNCHANGED <<target, address, connected, sent, got>>

-----------------------------------------------------------------------------
\* What a program that has started does next, if nothing kills it
ClientStep ==
  \/ ClientSends
  \/ Exchange("client") /\ UNCHANGED programVars
  \/ Receives("client") \/ ReceivesNothing("client") \/ Close("client")

ServerStep ==
  \/ Listen \/ ServerWaits \/ ServerAnswers
  \/ Exchange("server") /\ UNCHANGED programVars
  \/ Receives("server") \/ ReceivesNothing("server") \/ Close("server")

Over(e) == Closed(e) \/ pc[e] \in {"usage", "hung"}

\* A server that nobody connects to waits in accept(); two programs that wait for
\* each other's packet stay there, as does one whose peer hangs.
DemoEnded ==
  /\ \/ /\ Over("client") /\ (Over("server") \/ pc["server"] = "accept")
     \/ \A e \in End : pc[e] \in {"wait", "hung"}
  /\ UNCHANGED allVars

DemoNext ==
  \/ Parse \/ Connect
  \/ ClientStep \/ ServerStep
  \/ \E e \in End : Die(e) \/ BreakDown(e)
  \/ DemoEnded

\* The operating system schedules both programs; nobody need start a client.
DemoSpec ==
  /\ DemoInit /\ [][DemoNext]_allVars
  /\ WF_allVars(ClientStep) /\ WF_allVars(ServerStep)

-----------------------------------------------------------------------------
(* Properties.                                                              *)

\* Every variable holds a value of its type; an end receives a payload, not
\* bytes from the middle of a packet.
TypeOK ==
  /\ IdentTypeOK
  /\ pc \in [End -> {"start", "usage", "connect", "accept", "write", "read", "line",
                     "done", "wait", "answer", "close", "returned", "failed", "died", "hung"}]
  /\ wire \in [End -> Seq(Byte \cup Payload)]
  /\ target \in Targets \cup {<<>>} /\ address.port \in 0 .. MaxPort
  /\ connected \in BOOLEAN /\ lost \in BOOLEAN /\ trouble \in BOOLEAN
  /\ sent \in [End -> {"nothing", "all", "none", "part"}]
  /\ got \in [End -> Payload \cup {"nothing"}]

\* What comes before position i of the target, between i and k, and behind k
UserAt(i) == SubSeq(target, 1, i - 1)
HostAt(i, k) == SubSeq(target, i + 1, k - 1)
PortAt(k) == SubSeq(target, k + 1, Len(target))
Splits ==
  {x \in [at : DOMAIN target, colon : 1 .. Len(target) + 1] :
     /\ x.at < x.colon /\ target[x.at] = "@"
     /\ x.colon \in DOMAIN target => target[x.colon] = ":"
     /\ \A j \in 1 .. x.at - 1 : target[j] # "@"
     /\ \A j \in x.at + 1 .. x.colon - 1 : target[j] # ":"}

Decimal(s) == s # <<>> /\ \A i \in DOMAIN s : IsDigit(s[i])
\* Each digit is worth ten times what the one behind it is.
Number(s) ==
  LET worth[k \in 0 .. Len(s)] == IF k = 0 THEN 1 ELSE 10 * worth[k - 1]
      last[k \in 0 .. Len(s)] ==
        IF k = 0 THEN 0 ELSE last[k - 1] + Value(s[Len(s) - k + 1]) * worth[k - 1]
  IN last[Len(s)]

\* The client refuses no user@host and no user@host:port whose names fit their
\* buffers with a NUL and whose port exists; where it connects, it is to the host
\* that was named, on a port that exists, the names fit, and the port is 22 if none
\* was named, or the decimal number named if an int can hold that.  (What atoi makes
\* of a longer number may be a port too: nobody promises that it is refused.)
TargetHonoured ==
  /\ pc["client"] = "usage" => \A x \in Splits :
       \/ x.at - 1 \notin 1 .. UserSize - 1 \/ x.colon - x.at - 1 \notin 1 .. HostSize - 1
       \/ /\ x.colon \in DOMAIN target
          /\ ~(Decimal(PortAt(x.colon)) /\ Number(PortAt(x.colon)) \in 1 .. MaxPort)
  /\ pc["client"] = "connect" => \E x \in Splits :
       /\ address.user = UserAt(x.at) /\ Len(address.user) < UserSize
       /\ address.host = HostAt(x.at, x.colon) /\ Len(address.host) < HostSize
       /\ address.port \in 1 .. MaxPort
       /\ x.colon \notin DOMAIN target => address.port = 22
       /\ Decimal(PortAt(x.colon)) /\ Number(PortAt(x.colon)) < IntMod \div 2
            => address.port = Number(PortAt(x.colon))

\* Who prints the other's packet knows that the other has sent it in full, and a
\* client that prints the answer that the server has had its own packet.
EchoMeansDelivered ==
  /\ \A e \in End : got[e] # "nothing" => sent[Peer(e)] = "all"
  /\ got["client"] # "nothing" => got["server"] # "nothing"

\* If nothing fails outside the two programs and both write what RFC 4253 allows,
\* both return 0 and each has received the other's packet.  The server closes right
\* behind its answer: it must have read everything by then, or the reset may take
\* the answer along.
EchoArrives ==
  /\ \A e \in End : Closed(e) /\ Tolerable(e)
  /\ ~trouble
  => /\ \A e \in End : pc[e] = "returned"
     /\ got["server"] = "IGNORE" /\ got["client"] = "DEBUG"

\* Two programs that have a connection both end, unless the client's session_send
\* has failed before it wrote anything: then it waits for an answer to a packet
\* that the server waits for.  Or one of them hangs in a buffer it could not allocate.
ProgramsEnd ==
  connected ~> \/ \A e \in End : Closed(e)
               \/ sent["client"] = "none" \/ \E e \in End : pc[e] = "hung"
=============================================================================
