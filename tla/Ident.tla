-------------------------------- MODULE Ident --------------------------------
(***************************************************************************)
(* The identification exchange that opens a connection: both ends run      *)
(* session_exchange_ident, each writes its identification string and then  *)
(* reads the peer's, a byte at a time, skipping lines that a proxy or the  *)
(* peer's implementation put before it.  What the programs do before and   *)
(* after the exchange is in Demo, which extends this module.               *)
(*                                                                         *)
(* Bytes are classes.  "S2" stands for "SSH-2.0-" or "SSH-1.99-", "S1" for *)
(* "SSH-" with another version, "x" for a printable character other than   *)
(* '-' and space, "ctl" for one that is not printable.                     *)
(***************************************************************************)
EXTENDS Integers, Sequences, FiniteSetsExt

CONSTANTS
  IdentMax,      \* SSH_IDENT_MAX, the longest line with its CR LF
  MaxAttempts,   \* lines read before the peer is given up
  Openings       \* what the two ends open with: for each end what comes before
                 \* its identification string, and the string with its line end

Byte == {"S1", "S2", "x", "-", " ", "ctl", "\r", "\n"}
Crlf == {"\r", "\n"}

End == {"client", "server"}
Peer(e) == IF e = "client" THEN "server" ELSE "client"

ASSUME IdentAssumption ==
  /\ IdentMax \in Nat /\ IdentMax > 2
  /\ MaxAttempts \in Nat \ {0}
  /\ Openings \subseteq [End -> [prefix : Seq(Byte), ident : Seq(Byte)]]
  /\ \A o \in Openings, e \in End :
       \* an identification string is one line and begins with "SSH-"; before it
       \* come whole lines, none that begins with "SSH-2.0-"
       /\ o[e].ident # <<>> /\ o[e].ident[1] \in {"S1", "S2"}
       /\ \A i \in DOMAIN o[e].ident : o[e].ident[i] = "\n" <=> i = Len(o[e].ident)
       /\ o[e].prefix # <<>> => o[e].prefix[Len(o[e].prefix)] = "\n"
       /\ \A i \in DOMAIN o[e].prefix :
            o[e].prefix[i] = "S2" => i > 1 /\ o[e].prefix[i - 1] # "\n"

VARIABLES
  ident,     \* each end's identification string (IDENT_STRING)
  prefix,    \* what comes before it
  pc,        \* each end's progress
  todo,      \* bytes of its identification string not yet written
  wire,      \* bytes on their way to an end
  line,      \* the line buffer
  attempt,   \* lines skipped
  known,     \* an end's V_C and V_S
  consumed   \* history: bytes an end has read

vars == <<ident, prefix, pc, todo, wire, line, attempt, known, consumed>>

-----------------------------------------------------------------------------
(* Pure part: ident_strip_crlf and session_ident_check.                     *)

IdentStrip(s) == SubSeq(s, 1, Max({0} \cup {i \in DOMAIN s : s[i] \notin Crlf}))

\* Mutant: '-' is refused in comments too.
CommentByteNoDash(c) == c \in {"x", " "}

SoftwareByte(c) == c = "x"
CommentByte(c) == c \in {"x", "-", " "}

IdentCheck(s) ==
  LET t == IdentStrip(s)
      spaces == {i \in DOMAIN t : t[i] = " "}
      end == IF spaces = {} THEN Len(t) + 1 ELSE Min(spaces)
  IN
  /\ Len(t) \in 2 .. IdentMax - 2
  /\ t[1] = "S2"
  /\ \A i \in 2 .. end - 1 : SoftwareByte(t[i])
  /\ \A i \in end .. Len(t) : CommentByte(t[i])

-----------------------------------------------------------------------------
\* Everything but where the two ends are
Opened ==
  /\ \E o \in Openings :
       /\ ident = [e \in End |-> o[e].ident]
       /\ prefix = [e \in End |-> o[e].prefix]
  /\ todo = ident
  /\ wire = [e \in End |-> prefix[Peer(e)]]
  /\ line = [e \in End |-> <<>>]
  /\ attempt = [e \in End |-> 0]
  /\ known = [e \in End |-> [id \in End |-> <<>>]]
  /\ consumed = [e \in End |-> <<>>]

Init == Opened /\ pc = [e \in End |-> "write"]

Goto(e, l) == pc' = [pc EXCEPT ![e] = l]

\* One send() of net_write_full; after the last the end notes its own string.
Write(e) ==
  /\ pc[e] = "write"
  /\ \E n \in 1 .. Len(todo[e]) :
       /\ todo' = [todo EXCEPT ![e] = SubSeq(@, n + 1, Len(@))]
       /\ wire' = [wire EXCEPT ![Peer(e)] = @ \o SubSeq(todo[e], 1, n)]
       /\ LET own == IdentStrip(ident[e]) IN
          IF n < Len(todo[e])
          THEN UNCHANGED <<pc, known>>
          ELSE IF Len(own) > IdentMax - 2
          THEN Goto(e, "failed") /\ UNCHANGED known
          ELSE Goto(e, "read") /\ known' = [known EXCEPT ![e][e] = own]
  /\ UNCHANGED <<ident, prefix, line, attempt, consumed>>

\* Mutant: no place left for the NUL.
LineFullLate(s) == Len(s) = IdentMax + 2 \/ s[Len(s)] = "\n"

LineFull(s) == Len(s) = IdentMax + 1 \/ s[Len(s)] = "\n"

\* A recv() that takes n bytes; what follows a line end is lost to the caller.
Receive(e, n) ==
  LET got == SubSeq(wire[e], 1, n) IN
  /\ pc[e] = "read" /\ wire[e] # <<>>
  /\ line' = [line EXCEPT ![e] = @ \o IF got[1] = "\n" THEN <<"\n">> ELSE got]
  /\ consumed' = [consumed EXCEPT ![e] = @ \o got]
  /\ wire' = [wire EXCEPT ![e] = SubSeq(@, n + 1, Len(@))]
  /\ IF LineFull(line'[e]) THEN Goto(e, "line") ELSE UNCHANGED pc
  /\ UNCHANGED <<ident, prefix, todo, attempt, known>>

\* Mutant: a recv() that asks for two bytes.
ReadByteAhead(e) == Receive(e, Min({2, Len(wire[e])}))

\* One recv() in net_read_line
ReadByte(e) == Receive(e, 1)

\* Mutants: the line end is stored; one line too many, or too few, is skipped.
StoredRaw(s) == s
OutOfAttemptsLate(n) == n > MaxAttempts
OutOfAttemptsEarly(n) == n = MaxAttempts - 1

Stored(s) == IdentStrip(s)
OutOfAttempts(n) == n = MaxAttempts
CutOff(s) == s[Len(s)] # "\n"

\* net_read_line has returned a line.
JudgeLine(e) ==
  /\ pc[e] = "line"
  /\ LET s == line[e] IN
     \/ /\ CutOff(s)
        /\ Goto(e, "failed") /\ UNCHANGED <<line, attempt, known>>
     \/ /\ ~CutOff(s) /\ s[1] \notin {"S1", "S2"}
        /\ attempt' = [attempt EXCEPT ![e] = @ + 1]
        /\ Goto(e, IF OutOfAttempts(attempt[e] + 1) THEN "failed" ELSE "read")
        /\ line' = [line EXCEPT ![e] = <<>>]
        /\ UNCHANGED known
     \/ /\ ~CutOff(s) /\ s[1] \in {"S1", "S2"} /\ ~IdentCheck(s)
        /\ Goto(e, "failed") /\ UNCHANGED <<line, attempt, known>>
     \/ /\ ~CutOff(s) /\ s[1] \in {"S1", "S2"} /\ IdentCheck(s)
        /\ Goto(e, "done")
        /\ known' = [known EXCEPT ![e][Peer(e)] = Stored(s)]
        /\ UNCHANGED <<line, attempt>>
  /\ UNCHANGED <<ident, prefix, todo, wire, consumed>>

OnlyGoto == UNCHANGED <<ident, prefix, todo, wire, line, attempt, known, consumed>>

\* The socket is closed: the caller closes it when the exchange fails and when it
\* returns, the system when the program dies.
Closed(e) == pc[e] \in {"failed", "returned", "died"}

\* A recv() of the other end returns 0 once the stream is drained, or it and a
\* send() fail (reset).
PeerGone(e) ==
  /\ pc[e] \in {"write", "read"} /\ Closed(Peer(e))
  /\ Goto(e, "failed")
  /\ OnlyGoto

\* The connection breaks under a send() or a recv().
Broken(e) ==
  /\ pc[e] \in {"write", "read"}
  /\ Goto(e, "failed")
  /\ OnlyGoto

Ended ==
  /\ \A e \in End : pc[e] \in {"done", "failed"}
  /\ UNCHANGED vars

Exchange(e) == Write(e) \/ ReadByte(e) \/ JudgeLine(e) \/ PeerGone(e)

Next == (\E e \in End : Exchange(e) \/ Broken(e)) \/ Ended

Spec == Init /\ [][Next]_vars

-----------------------------------------------------------------------------
(* Properties.                                                              *)

\* Every variable but pc and wire holds a value of its type, and the line fits
\* its buffer.
IdentTypeOK ==
  /\ ident \in [End -> Seq(Byte)] /\ prefix \in [End -> Seq(Byte)]
  /\ todo \in [End -> Seq(Byte)]
  /\ line \in [End -> Seq(Byte)]
  \* line[SSH_IDENT_MAX + 2] holds the line and a NUL
  /\ \A e \in End : Len(line[e]) + 1 <= IdentMax + 2
  /\ attempt \in [End -> 0 .. MaxAttempts]
  /\ known \in [End -> [End -> Seq(Byte)]]
  /\ consumed \in [End -> Seq(Byte)]

\* session_exchange_ident has returned 0.
Succeeded(e) == known[e][Peer(e)] # <<>>

\* When both ends succeed they hold the same V_C and V_S, byte for byte: the
\* exchange hash of the key exchange is computed over both.
Agreement ==
  (\A e \in End : Succeeded(e)) => known["client"] = known["server"]

\* An end that succeeds has taken exactly the bytes up to the end of the
\* peer's identification string off the stream: a packet that follows at once,
\* with line ends in it, is left whole for session_recv.
PacketsLeftUnread ==
  \A e \in End : Succeeded(e) =>
    consumed[e] = prefix[Peer(e)] \o ident[Peer(e)]

\* The lines of a byte sequence
LineEnds(s) == {i \in DOMAIN s : s[i] = "\n"}
LineAt(s, i) ==
  SubSeq(s, Max({0} \cup {j \in LineEnds(s) : j < i}) + 1, i)
LinesOf(s) == {LineAt(s, i) : i \in LineEnds(s)}

\* RFC 4253 section 4.2, the reference for session_ident_check: version 2.0 or
\* 1.99, a software version without '-', a space before comments, CR LF.
RfcIdent(s) ==
  \E n \in 3 .. Len(s) - 1 :   \* where the software version ends
    /\ s[1] = "S2" /\ \A i \in 2 .. n - 1 : s[i] = "x"
    /\ s[n] \in {" ", "\r"}
    /\ \A i \in n .. Len(s) - 2 : s[i] \in {"x", "-", " "}
    /\ SubSeq(s, Len(s) - 1, Len(s)) = <<"\r", "\n">>

\* The peer's half is as the RFC has it: fewer than MaxAttempts lines before
\* the identification string, none too long and none that begins with "SSH-".
Tolerable(e) ==
  /\ Cardinality(LineEnds(prefix[e])) < MaxAttempts
  /\ \A s \in LinesOf(prefix[e]) :
       Len(s) <= IdentMax /\ s[1] \notin {"S1", "S2"}
  /\ RfcIdent(ident[e]) /\ Len(ident[e]) <= IdentMax

\* A peer that keeps to the RFC is accepted, whatever its string and the lines
\* before it: an end that gives up has lost the connection.
RfcPeersAccepted ==
  [][\A e \in End :
       Tolerable(Peer(e)) /\ pc[e] = "line" => pc'[e] # "failed"]_vars

\* A peer that keeps sending lines, or one that does not speak SSH-2, is never
\* accepted.
NoJunkAccepted ==
  \A e \in End : Succeeded(e) =>
    /\ Cardinality(LineEnds(prefix[Peer(e)])) < MaxAttempts
    /\ ident[Peer(e)][1] = "S2"
    /\ LET t == IdentStrip(ident[Peer(e)]) IN
       \A i \in DOMAIN t :
         /\ t[i] \notin {"ctl", "\r"}
         /\ t[i] = "-" => \E k \in 2 .. i : t[k] = " "

\* What test_phase3.c lists as invalid is not accepted: "a line longer than 255
\* bytes is never accepted", and an "empty softwareversion" is refused.
InvalidRefused ==
  \A e \in End : Succeeded(e) =>
    /\ Len(ident[Peer(e)]) <= IdentMax
    /\ known[e][Peer(e)][2] = "x"
=============================================================================
