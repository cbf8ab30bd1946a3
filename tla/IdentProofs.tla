----------------------------- MODULE IdentProofs -----------------------------
(***************************************************************************)
(* The invariant of the identification exchange, for every length of line, *)
(* number of attempts and pair of openings, and theorems that follow.  It  *)
(* is stated for the programs around the exchange too: the phases they add *)
(* are among those named here, and what they write behind the              *)
(* identification string may be any symbol.  DemoProofs extends this.      *)
(***************************************************************************)
EXTENDS Ident, FiniteSetTheorems, SequenceTheorems, WellFoundedInduction, TLAPS

(* Where an end is.                                                         *)

Unread == {"start", "connect", "accept", "write"}
Reading == {"read", "line"}
Past == {"done", "wait"}
\* An end that has written its identification string
HasWritten == {"read", "line", "done", "wait", "answer", "close"}
Phase == Unread \cup Reading \cup Past
           \cup {"answer", "close", "usage", "returned", "failed", "died", "hung"}

\* What may be on the wire: the payloads of Demo's packets as well.
Symbol == Byte \cup {"IGNORE", "DEBUG", "junk"}

\* What the peer p sends before anything else, in bytes; how much of it there is
\* before the identification string, and in all
Opening(o, p) == o[p].prefix \o o[p].ident
Start(o, p) == Len(o[p].prefix)
Total(o, p) == Len(o[p].prefix) + Len(o[p].ident)

\* How much of it has been written
Written(o, p) == Total(o, p) - Len(todo[p])

\* Bytes that e has read, and how many of them in lines that it has skipped
Count(e) == Len(consumed[e])
Skipped(e) == Len(consumed[e]) - Len(line[e])

\* The places of line ends in the first n bytes
Ends(s, n) == {i \in 1 .. n : s[i] = "\n"}

-----------------------------------------------------------------------------
(* The invariant, of an end e and its peer p, with the openings o.          *)

IdentTypes ==
  /\ todo \in [End -> Seq(Byte)] /\ wire \in [End -> Seq(Symbol)]
  /\ line \in [End -> Seq(Byte)] /\ consumed \in [End -> Seq(Byte)]
  /\ attempt \in [End -> 0 .. MaxAttempts] /\ known \in [End -> [End -> Seq(Byte)]]
  /\ pc \in [End -> Phase]
  /\ \A e \in End : Len(line[e]) <= IdentMax + 1

OpenedBy(o) ==
  /\ ident = [e \in End |-> o[e].ident]
  /\ prefix = [e \in End |-> o[e].prefix]

\* The end of the identification string remains to be written.
WriteInv(o, e) ==
  /\ Len(todo[e]) <= Len(o[e].ident)
  /\ \A j \in 1 .. Len(todo[e]) : todo[e][j] = Opening(o, e)[Written(o, e) + j]
  /\ pc[e] \in HasWritten => todo[e] = <<>>

\* What is read and what is on its way are the peer's opening, as far as it is
\* written; more follows only when all of it is.
StreamInv(o, e, p) ==
  pc[e] \in Unread \cup Reading \cup Past =>
    /\ Count(e) + Len(wire[e]) >= Written(o, p)
    /\ todo[p] # <<>> => Count(e) + Len(wire[e]) = Written(o, p)
    /\ \A j \in 1 .. Len(wire[e]) :
         Count(e) + j <= Total(o, p) => wire[e][j] = Opening(o, p)[Count(e) + j]

\* An end reads no further than the peer's opening.
ConsumedInv(o, e, p) ==
  /\ Count(e) <= Total(o, p)
  /\ \A j \in 1 .. Count(e) : consumed[e][j] = Opening(o, p)[j]

\* The line being read begins where a line of the opening begins, not behind
\* the identification string, and has no line end but its last byte; as many
\* lines were skipped before it as attempts are counted.  It is judged when it ends or
\* has no more room.
LineInv(o, e, p) ==
  pc[e] \in Unread \cup Reading =>
    /\ Len(line[e]) <= Count(e) /\ Skipped(e) <= Start(o, p)
    /\ \A j \in 1 .. Len(line[e]) : line[e][j] = Opening(o, p)[Skipped(e) + j]
    /\ Skipped(e) > 0 => Opening(o, p)[Skipped(e)] = "\n"
    /\ \A j \in 1 .. Len(line[e]) - 1 : line[e][j] # "\n"
    /\ pc[e] = "line" => Len(line[e]) >= 1 /\ LineFull(line[e])
    /\ pc[e] # "line" =>
         Len(line[e]) <= IdentMax /\ (Len(line[e]) > 0 => line[e][Len(line[e])] # "\n")
    /\ attempt[e] < MaxAttempts
    /\ attempt[e] = Cardinality(Ends(Opening(o, p), Skipped(e)))
    /\ known[e][p] = <<>>

\* An end that succeeds has read all of the opening and nothing more, has
\* skipped every line before the identification string, and knows both strings.
SuccessInv(o, e, p) ==
  /\ known[e][p] # <<>> =>
       /\ Count(e) = Total(o, p)
       /\ known[e][p] = IdentStrip(o[p].ident) /\ known[e][e] = IdentStrip(o[e].ident)
       /\ IdentCheck(o[p].ident)
       /\ Cardinality(Ends(Opening(o, p), Start(o, p))) < MaxAttempts
  /\ pc[e] \in Reading => known[e][e] = IdentStrip(o[e].ident)
  /\ pc[e] \in Past \cup {"answer"} => known[e][p] # <<>>

EndInv(o, e, p) ==
  /\ WriteInv(o, e) /\ StreamInv(o, e, p) /\ ConsumedInv(o, e, p)
  /\ LineInv(o, e, p) /\ SuccessInv(o, e, p)

ExchangeInv ==
  /\ IdentTypes
  /\ \E o \in Openings : OpenedBy(o) /\ \A e \in End : EndInv(o, e, Peer(e))

-----------------------------------------------------------------------------
(* The openings.                                                            *)

LEMMA Peers ==
  \A e \in End : Peer(e) \in End /\ Peer(e) # e /\ Peer(Peer(e)) = e
                 /\ \A d \in End : d = e \/ d = Peer(e)
BY DEF Peer, End

\* What a sequence written behind another leaves where.
Joins(w, s) ==
  /\ Len(w \o s) = Len(w) + Len(s)
  /\ \A j \in 1 .. Len(w) : (w \o s)[j] = w[j]
  /\ \A j \in 1 .. Len(s) : (w \o s)[Len(w) + j] = s[j]

LEMMA Joined ==
  ASSUME NEW w \in Seq(Symbol), NEW s \in Seq(Symbol)
  PROVE  Joins(w, s)
BY DEF Joins

LEMMA OpeningFacts ==
  ASSUME NEW o \in Openings, NEW p \in End
  PROVE  /\ o[p].prefix \in Seq(Byte) /\ o[p].ident \in Seq(Byte)
         /\ Opening(o, p) \in Seq(Byte) /\ Len(Opening(o, p)) = Total(o, p)
         /\ Start(o, p) \in Nat /\ Total(o, p) \in Nat /\ Start(o, p) < Total(o, p)
         /\ \A j \in Start(o, p) + 1 .. Total(o, p) :
              Opening(o, p)[j] = "\n" <=> j = Total(o, p)
         /\ Opening(o, p)[Start(o, p) + 1] \in {"S1", "S2"}
         /\ Start(o, p) > 0 => Opening(o, p)[Start(o, p)] = "\n"
         /\ \A j \in 1 .. Start(o, p) : Opening(o, p)[j] = "S2" =>
              j > 1 /\ Opening(o, p)[j - 1] # "\n"
         /\ Total(o, p) = Start(o, p) + Len(o[p].ident)
         /\ \A j \in 1 .. Len(o[p].ident) : Opening(o, p)[Start(o, p) + j] = o[p].ident[j]
<1>. DEFINE f == o[p].prefix
            s == o[p].ident
<1>1. f \in Seq(Byte) /\ s \in Seq(Byte)
  BY IdentAssumption
<1>2. /\ s # <<>> /\ s[1] \in {"S1", "S2"}
      /\ \A i \in DOMAIN s : s[i] = "\n" <=> i = Len(s)
      /\ f # <<>> => f[Len(f)] = "\n"
      /\ \A i \in DOMAIN f : f[i] = "S2" => i > 1 /\ f[i - 1] # "\n"
  BY IdentAssumption, Zenon
<1>3. /\ Opening(o, p) = f \o s /\ Start(o, p) = Len(f) /\ Total(o, p) = Len(f) + Len(s)
  BY DEF Opening, Start, Total
<1>. HIDE DEF f, s
<1>4. /\ DOMAIN s = 1 .. Len(s) /\ DOMAIN f = 1 .. Len(f) /\ Len(s) \in Nat /\ Len(f) \in Nat
      /\ Len(s) > 0 /\ (Len(f) > 0 => f # <<>>)
      /\ f \o s \in Seq(Byte) /\ Len(f \o s) = Len(f) + Len(s)
      /\ \A i \in 1 .. Len(f) : (f \o s)[i] = f[i]
      /\ \A i \in 1 .. Len(s) : (f \o s)[Len(f) + i] = s[i]
  BY <1>1, <1>2
<1>5. \A j \in Len(f) + 1 .. Len(f) + Len(s) : (f \o s)[j] = "\n" <=> j = Len(f) + Len(s)
  <2>. SUFFICES ASSUME NEW j \in Len(f) + 1 .. Len(f) + Len(s)
                PROVE  (f \o s)[j] = "\n" <=> j = Len(f) + Len(s)
    OBVIOUS
  <2>. DEFINE i == j - Len(f)
  <2>1. i \in 1 .. Len(s) /\ j = Len(f) + i
    BY <1>4
  <2>. HIDE DEF i
  <2>2. (f \o s)[j] = s[i]
    BY <1>4, <2>1
  <2>3. s[i] = "\n" <=> i = Len(s)
    BY <1>2, <1>4, <2>1, Zenon
  <2>4. i = Len(s) <=> j = Len(f) + Len(s)
    <3>1. Len(f) \in Int /\ Len(s) \in Int /\ i \in Int /\ j = Len(f) + i
      BY <1>4, <2>1
    <3>. QED
      BY <3>1
  <2>. QED
    BY <2>2, <2>3, <2>4, Zenon
<1>6. (f \o s)[Len(f) + 1] \in {"S1", "S2"}
  BY <1>2, <1>4
<1>7. Len(f) > 0 => (f \o s)[Len(f)] = "\n"
  BY <1>2, <1>4
<1>8. \A j \in 1 .. Len(f) : (f \o s)[j] = "S2" => j > 1 /\ (f \o s)[j - 1] # "\n"
  <2>. SUFFICES ASSUME NEW j \in 1 .. Len(f), (f \o s)[j] = "S2"
                PROVE  j > 1 /\ (f \o s)[j - 1] # "\n"
    OBVIOUS
  <2>1. f[j] = "S2"
    BY <1>4
  <2>2. j > 1 /\ f[j - 1] # "\n"
    BY <1>2, <1>4, <2>1, Zenon
  <2>3. j - 1 \in 1 .. Len(f)
    BY <1>4, <2>2
  <2>. QED
    BY <1>4, <2>2, <2>3
<1>9. /\ Len(f) < Len(f) + Len(s) /\ Len(f) + Len(s) \in Nat
      /\ f \o s \in Seq(Byte) /\ Len(f \o s) = Len(f) + Len(s)
  BY <1>4
<1>. QED
  BY <1>1, <1>4, <1>5, <1>6, <1>7, <1>8, <1>9, Zenon DEF Opening, Start, Total, f, s

-----------------------------------------------------------------------------
(* Minima, maxima and what they select.                                     *)

LEMMA LessThanWellFounded ==
  IsWellFoundedOn({ss \in Nat \X Nat : ss[1] < ss[2]}, Nat)
BY NatLessThanWellFounded DEF OpToRel

LEMMA Smallest ==
  ASSUME NEW S, S \subseteq Nat, S # {}
  PROVE  \E x \in S : \A y \in S : x <= y
<1>. DEFINE R == {ss \in Nat \X Nat : ss[1] < ss[2]}
<1>1. IsWellFoundedOn(R, Nat)
  BY LessThanWellFounded
<1>2. PICK x \in S : \A y \in S : <<y, x>> \notin R
  <2>. HIDE DEF R
  <2>. QED
    BY <1>1, WFMin
<1>3. ASSUME NEW y \in S PROVE x <= y
  <2>1. /\ <<y, x>> \in Nat \X Nat /\ <<y, x>>[1] = y /\ <<y, x>>[2] = x
        /\ x \in Nat /\ y \in Nat
    OBVIOUS
  <2>2. ~(y < x)
    BY <2>1, <1>2
  <2>. QED
    BY <2>1, <2>2
<1>. QED
  BY <1>3

LEMMA MinIs ==
  ASSUME NEW S, S \subseteq Nat, S # {}
  PROVE  Min(S) \in S /\ \A y \in S : Min(S) <= y
BY Smallest DEF Min

LEMMA MaxIs ==
  ASSUME NEW n \in Nat, NEW S, S \subseteq 0 .. n, S # {}
  PROVE  Max(S) \in S /\ \A y \in S : Max(S) >= y
<1>. DEFINE T == {x \in 0 .. n : n - x \in S}
<1>1. T \subseteq Nat
  OBVIOUS
<1>2. T # {}
  <2>1. PICK y \in S : TRUE
    OBVIOUS
  <2>2. n - y \in 0 .. n /\ n - (n - y) = y
    BY <2>1
  <2>3. n - y \in T
    BY <2>2
  <2>. QED
    BY <2>3
<1>3. PICK x \in T : \A y \in T : x <= y
  <2>. HIDE DEF T
  <2>. QED
    BY <1>1, <1>2, Smallest
<1>4. n - x \in S /\ x \in 0 .. n
  OBVIOUS
<1>5. ASSUME NEW y \in S PROVE n - x >= y
  <2>1. n - y \in 0 .. n /\ n - (n - y) = y /\ y \in 0 .. n
    OBVIOUS
  <2>2. n - y \in T
    BY <2>1
  <2>3. x <= n - y
    BY <1>3, <2>2
  <2>. QED
    BY <1>4, <2>1, <2>3
<1>. QED
  BY <1>4, <1>5 DEF Max

\* A line without its line end
LEMMA Stripped ==
  ASSUME NEW s \in Seq(Byte)
  PROVE  \E n \in 0 .. Len(s) :
           /\ IdentStrip(s) = SubSeq(s, 1, n) /\ IdentStrip(s) \in Seq(Byte)
           /\ Len(IdentStrip(s)) = n
           /\ \A i \in 1 .. n : IdentStrip(s)[i] = s[i]
           /\ n > 0 => s[n] \notin Crlf
           /\ \A i \in n + 1 .. Len(s) : s[i] \in Crlf
<1>. DEFINE S == {0} \cup {i \in DOMAIN s : s[i] \notin Crlf}
            n == Max(S)
<1>1. DOMAIN s = 1 .. Len(s) /\ Len(s) \in Nat
  OBVIOUS
<1>2. S \subseteq 0 .. Len(s) /\ S # {}
  BY <1>1
<1>3. n \in S /\ \A y \in S : n >= y
  <2>. HIDE DEF S
  <2>. QED
    BY <1>1, <1>2, MaxIs
<1>4. n \in 0 .. Len(s) /\ (n > 0 => s[n] \notin Crlf)
  <2>. HIDE DEF n
  <2>. QED
    BY <1>2, <1>3
<1>a. \A i \in n + 1 .. Len(s) : s[i] \in Crlf
  <2>. SUFFICES ASSUME NEW i \in n + 1 .. Len(s), s[i] \notin Crlf PROVE FALSE
    OBVIOUS
  <2>. HIDE DEF n
  <2>1. i \in DOMAIN s /\ i > n
    BY <1>1, <1>4
  <2>2. i \in S
    BY <2>1
  <2>. HIDE DEF S
  <2>3. n >= i
    BY <1>3, <2>2
  <2>. QED
    BY <1>4, <2>1, <2>3
<1>5. IdentStrip(s) = SubSeq(s, 1, n)
  BY Zenon DEF IdentStrip
<1>. HIDE DEF n
<1>6. /\ SubSeq(s, 1, n) \in Seq(Byte) /\ Len(SubSeq(s, 1, n)) = n
      /\ \A i \in 1 .. n : SubSeq(s, 1, n)[i] = s[i]
  BY <1>1, <1>4
<1>. QED
  BY <1>4, <1>5, <1>6, <1>a

LEMMA StripType == \A s \in Seq(Byte) : IdentStrip(s) \in Seq(Byte)
BY Stripped

LEMMA CheckedNotEmpty ==
  ASSUME NEW s \in Seq(Byte), IdentCheck(s)
  PROVE  IdentStrip(s) # <<>> /\ s # <<>> /\ s[1] = "S2"
<1>1. Len(IdentStrip(s)) \in 2 .. IdentMax - 2 /\ IdentStrip(s)[1] = "S2"
  BY Zenon DEF IdentCheck
<1>2. PICK n \in 0 .. Len(s) :
        Len(IdentStrip(s)) = n /\ \A i \in 1 .. n : IdentStrip(s)[i] = s[i]
  BY Stripped
<1>3. n >= 2
  BY <1>1, <1>2, IdentAssumption
<1>. QED
  BY <1>1, <1>2, <1>3

-----------------------------------------------------------------------------
(* Steps that move an end and leave what it has read and written alone.     *)

LEMMA Move ==
  ASSUME NEW o, NEW e \in End, NEW p, EndInv(o, e, p),
         UNCHANGED <<todo, consumed, line, attempt, known>>,
         pc'[e] \in Unread \cup Reading \cup Past => wire'[e] = wire[e],
         pc'[e] \in HasWritten => pc[e] \in HasWritten,
         pc'[e] \in Unread \cup Reading \cup Past => pc[e] \in Unread \cup Reading \cup Past,
         pc'[e] \in Unread \cup Reading =>
           pc[e] \in Unread \cup Reading /\ (pc'[e] = "line" <=> pc[e] = "line"),
         pc'[e] \in Reading => pc[e] \in Reading,
         pc'[e] \in Past \cup {"answer"} => pc[e] \in Past \cup {"answer"}
  PROVE  EndInv(o, e, p)'
<1>1. WriteInv(o, e)'
  BY DEF EndInv, WriteInv, Written
<1>2. StreamInv(o, e, p)'
  BY DEF EndInv, StreamInv, Written, Count
<1>3. ConsumedInv(o, e, p)'
  BY DEF EndInv, ConsumedInv, Count
<1>4. LineInv(o, e, p)'
  BY DEF EndInv, LineInv, Count, Skipped
<1>5. SuccessInv(o, e, p)'
  BY DEF EndInv, SuccessInv, Count
<1>. QED
  BY <1>1, <1>2, <1>3, <1>4, <1>5 DEF EndInv

\* What a step of the peer leaves of an end's invariant.
LEMMA Stays ==
  ASSUME NEW o, NEW e \in End, NEW p, EndInv(o, e, p),
         todo'[e] = todo[e], todo'[p] = todo[p], wire'[e] = wire[e],
         consumed'[e] = consumed[e], line'[e] = line[e], attempt'[e] = attempt[e],
         known'[e] = known[e], pc'[e] = pc[e]
  PROVE  EndInv(o, e, p)'
<1>1. WriteInv(o, e)'
  BY DEF EndInv, WriteInv, Written
<1>2. StreamInv(o, e, p)'
  BY DEF EndInv, StreamInv, Written, Count
<1>3. ConsumedInv(o, e, p)'
  BY DEF EndInv, ConsumedInv, Count
<1>4. LineInv(o, e, p)'
  BY DEF EndInv, LineInv, Count, Skipped
<1>5. SuccessInv(o, e, p)'
  BY DEF EndInv, SuccessInv, Count
<1>. QED
  BY <1>1, <1>2, <1>3, <1>4, <1>5 DEF EndInv

-----------------------------------------------------------------------------
(* Writing.                                                                 *)

\* s comes behind what is on its way to e: more of the peer's opening, or, when
\* all of that is written, anything.
LEMMA StreamGrows ==
  ASSUME NEW o \in Openings, NEW e \in End, NEW p \in End, NEW s,
         IdentTypes, WriteInv(o, p), StreamInv(o, e, p)
  PROVE  /\ s \in Seq(Symbol) /\ wire'[e] = wire[e] \o s
         /\ consumed'[e] = consumed[e] /\ pc'[e] = pc[e]
         /\ \/ /\ todo[p] # <<>> /\ Len(s) <= Len(todo[p])
               /\ \A j \in 1 .. Len(s) : s[j] = todo[p][j]
               /\ Len(todo'[p]) = Len(todo[p]) - Len(s)
            \/ todo[p] = <<>> /\ todo'[p] = <<>>
         => StreamInv(o, e, p)'
<1>a. SUFFICES ASSUME
         s \in Seq(Symbol), wire'[e] = wire[e] \o s,
         consumed'[e] = consumed[e], pc'[e] = pc[e],
         \/ /\ todo[p] # <<>> /\ Len(s) <= Len(todo[p])
            /\ \A j \in 1 .. Len(s) : s[j] = todo[p][j]
            /\ Len(todo'[p]) = Len(todo[p]) - Len(s)
         \/ todo[p] = <<>> /\ todo'[p] = <<>>
       PROVE StreamInv(o, e, p)'
  OBVIOUS
<1>. DEFINE c == Len(consumed[e])
            w == wire[e]
            k == Len(todo[p])
            t == Total(o, p)
<1>0. SUFFICES ASSUME pc[e] \in Unread \cup Reading \cup Past
               PROVE  /\ c + Len(w \o s) >= t - Len(todo'[p])
                      /\ todo'[p] # <<>> => c + Len(w \o s) = t - Len(todo'[p])
                      /\ \A j \in 1 .. Len(w \o s) :
                           c + j <= t => (w \o s)[j] = Opening(o, p)[c + j]
  BY <1>a DEF StreamInv, Count, Written
<1>1. /\ w \in Seq(Symbol) /\ c \in Nat /\ k \in Nat /\ todo[p] \in Seq(Byte)
      /\ Len(w) \in Nat /\ Len(s) \in Nat
      /\ t \in Nat
  <2>1. w \in Seq(Symbol) /\ consumed[e] \in Seq(Byte) /\ todo[p] \in Seq(Byte)
    BY DEF IdentTypes
  <2>2. t \in Nat
    BY OpeningFacts
  <2>. HIDE DEF w, t
  <2>. QED
    BY <1>a, <2>1, <2>2
<1>2. /\ c + Len(w) >= t - k
      /\ todo[p] # <<>> => c + Len(w) = t - k
      /\ \A j \in 1 .. Len(w) : c + j <= t => w[j] = Opening(o, p)[c + j]
  BY <1>0 DEF StreamInv, Count, Written
<1>3. /\ Len(w \o s) = Len(w) + Len(s)
      /\ \A j \in 1 .. Len(w) : (w \o s)[j] = w[j]
      /\ \A j \in 1 .. Len(s) : (w \o s)[Len(w) + j] = s[j]
  <2>1. w \in Seq(Symbol) /\ s \in Seq(Symbol)
    BY <1>1, <1>a, Zenon
  <2>. HIDE DEF w
  <2>2. Joins(w, s)
    BY <2>1, Joined, Zenon
  <2>. QED
    BY <2>2, Zenon DEF Joins
<1>4. \A j \in 1 .. k : todo[p][j] = Opening(o, p)[t - k + j]
  BY DEF WriteInv, Written
<1>5. k = 0 <=> todo[p] = <<>>
  BY <1>1
<1>. HIDE DEF c, w, k, t
<1>6. CASE /\ todo[p] # <<>> /\ Len(s) <= Len(todo[p])
           /\ \A j \in 1 .. Len(s) : s[j] = todo[p][j]
           /\ Len(todo'[p]) = Len(todo[p]) - Len(s)
  <2>1. Len(todo'[p]) = k - Len(s) /\ Len(s) <= k
    BY <1>6 DEF k
  <2>2. c + Len(w \o s) = t - Len(todo'[p])
    <3>1. c + Len(w) = t - k
      BY <1>2, <1>6
    <3>2. /\ Len(w \o s) = Len(w) + Len(s) /\ Len(todo'[p]) = k - Len(s)
          /\ c \in Int /\ k \in Int /\ t \in Int /\ Len(w) \in Int /\ Len(s) \in Int
      BY <1>1, <1>3, <2>1
    <3>. QED
      BY <3>1, <3>2
  <2>3. ASSUME NEW j \in 1 .. Len(w \o s), c + j <= t
        PROVE  (w \o s)[j] = Opening(o, p)[c + j]
    <3>1. CASE j <= Len(w)
      BY <1>1, <1>2, <1>3, <2>3, <3>1
    <3>2. CASE j > Len(w)
      <4>. DEFINE i == j - Len(w)
      <4>1. i \in 1 .. Len(s) /\ j = Len(w) + i /\ i \in 1 .. k
        BY <1>1, <1>3, <2>1, <3>2
      <4>. HIDE DEF i
      <4>2. (w \o s)[j] = s[i] /\ s[i] = todo[p][i]
        BY <1>3, <1>6, <4>1
      <4>3. t - k + i = c + j
        <5>1. c + Len(w) = t - k
          BY <1>2, <1>6
        <5>2. c \in Int /\ k \in Int /\ t \in Int /\ Len(w) \in Int /\ i \in Int
          BY <1>1, <4>1
        <5>. QED
          BY <4>1, <5>1, <5>2
      <4>4. todo[p][i] = Opening(o, p)[t - k + i]
        BY <1>4, <4>1
      <4>. QED
        BY <4>2, <4>3, <4>4
    <3>. QED
      BY <1>1, <1>3, <3>1, <3>2
  <2>. QED
    BY <1>1, <2>1, <2>2, <2>3
<1>7. CASE todo[p] = <<>> /\ todo'[p] = <<>>
  <2>1. Len(todo'[p]) = 0 /\ k = 0
    BY <1>5, <1>7
  <2>2. c + Len(w \o s) >= t
    BY <1>1, <1>2, <1>3, <2>1
  <2>3. ASSUME NEW j \in 1 .. Len(w \o s), c + j <= t
        PROVE  (w \o s)[j] = Opening(o, p)[c + j]
    <3>1. j <= Len(w)
      BY <1>1, <1>2, <1>3, <2>1, <2>3
    <3>. QED
      BY <1>1, <1>2, <1>3, <2>3, <3>1
  <2>. QED
    BY <1>1, <1>7, <2>1, <2>2, <2>3
<1>. QED
  BY <1>6, <1>7, <1>a

LEMMA WriteTypes ==
  ASSUME IdentTypes, NEW o \in Openings, OpenedBy(o), NEW e \in End, Write(e)
  PROVE  IdentTypes'
<1>. DEFINE p == Peer(e)
            t == todo[e]
<1>0. p \in End /\ t \in Seq(Byte) /\ ident[e] \in Seq(Byte)
  BY Peers, OpeningFacts DEF IdentTypes, OpenedBy
<1>. HIDE DEF p, t
<1>1. PICK n \in 1 .. Len(t) :
        /\ todo' = [todo EXCEPT ![e] = SubSeq(t, n + 1, Len(t))]
        /\ wire' = [wire EXCEPT ![p] = wire[p] \o SubSeq(t, 1, n)]
        /\ IF n < Len(t) THEN UNCHANGED <<pc, known>>
           ELSE \/ Goto(e, "failed") /\ known' = known
                \/ Goto(e, "read") /\ known' = [known EXCEPT ![e][e] = IdentStrip(ident[e])]
  BY Zenon DEF Write, p, t
<1>2. SubSeq(t, n + 1, Len(t)) \in Seq(Byte) /\ SubSeq(t, 1, n) \in Seq(Byte)
  BY <1>0
<1>3. SubSeq(t, 1, n) \in Seq(Symbol)
  BY <1>2 DEF Symbol
<1>4. todo' \in [End -> Seq(Byte)]
  BY <1>1, <1>2 DEF IdentTypes
<1>5. wire' \in [End -> Seq(Symbol)]
  <2>1. wire[p] \o SubSeq(t, 1, n) \in Seq(Symbol)
    BY <1>0, <1>3 DEF IdentTypes
  <2>. QED
    BY <1>0, <1>1, <2>1 DEF IdentTypes
<1>6. IdentStrip(ident[e]) \in Seq(Byte)
  BY <1>0, StripType
<1>7. known' \in [End -> [End -> Seq(Byte)]]
  <2>. DEFINE own == IdentStrip(ident[e])
  <2>1. known[e] \in [End -> Seq(Byte)] /\ known \in [End -> [End -> Seq(Byte)]]
    BY DEF IdentTypes
  <2>2. known' = known \/ known' = [known EXCEPT ![e] = [known[e] EXCEPT ![e] = own]]
    BY <1>1
  <2>. HIDE DEF own
  <2>3. [known[e] EXCEPT ![e] = own] \in [End -> Seq(Byte)]
    BY <1>6, <2>1 DEF own
  <2>. QED
    BY <2>1, <2>2, <2>3
<1>8. pc' \in [End -> Phase]
  BY <1>1 DEF IdentTypes, Goto, Phase, Reading
<1>9. UNCHANGED <<line, attempt, consumed>>
  BY DEF Write
<1>. QED
  BY <1>4, <1>5, <1>7, <1>8, <1>9 DEF IdentTypes

LEMMA WriteStep ==
  ASSUME IdentTypes, NEW o \in Openings, OpenedBy(o), NEW e \in End, NEW p \in End,
         p = Peer(e), EndInv(o, e, p), EndInv(o, p, e), Write(e)
  PROVE  EndInv(o, e, p)' /\ EndInv(o, p, e)'
<1>. DEFINE t == todo[e]
<1>0. /\ p # e /\ t \in Seq(Byte) /\ ident[e] = o[e].ident /\ pc[e] = "write"
      /\ Len(t) \in Nat /\ Total(o, e) \in Nat
  BY Peers, OpeningFacts DEF IdentTypes, OpenedBy, Write
<1>. HIDE DEF t
<1>1. PICK n \in 1 .. Len(t) :
        /\ todo' = [todo EXCEPT ![e] = SubSeq(t, n + 1, Len(t))]
        /\ wire' = [wire EXCEPT ![p] = wire[p] \o SubSeq(t, 1, n)]
        /\ IF n < Len(t) THEN UNCHANGED <<pc, known>>
           ELSE \/ Goto(e, "failed") /\ known' = known
                \/ Goto(e, "read") /\ known' = [known EXCEPT ![e][e] = IdentStrip(ident[e])]
  BY Zenon DEF Write, t
<1>2. /\ Len(SubSeq(t, n + 1, Len(t))) = Len(t) - n
      /\ \A j \in 1 .. Len(t) - n : SubSeq(t, n + 1, Len(t))[j] = t[n + j]
      /\ Len(SubSeq(t, 1, n)) = n /\ \A j \in 1 .. n : SubSeq(t, 1, n)[j] = t[j]
      /\ SubSeq(t, 1, n) \in Seq(Byte)
  BY <1>0
<1>a. UNCHANGED <<line, attempt, consumed>>
  BY DEF Write
<1>b. /\ todo'[e] = SubSeq(t, n + 1, Len(t)) /\ todo'[p] = todo[p]
      /\ wire'[e] = wire[e] /\ wire'[p] = wire[p] \o SubSeq(t, 1, n)
  <2>1. todo \in [End -> Seq(Byte)] /\ wire \in [End -> Seq(Symbol)]
    BY DEF IdentTypes
  <2>. QED
    BY <1>0, <1>1, <2>1, Zenon
<1>c. /\ pc'[p] = pc[p] /\ known'[p] = known[p] /\ known'[e][p] = known[e][p]
      /\ \/ n < Len(t) /\ pc'[e] = "write" /\ known'[e] = known[e]
         \/ n = Len(t) /\ pc'[e] = "failed" /\ known'[e] = known[e]
         \/ n = Len(t) /\ pc'[e] = "read" /\ known'[e][e] = IdentStrip(ident[e])
  <2>1. known[e] \in [End -> Seq(Byte)] /\ known \in [End -> [End -> Seq(Byte)]]
        /\ pc \in [End -> Phase]
    BY DEF IdentTypes
  <2>2. CASE n < Len(t)
    BY <1>0, <1>1, <2>2
  <2>3. CASE ~(n < Len(t))
    <3>1. n = Len(t)
      BY <1>0, <2>3
    <3>2. \/ pc' = [pc EXCEPT ![e] = "failed"] /\ known' = known
          \/ /\ pc' = [pc EXCEPT ![e] = "read"]
             /\ known' = [known EXCEPT ![e][e] = IdentStrip(ident[e])]
      BY <1>1, <2>3, Zenon DEF Goto
    <3>3. CASE pc' = [pc EXCEPT ![e] = "failed"] /\ known' = known
      BY <1>0, <2>1, <3>1, <3>3, Zenon
    <3>4. CASE /\ pc' = [pc EXCEPT ![e] = "read"]
               /\ known' = [known EXCEPT ![e][e] = IdentStrip(ident[e])]
      BY <1>0, <2>1, <3>1, <3>4, Zenon
    <3>. QED
      BY <3>2, <3>3, <3>4, Zenon
  <2>. QED
    BY <2>2, <2>3
<1>3. /\ todo'[e] = SubSeq(t, n + 1, Len(t)) /\ todo'[p] = todo[p]
      /\ wire'[e] = wire[e] /\ wire'[p] = wire[p] \o SubSeq(t, 1, n)
      /\ pc'[p] = pc[p] /\ known'[p] = known[p] /\ known'[e][p] = known[e][p]
      /\ UNCHANGED <<line, attempt, consumed>>
      /\ \/ n < Len(t) /\ pc'[e] = "write" /\ known'[e] = known[e]
         \/ n = Len(t) /\ pc'[e] = "failed" /\ known'[e] = known[e]
         \/ n = Len(t) /\ pc'[e] = "read" /\ known'[e][e] = IdentStrip(ident[e])
  BY <1>a, <1>b, <1>c, Zenon
<1>4. WriteInv(o, e)'
  <2>1. /\ Len(t) <= Len(o[e].ident)
        /\ \A j \in 1 .. Len(t) : t[j] = Opening(o, e)[Total(o, e) - Len(t) + j]
    BY DEF EndInv, WriteInv, Written, t
  <2>2. Len(SubSeq(t, n + 1, Len(t))) <= Len(o[e].ident)
    <3>1. Len(SubSeq(t, n + 1, Len(t))) = Len(t) - n /\ Len(t) <= Len(o[e].ident)
      BY <1>2, <2>1, Zenon
    <3>2. Len(o[e].ident) \in Nat
      BY OpeningFacts
    <3>3. \A a, b \in Nat : \A k \in 1 .. a : a <= b => a - k <= b
      OBVIOUS
    <3>. QED
      BY <1>0, <3>1, <3>2, <3>3, Zenon
  <2>3. ASSUME NEW j \in 1 .. Len(t) - n
        PROVE  SubSeq(t, n + 1, Len(t))[j] = Opening(o, e)[Total(o, e) - (Len(t) - n) + j]
    <3>1. n + j \in 1 .. Len(t) /\ Total(o, e) - Len(t) + (n + j) = Total(o, e) - (Len(t) - n) + j
      BY <1>0
    <3>. QED
      BY <1>2, <2>1, <3>1
  <2>4. pc'[e] \in HasWritten => SubSeq(t, n + 1, Len(t)) = <<>>
    <3>1. n = Len(t) => SubSeq(t, n + 1, Len(t)) = <<>>
      BY <1>0
    <3>. QED
      BY <1>3, <3>1 DEF HasWritten
  <2>. QED
    BY <1>2, <1>3, <2>2, <2>3, <2>4 DEF WriteInv, Written
<1>5. StreamInv(o, e, p)'
  BY <1>0, <1>3 DEF EndInv, StreamInv, Written, Count, Unread
<1>6. ConsumedInv(o, e, p)'
  BY <1>3 DEF EndInv, ConsumedInv, Count
<1>7. LineInv(o, e, p)'
  BY <1>0, <1>3 DEF EndInv, LineInv, Count, Skipped, Unread
<1>8. SuccessInv(o, e, p)'
  <2>1. known[e][p] = <<>>
    BY <1>0 DEF EndInv, LineInv, Unread
  <2>. QED
    BY <1>0, <1>3, <2>1 DEF SuccessInv, Reading, Past
<1>9. StreamInv(o, p, e)'
  <2>1. SubSeq(t, 1, n) \in Seq(Symbol)
    BY <1>2 DEF Symbol
  <2>2. t # <<>> /\ Len(SubSeq(t, 1, n)) <= Len(t)
    BY <1>0, <1>2
  <2>. HIDE DEF t
  <2>3. /\ todo[e] # <<>> /\ Len(SubSeq(t, 1, n)) <= Len(todo[e])
        /\ \A j \in 1 .. Len(SubSeq(t, 1, n)) : SubSeq(t, 1, n)[j] = todo[e][j]
        /\ Len(todo'[e]) = Len(todo[e]) - Len(SubSeq(t, 1, n))
    BY <1>2, <1>3, <2>2, Zenon DEF t
  <2>. QED
    BY <1>3, <2>1, <2>3, StreamGrows, Zenon DEF EndInv
<1>10. EndInv(o, p, e)'
  <2>1. WriteInv(o, p)'
    <3>1. todo'[p] = todo[p] /\ pc'[p] = pc[p]
      BY <1>3, Zenon
    <3>2. WriteInv(o, p)
      BY Zenon DEF EndInv
    <3>. QED
      BY <3>1, <3>2 DEF WriteInv, Written
  <2>2. ConsumedInv(o, p, e)'
    BY <1>3 DEF EndInv, ConsumedInv, Count
  <2>3. LineInv(o, p, e)'
    BY <1>3 DEF EndInv, LineInv, Count, Skipped
  <2>4. SuccessInv(o, p, e)'
    BY <1>3 DEF EndInv, SuccessInv, Count
  <2>. QED
    BY <1>9, <2>1, <2>2, <2>3, <2>4 DEF EndInv
<1>. QED
  BY <1>4, <1>5, <1>6, <1>7, <1>8, <1>10 DEF EndInv

-----------------------------------------------------------------------------
(* Reading.                                                                 *)

\* An end that reads has not read the peer's line end, and what it reads next is
\* the next byte of the peer's opening.
LEMMA NextByte ==
  ASSUME IdentTypes, NEW o \in Openings, NEW e \in End, NEW p \in End,
         EndInv(o, e, p), pc[e] = "read", wire[e] # <<>>
  PROVE  /\ Count(e) \in Nat /\ Count(e) + 1 <= Total(o, p)
         /\ wire[e][1] = Opening(o, p)[Count(e) + 1] /\ wire[e][1] \in Byte
<1>. DEFINE c == Len(consumed[e])
            l == Len(line[e])
            m == Len(consumed[e]) - Len(line[e])
            t == Total(o, p)
<1>1. /\ l <= c /\ m <= Start(o, p)
      /\ \A j \in 1 .. l : line[e][j] = Opening(o, p)[m + j]
      /\ \A j \in 1 .. l - 1 : line[e][j] # "\n"
      /\ l > 0 => line[e][l] # "\n"
      /\ c <= t
  BY DEF EndInv, LineInv, ConsumedInv, Reading, Count, Skipped
<1>2. c \in Nat /\ l \in Nat /\ Len(wire[e]) \in Nat /\ Len(wire[e]) >= 1
  BY DEF IdentTypes
<1>3. /\ Start(o, p) \in Nat /\ t \in Nat /\ Start(o, p) < t
      /\ Opening(o, p)[t] = "\n"
  BY OpeningFacts
<1>4. m = c - l /\ m \in Int
  BY <1>2
<1>5. \A j \in 1 .. l : line[e][j] # "\n"
  BY <1>1, <1>2
<1>. HIDE DEF c, l, m, t
<1>6. c < t
  <2>1. SUFFICES ASSUME c = t PROVE FALSE
    BY <1>1, <1>2, <1>3
  <2>2. l \in 1 .. l /\ m + l = t
    BY <1>1, <1>2, <1>3, <1>4, <2>1
  <2>3. line[e][l] = Opening(o, p)[m + l]
    BY <1>1, <2>2
  <2>. QED
    BY <1>3, <1>5, <2>2, <2>3
<1>7. c + 1 \in 1 .. t
  BY <1>2, <1>3, <1>6
<1>8. wire[e][1] = Opening(o, p)[c + 1]
  <2>1. \A j \in 1 .. Len(wire[e]) : c + j <= t => wire[e][j] = Opening(o, p)[c + j]
    BY DEF EndInv, StreamInv, Reading, Count, c, t
  <2>. QED
    BY <1>2, <1>3, <1>6, <2>1
<1>9. Opening(o, p)[c + 1] \in Byte
  <2>1. Opening(o, p) \in Seq(Byte) /\ Len(Opening(o, p)) = t
    BY OpeningFacts DEF t
  <2>. QED
    BY <1>7, <2>1
<1>. QED
  BY <1>2, <1>7, <1>8, <1>9 DEF Count, c, t

\* What ReadByte does, said with the byte that is read
LEMMA ReadEffect ==
  ASSUME IdentTypes, NEW o \in Openings, NEW e \in End, NEW p \in End,
         EndInv(o, e, p), ReadByte(e)
  PROVE  /\ pc[e] = "read" /\ wire[e] # <<>> /\ wire[e][1] \in Byte
         /\ line' = [line EXCEPT ![e] = line[e] \o <<wire[e][1]>>]
         /\ consumed' = [consumed EXCEPT ![e] = consumed[e] \o <<wire[e][1]>>]
         /\ wire' = [wire EXCEPT ![e] = Tail(wire[e])]
         /\ \/ LineFull(line[e] \o <<wire[e][1]>>) /\ pc' = [pc EXCEPT ![e] = "line"]
            \/ ~LineFull(line[e] \o <<wire[e][1]>>) /\ pc' = pc
         /\ UNCHANGED <<ident, prefix, todo, attempt, known>>
<1>. DEFINE w == wire[e]
            b == wire[e][1]
            got == SubSeq(wire[e], 1, 1)
            more == IF got[1] = "\n" THEN <<"\n">> ELSE got
<1>1. /\ pc[e] = "read" /\ w # <<>>
      /\ line' = [line EXCEPT ![e] = line[e] \o more]
      /\ consumed' = [consumed EXCEPT ![e] = consumed[e] \o got]
      /\ wire' = [wire EXCEPT ![e] = SubSeq(w, 2, Len(w))]
      /\ \/ LineFull(line'[e]) /\ pc' = [pc EXCEPT ![e] = "line"]
         \/ ~LineFull(line'[e]) /\ pc' = pc
      /\ UNCHANGED <<ident, prefix, todo, attempt, known>>
  BY DEF ReadByte, Receive, Goto
<1>2. w \in Seq(Symbol) /\ line \in [End -> Seq(Byte)]
  BY DEF IdentTypes
<1>. HIDE DEF w
<1>3. SubSeq(w, 1, 1) = <<w[1]>> /\ SubSeq(w, 2, Len(w)) = Tail(w)
  <2>1. SubSeq(w, 2, Len(w)) = Tail(w)
    BY <1>1, <1>2, TailIsSubSeq, Zenon
  <2>2. /\ SubSeq(w, 1, 1) \in Seq(Symbol) /\ <<w[1]>> \in Seq(Symbol)
        /\ Len(SubSeq(w, 1, 1)) = 1 /\ Len(<<w[1]>>) = 1
        /\ SubSeq(w, 1, 1)[1] = w[1] /\ <<w[1]>>[1] = w[1]
    BY <1>1, <1>2
  <2>3. \A i \in 1 .. Len(SubSeq(w, 1, 1)) : SubSeq(w, 1, 1)[i] = <<w[1]>>[i]
    BY <2>2
  <2>4. SubSeq(w, 1, 1) = <<w[1]>>
    BY <2>2, <2>3, SeqEqual, Zenon
  <2>. QED
    BY <2>1, <2>4
<1>4. got = <<b>> /\ more = <<b>>
  BY <1>3 DEF w
<1>5. b \in Byte
  BY <1>1, NextByte DEF w
<1>6. line'[e] = line[e] \o more
  BY <1>1, <1>2, Zenon
<1>. HIDE DEF got, more, b
<1>7. /\ pc[e] = "read" /\ w # <<>> /\ b \in Byte
      /\ line' = [line EXCEPT ![e] = line[e] \o <<b>>]
      /\ consumed' = [consumed EXCEPT ![e] = consumed[e] \o <<b>>]
      /\ wire' = [wire EXCEPT ![e] = Tail(w)]
      /\ \/ LineFull(line[e] \o <<b>>) /\ pc' = [pc EXCEPT ![e] = "line"]
         \/ ~LineFull(line[e] \o <<b>>) /\ pc' = pc
      /\ UNCHANGED <<ident, prefix, todo, attempt, known>>
  BY <1>1, <1>3, <1>4, <1>5, <1>6, Zenon
<1>. QED
  BY <1>7, Zenon DEF w, b

LEMMA ReadTypes ==
  ASSUME IdentTypes, NEW o \in Openings, NEW e \in End, NEW p \in End,
         EndInv(o, e, p), ReadByte(e)
  PROVE  IdentTypes'
<1>. DEFINE b == wire[e][1]
<1>1. /\ pc[e] = "read" /\ wire[e] # <<>> /\ b \in Byte
      /\ line' = [line EXCEPT ![e] = line[e] \o <<b>>]
      /\ consumed' = [consumed EXCEPT ![e] = consumed[e] \o <<b>>]
      /\ wire' = [wire EXCEPT ![e] = Tail(wire[e])]
      /\ pc' = pc \/ pc' = [pc EXCEPT ![e] = "line"]
      /\ UNCHANGED <<ident, prefix, todo, attempt, known>>
  BY ReadEffect, Zenon
<1>. HIDE DEF b
<1>2. Len(line[e]) <= IdentMax
  BY <1>1 DEF EndInv, LineInv, Reading
<1>3. line[e] \o <<b>> \in Seq(Byte) /\ Len(line[e] \o <<b>>) = Len(line[e]) + 1
      /\ consumed[e] \o <<b>> \in Seq(Byte)
  BY <1>1 DEF IdentTypes
<1>4. Len(line[e] \o <<b>>) <= IdentMax + 1
  BY <1>2, <1>3, IdentAssumption DEF IdentTypes
<1>5. line' \in [End -> Seq(Byte)] /\ \A d \in End : Len(line'[d]) <= IdentMax + 1
  BY <1>1, <1>3, <1>4 DEF IdentTypes
<1>6. consumed' \in [End -> Seq(Byte)]
  BY <1>1, <1>3 DEF IdentTypes
<1>7. wire' \in [End -> Seq(Symbol)]
  <2>1. Tail(wire[e]) \in Seq(Symbol)
    BY <1>1 DEF IdentTypes
  <2>. QED
    BY <1>1, <2>1 DEF IdentTypes
<1>8. pc' \in [End -> Phase]
  BY <1>1 DEF IdentTypes, Phase, Reading
<1>. QED
  BY <1>1, <1>5, <1>6, <1>7, <1>8 DEF IdentTypes

LEMMA ReadStep ==
  ASSUME IdentTypes, NEW o \in Openings, NEW e \in End, NEW p \in End,
         p # e, EndInv(o, e, p), EndInv(o, p, e), ReadByte(e)
  PROVE  EndInv(o, e, p)' /\ EndInv(o, p, e)'
<1>. DEFINE b == wire[e][1]
            s == line[e]
            w == wire[e]
            q == consumed[e]
            k == Len(todo[p])
            t == Total(o, p)
            f == Opening(o, p)
<1>1. /\ pc[e] = "read" /\ w # <<>> /\ b \in Byte
      /\ line' = [line EXCEPT ![e] = s \o <<b>>]
      /\ consumed' = [consumed EXCEPT ![e] = q \o <<b>>]
      /\ wire' = [wire EXCEPT ![e] = Tail(w)]
      /\ \/ LineFull(s \o <<b>>) /\ pc' = [pc EXCEPT ![e] = "line"]
         \/ ~LineFull(s \o <<b>>) /\ pc' = pc
      /\ UNCHANGED <<ident, prefix, todo, attempt, known>>
  BY ReadEffect, Zenon
<1>2. /\ line \in [End -> Seq(Byte)] /\ consumed \in [End -> Seq(Byte)]
      /\ wire \in [End -> Seq(Symbol)] /\ todo \in [End -> Seq(Byte)]
      /\ pc \in [End -> Phase]
      /\ s \in Seq(Byte) /\ q \in Seq(Byte) /\ w \in Seq(Symbol) /\ todo[p] \in Seq(Byte)
  BY DEF IdentTypes
<1>3. Len(q) + 1 <= t /\ b = f[Len(q) + 1]
  BY <1>1, NextByte DEF Count
<1>4. k \in Nat /\ t \in Nat /\ Start(o, p) \in Nat
  BY <1>2, OpeningFacts
<1>5. /\ Len(q) + Len(w) >= t - k
      /\ todo[p] # <<>> => Len(q) + Len(w) = t - k
      /\ \A j \in 1 .. Len(w) : Len(q) + j <= t => w[j] = f[Len(q) + j]
  BY <1>1 DEF EndInv, StreamInv, Count, Written, Reading
<1>6. /\ Len(s) <= Len(q) /\ Len(q) - Len(s) <= Start(o, p)
      /\ \A j \in 1 .. Len(s) : s[j] = f[Len(q) - Len(s) + j]
      /\ Len(q) - Len(s) > 0 => f[Len(q) - Len(s)] = "\n"
      /\ \A j \in 1 .. Len(s) - 1 : s[j] # "\n"
      /\ Len(s) <= IdentMax /\ (Len(s) > 0 => s[Len(s)] # "\n")
      /\ attempt[e] < MaxAttempts
      /\ attempt[e] = Cardinality(Ends(f, Len(q) - Len(s)))
      /\ known[e][p] = <<>>
  BY <1>1 DEF EndInv, LineInv, Count, Skipped, Reading
<1>7. \A j \in 1 .. Len(q) : q[j] = f[j]
  BY DEF EndInv, ConsumedInv, Count
<1>8. /\ pc'[e] \in Reading /\ pc'[e] \notin Unread /\ pc'[e] \notin Past /\ pc'[e] # "answer"
      /\ (pc'[e] = "line" <=> LineFull(s \o <<b>>))
  BY <1>1, <1>2 DEF Reading, Past, Unread
<1>9. /\ line'[e] = s \o <<b>> /\ consumed'[e] = q \o <<b>> /\ wire'[e] = Tail(w)
  BY <1>1, <1>2, Zenon
<1>10. /\ line'[p] = line[p] /\ consumed'[p] = consumed[p] /\ wire'[p] = wire[p]
       /\ pc'[p] = pc[p] /\ todo' = todo /\ known' = known /\ attempt' = attempt
  BY <1>1, <1>2, Zenon
<1>11. EndInv(o, p, e)'
  BY <1>10, Stays
<1>12. WriteInv(o, e)'
  BY <1>1, <1>10 DEF EndInv, WriteInv, Written, HasWritten
<1>. HIDE DEF b, s, w, q, k, t, f
<1>13. /\ Len(s \o <<b>>) = Len(s) + 1 /\ Len(q \o <<b>>) = Len(q) + 1
       /\ Len(Tail(w)) = Len(w) - 1 /\ Len(w) \in Nat \ {0} /\ Len(s) \in Nat /\ Len(q) \in Nat
       /\ \A j \in 1 .. Len(s) : (s \o <<b>>)[j] = s[j]
       /\ (s \o <<b>>)[Len(s) + 1] = b
       /\ \A j \in 1 .. Len(q) : (q \o <<b>>)[j] = q[j]
       /\ (q \o <<b>>)[Len(q) + 1] = b
       /\ \A j \in 1 .. Len(w) - 1 : Tail(w)[j] = w[j + 1]
  BY <1>1, <1>2
<1>14. StreamInv(o, e, p)'
  <2>1. /\ Len(q \o <<b>>) + Len(Tail(w)) >= t - k
        /\ todo[p] # <<>> => Len(q \o <<b>>) + Len(Tail(w)) = t - k
    BY <1>4, <1>5, <1>13
  <2>2. ASSUME NEW j \in 1 .. Len(Tail(w)), Len(q \o <<b>>) + j <= t
        PROVE  Tail(w)[j] = f[Len(q \o <<b>>) + j]
    <3>1. /\ j + 1 \in 1 .. Len(w) /\ Len(q) + (j + 1) = Len(q \o <<b>>) + j
          /\ j \in 1 .. Len(w) - 1
      BY <1>13
    <3>2. Tail(w)[j] = w[j + 1]
      BY <1>13, <3>1
    <3>3. w[j + 1] = f[Len(q) + (j + 1)]
      BY <1>5, <2>2, <3>1
    <3>. QED
      BY <3>1, <3>2, <3>3
  <2>. QED
    BY <1>9, <1>10, <2>1, <2>2 DEF StreamInv, Count, Written, k, t, f
<1>15. ConsumedInv(o, e, p)'
  <2>1. \A j \in 1 .. Len(q \o <<b>>) : (q \o <<b>>)[j] = f[j]
    BY <1>3, <1>7, <1>13
  <2>. QED
    BY <1>3, <1>9, <1>13, <2>1 DEF ConsumedInv, Count, t, f
<1>16. LineInv(o, e, p)'
  <2>. DEFINE r == s \o <<b>>
              m == Len(q) - Len(s)
  <2>1. Len(r) <= Len(q \o <<b>>) /\ Len(q \o <<b>>) - Len(r) = m /\ m \in Int
    BY <1>6, <1>13
  <2>2. \A j \in 1 .. Len(r) : r[j] = f[m + j]
    <3>. SUFFICES ASSUME NEW j \in 1 .. Len(s) + 1 PROVE r[j] = f[m + j]
      BY <1>13
    <3>1. CASE j = Len(s) + 1
      <4>1. m + j = Len(q) + 1 /\ r[j] = b
        BY <1>13, <3>1
      <4>. QED
        BY <1>3, <4>1
    <3>2. CASE j # Len(s) + 1
      <4>1. j \in 1 .. Len(s)
        BY <1>13, <3>2
      <4>2. r[j] = s[j] /\ s[j] = f[Len(q) - Len(s) + j]
        BY <1>6, <1>13, <4>1
      <4>. QED
        BY <4>2
    <3>. QED
      BY <3>1, <3>2
  <2>3. \A j \in 1 .. Len(r) - 1 : r[j] # "\n"
    BY <1>6, <1>13
  <2>4. Len(r) >= 1
    BY <1>13
  <2>5. pc'[e] # "line" => Len(r) <= IdentMax /\ r[Len(r)] # "\n"
    BY <1>6, <1>8, <1>13, IdentAssumption DEF LineFull
  <2>8. pc'[e] = "line" => LineFull(r)
    BY <1>8
  <2>. HIDE DEF r, m
  <2>6. /\ m <= Start(o, p) /\ (m > 0 => f[m] = "\n")
        /\ attempt[e] < MaxAttempts /\ attempt[e] = Cardinality(Ends(f, m))
        /\ known[e][p] = <<>>
    BY <1>6 DEF m
  <2>7. line'[e] = r /\ Len(consumed'[e]) = Len(q \o <<b>>)
    BY <1>9 DEF r
  <2>. QED
    BY <1>10, <2>1, <2>2, <2>3, <2>4, <2>5, <2>6, <2>7, <2>8
    DEF LineInv, Count, Skipped, f
<1>17. SuccessInv(o, e, p)'
  BY <1>1, <1>6, <1>8, <1>10 DEF EndInv, SuccessInv, Reading, Past
<1>. QED
  BY <1>11, <1>12, <1>14, <1>15, <1>16, <1>17 DEF EndInv

-----------------------------------------------------------------------------
(* Judging a line.                                                          *)

\* One more line end, one more line
LEMMA EndsGrow ==
  ASSUME NEW f, NEW m \in Nat, NEW n \in Nat, m < n, f[n] = "\n",
         \A j \in m + 1 .. n - 1 : f[j] # "\n"
  PROVE  /\ IsFiniteSet(Ends(f, m)) /\ Cardinality(Ends(f, m)) \in Nat
         /\ Cardinality(Ends(f, n)) = Cardinality(Ends(f, m)) + 1
<1>1. IsFiniteSet(1 .. m) /\ Ends(f, m) \subseteq 1 .. m
  BY FS_Interval DEF Ends
<1>2. IsFiniteSet(Ends(f, m))
  BY <1>1, FS_Subset, Zenon
<1>3. Ends(f, n) = Ends(f, m) \cup {n}
  <2>1. \A j \in Ends(f, n) : j \in Ends(f, m) \/ j = n
    BY DEF Ends
  <2>2. Ends(f, m) \subseteq Ends(f, n) /\ n \in Ends(f, n)
    BY DEF Ends
  <2>. QED
    BY <2>1, <2>2
<1>4. n \notin Ends(f, m)
  BY DEF Ends
<1>. QED
  BY <1>2, <1>3, <1>4, FS_AddElement, FS_CardinalityType

\* A line that is skipped ends before the identification string begins.
LEMMA SkippedLine ==
  ASSUME IdentTypes, NEW o \in Openings, NEW e \in End, NEW p \in End,
         EndInv(o, e, p), pc[e] = "line", ~CutOff(line[e]), line[e][1] \notin {"S1", "S2"}
  PROVE  /\ Count(e) <= Start(o, p) /\ Count(e) > 0
         /\ Opening(o, p)[Count(e)] = "\n"
         /\ Cardinality(Ends(Opening(o, p), Count(e))) = attempt[e] + 1
<1>. DEFINE f == Opening(o, p)
            s == line[e]
            l == Len(s)
            n == Len(consumed[e])
            m == n - l
            a == Start(o, p)
<1>1. /\ l <= n /\ m <= a
      /\ \A j \in 1 .. l : s[j] = f[m + j]
      /\ \A j \in 1 .. l - 1 : s[j] # "\n"
      /\ l >= 1 /\ attempt[e] = Cardinality(Ends(f, m))
  BY DEF EndInv, LineInv, Reading, Count, Skipped
<1>2. s[l] = "\n"
  BY DEF CutOff
<1>3. s \in Seq(Byte) /\ consumed[e] \in Seq(Byte)
  BY DEF IdentTypes
<1>4. /\ a \in Nat /\ f[a + 1] \in {"S1", "S2"}
      /\ a > 0 => f[a] = "\n"
  BY OpeningFacts
<1>a. l \in Nat /\ n \in Nat /\ m = n - l
  BY <1>3
<1>. HIDE DEF f, s, l, n, m, a
<1>5. l \in Nat /\ n \in Nat /\ m \in Nat /\ m + l = n /\ m < n
  BY <1>1, <1>a
<1>6. f[n] = "\n" /\ s[1] = f[m + 1]
  <2>1. 1 \in 1 .. l /\ l \in 1 .. l
    BY <1>1, <1>5
  <2>2. s[l] = f[m + l] /\ s[1] = f[m + 1]
    BY <1>1, <2>1
  <2>. QED
    BY <1>2, <1>5, <2>2
<1>7. m < a
  <2>1. m # a
    BY <1>4, <1>6 DEF s
  <2>. QED
    BY <1>1, <1>4, <1>5, <2>1
<1>8. n <= a
  <2>. SUFFICES ASSUME n > a PROVE FALSE
    BY <1>4, <1>5
  <2>1. a - m \in 1 .. l - 1 /\ a - m \in 1 .. l /\ m + (a - m) = a /\ a > 0
    BY <1>4, <1>5, <1>7
  <2>2. s[a - m] = f[m + (a - m)] /\ s[a - m] # "\n"
    BY <1>1, <2>1
  <2>. QED
    BY <1>4, <2>1, <2>2
<1>9. \A j \in m + 1 .. n - 1 : f[j] # "\n"
  <2>. SUFFICES ASSUME NEW j \in m + 1 .. n - 1 PROVE f[j] # "\n"
    OBVIOUS
  <2>1. j - m \in 1 .. l - 1 /\ j - m \in 1 .. l /\ m + (j - m) = j
    BY <1>5
  <2>2. s[j - m] = f[m + (j - m)] /\ s[j - m] # "\n"
    BY <1>1, <2>1
  <2>. QED
    BY <2>1, <2>2
<1>10. Cardinality(Ends(f, n)) = attempt[e] + 1
  BY <1>1, <1>5, <1>6, <1>9, EndsGrow
<1>11. n > 0
  BY <1>5
<1>. QED
  BY <1>6, <1>8, <1>10, <1>11 DEF Count, f, n, a

\* A line that is accepted is the peer's identification string.
LEMMA AcceptedLine ==
  ASSUME IdentTypes, NEW o \in Openings, NEW e \in End, NEW p \in End,
         EndInv(o, e, p), pc[e] = "line", ~CutOff(line[e]), IdentCheck(line[e])
  PROVE  /\ line[e] = o[p].ident /\ Count(e) = Total(o, p)
         /\ Cardinality(Ends(Opening(o, p), Start(o, p))) < MaxAttempts
<1>. DEFINE f == Opening(o, p)
            s == line[e]
            l == Len(s)
            n == Len(consumed[e])
            m == n - l
            a == Start(o, p)
            t == Total(o, p)
            i == o[p].ident
<1>1. /\ l <= n /\ m <= a
      /\ \A j \in 1 .. l : s[j] = f[m + j]
      /\ l >= 1 /\ attempt[e] = Cardinality(Ends(f, m)) /\ attempt[e] < MaxAttempts
      /\ m > 0 => f[m] = "\n"
      /\ n <= t
  BY DEF EndInv, LineInv, ConsumedInv, Reading, Count, Skipped
<1>2. s[l] = "\n"
  BY DEF CutOff
<1>3. s \in Seq(Byte) /\ consumed[e] \in Seq(Byte)
  BY DEF IdentTypes
<1>4. /\ a \in Nat /\ t \in Nat /\ a < t /\ i \in Seq(Byte) /\ t = a + Len(i)
      /\ \A j \in a + 1 .. t : f[j] = "\n" <=> j = t
      /\ \A j \in 1 .. a : f[j] = "S2" => j > 1 /\ f[j - 1] # "\n"
      /\ \A j \in 1 .. Len(i) : f[a + j] = i[j]
  <2>1. i \in Seq(Byte)
    BY OpeningFacts, Zenon
  <2>5. t = a + Len(i)
    BY Zenon DEF Total, Start
  <2>4. \A j \in 1 .. Len(i) : f[a + j] = i[j]
    BY OpeningFacts, Zenon
  <2>2. /\ a \in Nat /\ t \in Nat /\ a < t
        /\ \A j \in a + 1 .. t : f[j] = "\n" <=> j = t
    BY OpeningFacts, Zenon
  <2>3. \A j \in 1 .. a : f[j] = "S2" => j > 1 /\ f[j - 1] # "\n"
    BY OpeningFacts, Zenon
  <2>. QED
    BY <2>1, <2>2, <2>3, <2>4, <2>5, Zenon
<1>5. s[1] = "S2"
  BY <1>3, CheckedNotEmpty
<1>a. l \in Nat /\ n \in Nat /\ m = n - l /\ Len(i) \in Nat
  BY <1>3, <1>4
<1>. HIDE DEF f, s, l, n, m, a, t, i
<1>6. l \in Nat /\ n \in Nat /\ m \in Nat /\ m + l = n /\ m < n /\ Len(i) \in Nat
  BY <1>1, <1>a
<1>7. f[n] = "\n" /\ f[m + 1] = "S2"
  <2>1. 1 \in 1 .. l /\ l \in 1 .. l
    BY <1>1, <1>6
  <2>2. s[l] = f[m + l] /\ s[1] = f[m + 1]
    BY <1>1, <2>1
  <2>. QED
    BY <1>2, <1>5, <1>6, <2>2
<1>8. m = a
  <2>. SUFFICES ASSUME m < a PROVE FALSE
    BY <1>1, <1>4, <1>6
  <2>1. m + 1 \in 1 .. a /\ (m + 1) - 1 = m
    BY <1>4, <1>6
  <2>2. m + 1 > 1 /\ f[(m + 1) - 1] # "\n"
    BY <1>4, <1>7, <2>1
  <2>3. m > 0
    BY <1>6, <2>2
  <2>. QED
    BY <1>1, <2>1, <2>2, <2>3
<1>9. n = t
  <2>1. n \in a + 1 .. t
    BY <1>1, <1>4, <1>6, <1>8
  <2>. QED
    BY <1>4, <1>7, <2>1
<1>10. l = Len(i)
  BY <1>4, <1>6, <1>8, <1>9
<1>11. s = i
  <2>1. \A j \in 1 .. Len(s) : s[j] = i[j]
    BY <1>1, <1>4, <1>8, <1>10 DEF l
  <2>2. Len(s) = Len(i)
    BY <1>10 DEF l
  <2>. QED
    BY <1>3, <1>4, <2>1, <2>2, SeqEqual, Zenon
<1>12. Cardinality(Ends(f, a)) < MaxAttempts
  BY <1>1, <1>8
<1>. QED
  BY <1>9, <1>11, <1>12 DEF Count, f, s, n, a, t, i

LEMMA JudgeEffect ==
  ASSUME NEW e \in End, JudgeLine(e)
  PROVE  /\ pc[e] = "line"
         /\ UNCHANGED <<ident, prefix, todo, wire, consumed>>
         /\ \/ /\ pc' = [pc EXCEPT ![e] = "failed"]
               /\ UNCHANGED <<line, attempt, known>>
            \/ /\ ~CutOff(line[e]) /\ line[e][1] \notin {"S1", "S2"}
               /\ attempt' = [attempt EXCEPT ![e] = attempt[e] + 1]
               /\ line' = [line EXCEPT ![e] = <<>>] /\ known' = known
               /\ \/ attempt[e] + 1 = MaxAttempts /\ pc' = [pc EXCEPT ![e] = "failed"]
                  \/ attempt[e] + 1 # MaxAttempts /\ pc' = [pc EXCEPT ![e] = "read"]
            \/ /\ ~CutOff(line[e]) /\ IdentCheck(line[e])
               /\ pc' = [pc EXCEPT ![e] = "done"]
               /\ known' = [known EXCEPT ![e] =
                              [known[e] EXCEPT ![Peer(e)] = IdentStrip(line[e])]]
               /\ UNCHANGED <<line, attempt>>
<1>. USE DEF Goto
<1>1. \/ Goto(e, "failed") /\ UNCHANGED <<line, attempt, known>>
      \/ /\ ~CutOff(line[e]) /\ line[e][1] \notin {"S1", "S2"}
         /\ attempt' = [attempt EXCEPT ![e] = attempt[e] + 1]
         /\ Goto(e, IF OutOfAttempts(attempt[e] + 1) THEN "failed" ELSE "read")
         /\ line' = [line EXCEPT ![e] = <<>>]
         /\ UNCHANGED known
      \/ /\ ~CutOff(line[e]) /\ IdentCheck(line[e])
         /\ Goto(e, "done")
         /\ known' = [known EXCEPT ![e][Peer(e)] = Stored(line[e])]
         /\ UNCHANGED <<line, attempt>>
  BY Zenon DEF JudgeLine
<1>2. pc[e] = "line" /\ UNCHANGED <<ident, prefix, todo, wire, consumed>>
  BY Zenon DEF JudgeLine
<1>. QED
  BY <1>1, <1>2 DEF OutOfAttempts, Stored

LEMMA JudgeTypes ==
  ASSUME IdentTypes, NEW o \in Openings, NEW e \in End, EndInv(o, e, Peer(e)), JudgeLine(e)
  PROVE  IdentTypes'
<1>1. /\ \A d \in End : known[d] \in [End -> Seq(Byte)] /\ line[d] \in Seq(Byte)
      /\ attempt[e] \in 0 .. MaxAttempts /\ attempt[e] < MaxAttempts
      /\ known \in [End -> [End -> Seq(Byte)]]
  BY JudgeEffect DEF IdentTypes, EndInv, LineInv, Reading
<1>2. attempt[e] + 1 \in 0 .. MaxAttempts
  BY <1>1, IdentAssumption
<1>3. IdentStrip(line[e]) \in Seq(Byte)
  BY <1>1, StripType
<1>4. attempt' \in [End -> 0 .. MaxAttempts]
  <2>1. attempt' = attempt \/ attempt' = [attempt EXCEPT ![e] = attempt[e] + 1]
    BY JudgeEffect, Zenon
  <2>. QED
    BY <1>2, <2>1 DEF IdentTypes
<1>5. known' \in [End -> [End -> Seq(Byte)]]
  <2>. DEFINE k == [known[e] EXCEPT ![Peer(e)] = IdentStrip(line[e])]
  <2>1. k \in [End -> Seq(Byte)]
    BY <1>1, <1>3, Peers
  <2>. HIDE DEF k
  <2>2. known' = known \/ known' = [known EXCEPT ![e] = k]
    BY JudgeEffect, Zenon DEF k
  <2>. QED
    BY <1>1, <2>1, <2>2
<1>6. line' \in [End -> Seq(Byte)] /\ \A d \in End : Len(line'[d]) <= IdentMax + 1
  <2>1. line' = line \/ line' = [line EXCEPT ![e] = <<>>]
    BY JudgeEffect, Zenon
  <2>2. 0 <= IdentMax + 1 /\ <<>> \in Seq(Byte) /\ Len(<<>>) = 0
    BY IdentAssumption
  <2>. QED
    BY <2>1, <2>2 DEF IdentTypes
<1>7. pc' \in [End -> Phase]
  <2>1. \E l \in {"failed", "read", "done"} : pc' = [pc EXCEPT ![e] = l]
    BY JudgeEffect, Zenon
  <2>. QED
    BY <2>1 DEF IdentTypes, Phase, Reading, Past
<1>8. UNCHANGED <<todo, wire, consumed>>
  BY JudgeEffect, Zenon
<1>. QED
  BY <1>4, <1>5, <1>6, <1>7, <1>8 DEF IdentTypes

LEMMA JudgeStep ==
  ASSUME IdentTypes, NEW o \in Openings, NEW e \in End, NEW p \in End, p = Peer(e),
         EndInv(o, e, p), EndInv(o, p, e), JudgeLine(e)
  PROVE  EndInv(o, e, p)' /\ EndInv(o, p, e)'
<1>. DEFINE f == Opening(o, p)
            n == Len(consumed[e])
<1>1. /\ p # e /\ pc[e] = "line"
      /\ UNCHANGED <<ident, prefix, todo, wire, consumed>>
  BY Peers, JudgeEffect, Zenon
<1>2. /\ line \in [End -> Seq(Byte)] /\ pc \in [End -> Phase]
      /\ attempt \in [End -> 0 .. MaxAttempts] /\ known \in [End -> [End -> Seq(Byte)]]
      /\ known[e] \in [End -> Seq(Byte)] /\ n \in Nat
  BY DEF IdentTypes
<1>. HIDE DEF n, f
<1>3. CASE pc' = [pc EXCEPT ![e] = "failed"] /\ UNCHANGED <<line, attempt, known>>
  <2>1. pc'[e] = "failed" /\ pc'[p] = pc[p]
    BY <1>1, <1>2, <1>3, Zenon
  <2>2. EndInv(o, p, e)'
    BY <1>1, <1>3, <2>1, Stays
  <2>3. EndInv(o, e, p)'
    BY <1>1, <1>3, <2>1, Move DEF Unread, Reading, Past, HasWritten
  <2>. QED
    BY <2>2, <2>3
<1>4. CASE /\ ~CutOff(line[e]) /\ line[e][1] \notin {"S1", "S2"}
           /\ attempt' = [attempt EXCEPT ![e] = attempt[e] + 1]
           /\ line' = [line EXCEPT ![e] = <<>>] /\ known' = known
           /\ \/ attempt[e] + 1 = MaxAttempts /\ pc' = [pc EXCEPT ![e] = "failed"]
              \/ attempt[e] + 1 # MaxAttempts /\ pc' = [pc EXCEPT ![e] = "read"]
  <2>1. /\ line'[p] = line[p] /\ pc'[p] = pc[p] /\ attempt'[p] = attempt[p]
        /\ line'[e] = <<>> /\ attempt'[e] = attempt[e] + 1
        /\ \/ attempt[e] + 1 = MaxAttempts /\ pc'[e] = "failed"
           \/ attempt[e] + 1 # MaxAttempts /\ pc'[e] = "read"
    BY <1>1, <1>2, <1>4, Zenon
  <2>2. EndInv(o, p, e)'
    BY <1>1, <1>4, <2>1, Stays
  <2>3. /\ n <= Start(o, p) /\ n > 0 /\ f[n] = "\n"
        /\ Cardinality(Ends(f, n)) = attempt[e] + 1
    BY <1>1, <1>4, SkippedLine DEF Count, n, f
  <2>4. attempt[e] \in Nat /\ attempt[e] < MaxAttempts /\ known[e][p] = <<>>
    BY <1>1, <1>2 DEF EndInv, LineInv, Reading
  <2>5. LineInv(o, e, p)'
    <3>1. /\ Len(<<>>) = 0 /\ n - 0 = n /\ 0 <= IdentMax
          /\ (attempt[e] + 1 # MaxAttempts => attempt[e] + 1 < MaxAttempts)
          /\ n >= 0
      <4>1. Len(<<>>) = 0
        OBVIOUS
      <4>2. n - 0 = n /\ n >= 0
        BY <1>2
      <4>3. 0 <= IdentMax
        BY IdentAssumption
      <4>4. attempt[e] + 1 # MaxAttempts => attempt[e] + 1 < MaxAttempts
        BY <2>4, IdentAssumption
      <4>. QED
        BY <4>1, <4>2, <4>3, <4>4, Zenon
    <3>2. pc'[e] \in Unread \cup Reading => attempt[e] + 1 # MaxAttempts /\ pc'[e] # "line"
      BY <2>1 DEF Unread, Reading
    <3>3. Count(e)' = n /\ Skipped(e)' = n
      BY <1>1, <1>2, <2>1 DEF Count, Skipped, n
    <3>. QED
      BY <1>1, <1>4, <2>1, <2>3, <2>4, <3>1, <3>2, <3>3 DEF LineInv, f
  <2>6. StreamInv(o, e, p)'
    BY <1>1 DEF EndInv, StreamInv, Count, Written, Reading
  <2>7. WriteInv(o, e)'
    BY <1>1 DEF EndInv, WriteInv, Written, HasWritten
  <2>8. ConsumedInv(o, e, p)'
    BY <1>1 DEF EndInv, ConsumedInv, Count
  <2>9. SuccessInv(o, e, p)'
    BY <1>1, <1>4, <2>1, <2>4 DEF EndInv, SuccessInv, Reading, Past
  <2>. QED
    BY <2>2, <2>5, <2>6, <2>7, <2>8, <2>9 DEF EndInv
<1>5. CASE /\ ~CutOff(line[e]) /\ IdentCheck(line[e])
           /\ pc' = [pc EXCEPT ![e] = "done"]
           /\ known' = [known EXCEPT ![e] = [known[e] EXCEPT ![p] = IdentStrip(line[e])]]
           /\ UNCHANGED <<line, attempt>>
  <2>1. /\ pc'[p] = pc[p] /\ known'[p] = known[p] /\ pc'[e] = "done"
        /\ known'[e] = [known[e] EXCEPT ![p] = IdentStrip(line[e])]
    BY <1>1, <1>2, <1>5, Zenon
  <2>2. known'[e][p] = IdentStrip(line[e]) /\ known'[e][e] = known[e][e]
    BY <1>1, <1>2, <2>1, Zenon
  <2>3. EndInv(o, p, e)'
    BY <1>1, <1>5, <2>1, Stays
  <2>4. /\ line[e] = o[p].ident /\ Count(e) = Total(o, p)
        /\ Cardinality(Ends(Opening(o, p), Start(o, p))) < MaxAttempts
    BY <1>1, <1>5, AcceptedLine
  <2>5. IdentStrip(line[e]) # <<>>
    BY <1>2, <1>5, CheckedNotEmpty
  <2>6. known[e][e] = IdentStrip(o[e].ident)
    BY <1>1 DEF EndInv, SuccessInv, Reading
  <2>7. SuccessInv(o, e, p)'
    BY <1>1, <1>5, <2>1, <2>2, <2>4, <2>5, <2>6 DEF SuccessInv, Count, Reading
  <2>8. StreamInv(o, e, p)'
    BY <1>1 DEF EndInv, StreamInv, Count, Written, Reading
  <2>9. WriteInv(o, e)'
    BY <1>1 DEF EndInv, WriteInv, Written, HasWritten
  <2>10. ConsumedInv(o, e, p)'
    BY <1>1 DEF EndInv, ConsumedInv, Count
  <2>11. LineInv(o, e, p)'
    BY <2>1 DEF LineInv, Unread, Reading
  <2>. QED
    BY <2>3, <2>7, <2>8, <2>9, <2>10, <2>11 DEF EndInv
<1>. QED
  BY <1>3, <1>4, <1>5, JudgeEffect, Zenon

-----------------------------------------------------------------------------
(* The exchange as a whole.                                                 *)

LEMMA OpenedInv ==
  ASSUME Opened, pc \in [End -> Unread]
  PROVE  ExchangeInv
<1>1. PICK o \in Openings : OpenedBy(o)
  BY Zenon DEF Opened, OpenedBy
<1>2. /\ todo = ident
      /\ wire = [e \in End |-> prefix[Peer(e)]]
      /\ line = [e \in End |-> <<>>]
      /\ attempt = [e \in End |-> 0]
      /\ known = [e \in End |-> [id \in End |-> <<>>]]
      /\ consumed = [e \in End |-> <<>>]
  BY Zenon DEF Opened
<1>3. \A e \in End : o[e].prefix \in Seq(Byte) /\ o[e].ident \in Seq(Byte) /\ Peer(e) \in End
  BY OpeningFacts, Peers, Zenon
<1>4. /\ ident = [e \in End |-> o[e].ident] /\ prefix = [e \in End |-> o[e].prefix]
  BY <1>1 DEF OpenedBy
<1>5. IdentTypes
  <2>1. todo \in [End -> Seq(Byte)]
    BY <1>2, <1>3, <1>4
  <2>2. \A e \in End : prefix[Peer(e)] \in Seq(Symbol)
    BY <1>3, <1>4 DEF Symbol
  <2>3. wire \in [End -> Seq(Symbol)]
    BY <1>2, <2>2
  <2>4. /\ <<>> \in Seq(Byte) /\ Len(<<>>) = 0 /\ 0 <= IdentMax + 1
        /\ 0 \in 0 .. MaxAttempts
    BY IdentAssumption
  <2>5. \A e \in End : line[e] = <<>>
    BY <1>2
  <2>. QED
    BY <1>2, <2>1, <2>3, <2>4, <2>5 DEF IdentTypes, Phase
<1>6. ASSUME NEW e \in End PROVE EndInv(o, e, Peer(e))
  <2>. DEFINE p == Peer(e)
              g == o[p].prefix
  <2>1. /\ p \in End /\ todo[e] = o[e].ident /\ todo[p] = o[p].ident
        /\ wire[e] = g /\ line[e] = <<>> /\ attempt[e] = 0
        /\ known[e][p] = <<>> /\ consumed[e] = <<>> /\ pc[e] \in Unread
    BY <1>2, <1>3, <1>4, Zenon
  <2>2. /\ g \in Seq(Byte) /\ Len(g) = Start(o, p)
    BY <1>3 DEF Start
  <2>3. /\ Len(o[e].ident) \in Nat /\ Len(o[p].ident) \in Nat
        /\ Len(<<>>) = 0 /\ Len(g) \in Nat /\ Len(o[e].prefix) \in Nat
    BY <1>3
  <2>. HIDE DEF p, g
  <2>4. /\ Total(o, p) = Start(o, p) + Len(o[p].ident)
        /\ Total(o, e) = Start(o, e) + Len(o[e].ident)
        /\ Total(o, p) \in Nat /\ Start(o, p) \in Nat /\ Start(o, e) \in Nat
        /\ \A j \in 1 .. Len(o[e].ident) : Opening(o, e)[Start(o, e) + j] = o[e].ident[j]
    BY <2>1, OpeningFacts, Zenon
  <2>5. \A j \in 1 .. Start(o, p) : g[j] = Opening(o, p)[j]
    <3>1. o[p].ident \in Seq(Byte)
      BY <1>3, <2>1
    <3>2. Opening(o, p) = g \o o[p].ident
      BY DEF Opening, g
    <3>. QED
      BY <2>2, <3>1, <3>2
  <2>6. pc[e] \notin HasWritten /\ pc[e] \notin Reading /\ pc[e] \notin Past /\ pc[e] # "answer"
        /\ pc[e] # "line"
    BY <2>1 DEF Unread, HasWritten, Reading, Past
  <2>7. WriteInv(o, e)
    <3>1. Written(o, e) = Start(o, e)
      BY <2>1, <2>3, <2>4 DEF Written
    <3>2. Len(o[e].ident) <= Len(o[e].ident)
      BY <2>3
    <3>. QED
      BY <2>1, <2>4, <2>6, <3>1, <3>2 DEF WriteInv
  <2>8. StreamInv(o, e, p)
    <3>1. Written(o, p) = Start(o, p)
      BY <2>1, <2>3, <2>4 DEF Written
    <3>2. Count(e) = 0
      BY <2>1, <2>3 DEF Count
    <3>3. 0 + Start(o, p) = Start(o, p) /\ Start(o, p) >= Start(o, p)
          /\ \A j \in 1 .. Start(o, p) : 0 + j = j
      BY <2>4
    <3>. QED
      BY <2>1, <2>2, <2>5, <3>1, <3>2, <3>3 DEF StreamInv
  <2>9. ConsumedInv(o, e, p)
    BY <2>1, <2>3, <2>4 DEF ConsumedInv, Count
  <2>10. LineInv(o, e, p)
    <3>1. Count(e) = 0 /\ Skipped(e) = 0 /\ Len(line[e]) = 0
      BY <2>1, <2>3 DEF Count, Skipped
    <3>2. Cardinality(Ends(Opening(o, p), 0)) = 0
      <4>1. Ends(Opening(o, p), 0) = {}
        BY DEF Ends
      <4>. QED
        BY <4>1, FS_EmptySet
    <3>3. 0 < MaxAttempts /\ 0 <= IdentMax /\ 0 <= 0 /\ ~(0 > 0) /\ 0 <= Start(o, p)
          /\ 1 .. 0 = {} /\ 1 .. 0 - 1 = {}
      BY <2>4, IdentAssumption
    <3>. QED
      BY <2>1, <2>6, <3>1, <3>2, <3>3 DEF LineInv
  <2>11. SuccessInv(o, e, p)
    BY <2>1, <2>6 DEF SuccessInv
  <2>. QED
    BY <2>7, <2>8, <2>9, <2>10, <2>11 DEF EndInv, p
<1>. QED
  BY <1>1, <1>5, <1>6, Zenon DEF ExchangeInv

LEMMA ExchangeStep ==
  ASSUME ExchangeInv, NEW e \in End, Exchange(e) \/ Broken(e)
  PROVE  ExchangeInv'
<1>. DEFINE p == Peer(e)
<1>1. PICK o \in Openings : OpenedBy(o) /\ \A d \in End : EndInv(o, d, Peer(d))
  BY Zenon DEF ExchangeInv
<1>2. /\ p \in End /\ p # e /\ Peer(p) = e /\ \A d \in End : d = e \/ d = p
      /\ EndInv(o, e, p) /\ EndInv(o, p, e) /\ IdentTypes
  BY <1>1, Peers, Zenon DEF ExchangeInv
<1>3. OpenedBy(o)'
  BY <1>1, Zenon DEF OpenedBy, Exchange, Write, ReadByte, Receive, JudgeLine, PeerGone, Broken,
     OnlyGoto
<1>. HIDE DEF p
<1>4. ASSUME PeerGone(e) \/ Broken(e)
      PROVE  EndInv(o, e, p)' /\ EndInv(o, p, e)' /\ IdentTypes'
  <2>1. pc' = [pc EXCEPT ![e] = "failed"]
        /\ UNCHANGED <<ident, prefix, todo, wire, line, attempt, known, consumed>>
    BY <1>4, Zenon DEF PeerGone, Broken, Goto, OnlyGoto
  <2>2. pc'[e] = "failed" /\ pc'[p] = pc[p] /\ pc' \in [End -> Phase]
    BY <1>2, <2>1 DEF IdentTypes, Phase
  <2>3. EndInv(o, p, e)'
    BY <1>2, <2>1, <2>2, Stays
  <2>4. EndInv(o, e, p)'
    BY <1>2, <2>1, <2>2, Move DEF Unread, Reading, Past, HasWritten
  <2>. QED
    BY <1>2, <2>1, <2>2, <2>3, <2>4 DEF IdentTypes
<1>5. EndInv(o, e, p)' /\ EndInv(o, p, e)' /\ IdentTypes'
  <2>1. CASE Write(e)
    BY <1>1, <1>2, <2>1, WriteStep, WriteTypes DEF p
  <2>2. CASE ReadByte(e)
    BY <1>2, <2>2, ReadStep, ReadTypes
  <2>3. CASE JudgeLine(e)
    BY <1>2, <2>3, JudgeStep, JudgeTypes DEF p
  <2>. QED
    BY <1>4, <2>1, <2>2, <2>3 DEF Exchange
<1>6. \A d \in End : EndInv(o, d, Peer(d))'
  <2>1. EndInv(o, e, Peer(e))' /\ EndInv(o, p, Peer(p))'
    BY <1>2, <1>5 DEF p
  <2>. QED
    BY <1>2, <2>1, Zenon
<1>. QED
  BY <1>3, <1>5, <1>6, Zenon DEF ExchangeInv

LEMMA ExchangeStutter ==
  ASSUME ExchangeInv, UNCHANGED vars
  PROVE  ExchangeInv'
<1>1. PICK o \in Openings : OpenedBy(o) /\ \A d \in End : EndInv(o, d, Peer(d))
  BY Zenon DEF ExchangeInv
<1>2. OpenedBy(o)' /\ IdentTypes'
  BY <1>1 DEF OpenedBy, ExchangeInv, IdentTypes, vars
<1>3. ASSUME NEW d \in End PROVE EndInv(o, d, Peer(d))'
  BY <1>1, Stays DEF vars
<1>. QED
  BY <1>2, <1>3, Zenon DEF ExchangeInv

\* A step of the exchange takes no end into or out of the phases behind it, but
\* for one that succeeds.
LEMMA ExchangePhases ==
  ASSUME IdentTypes, NEW e \in End, Exchange(e)
  PROVE  /\ pc[e] \in {"write", "read", "line"}
         /\ pc'[e] \in {"write", "read", "line", "done", "failed"}
         /\ \A d \in End : d # e => pc'[d] = pc[d]
<1>1. pc[e] \in {"write", "read", "line"}
  BY DEF Exchange, Write, ReadByte, Receive, JudgeLine, PeerGone
<1>2. pc \in [End -> Phase]
  BY DEF IdentTypes
<1>3. pc' = pc \/ \E l \in {"write", "read", "line", "done", "failed"} :
                    pc' = [pc EXCEPT ![e] = l]
  <2>1. CASE Write(e)
    BY <2>1, Zenon DEF Write, Goto
  <2>2. CASE ReadByte(e)
    BY <2>2, Zenon DEF ReadByte, Receive, Goto
  <2>3. CASE JudgeLine(e)
    BY <2>3, JudgeEffect, Zenon
  <2>4. CASE PeerGone(e)
    BY <2>4, Zenon DEF PeerGone, Goto
  <2>. QED
    BY <2>1, <2>2, <2>3, <2>4, Zenon DEF Exchange
<1>. QED
  BY <1>1, <1>2, <1>3

-----------------------------------------------------------------------------
(* What the invariant says of an exchange.                                  *)

LEMMA InvTypes == ExchangeInv => IdentTypeOK
<1>. SUFFICES ASSUME ExchangeInv PROVE IdentTypeOK
  OBVIOUS
<1>1. PICK o \in Openings : OpenedBy(o)
  BY Zenon DEF ExchangeInv
<1>2. \A e \in End : o[e].ident \in Seq(Byte) /\ o[e].prefix \in Seq(Byte)
  BY OpeningFacts, Zenon
<1>3. ident \in [End -> Seq(Byte)] /\ prefix \in [End -> Seq(Byte)]
  BY <1>1, <1>2 DEF OpenedBy
<1>4. \A e \in End : Len(line[e]) + 1 <= IdentMax + 2
  <2>. SUFFICES ASSUME NEW e \in End PROVE Len(line[e]) + 1 <= IdentMax + 2
    OBVIOUS
  <2>1. Len(line[e]) \in Nat /\ Len(line[e]) <= IdentMax + 1
    BY DEF ExchangeInv, IdentTypes
  <2>. QED
    BY <2>1, IdentAssumption
<1>. QED
  BY <1>3, <1>4 DEF ExchangeInv, IdentTypes, IdentTypeOK

LEMMA InvAgreement == ExchangeInv => Agreement
<1>. SUFFICES ASSUME ExchangeInv, \A e \in End : Succeeded(e)
              PROVE  known["client"] = known["server"]
  BY DEF Agreement
<1>1. PICK o \in Openings : \A e \in End : SuccessInv(o, e, Peer(e))
  BY Zenon DEF ExchangeInv, EndInv
<1>2. \A e \in End : /\ known[e][Peer(e)] = IdentStrip(o[Peer(e)].ident)
                     /\ known[e][e] = IdentStrip(o[e].ident)
  BY <1>1, Zenon DEF SuccessInv, Succeeded
<1>3. \A e \in End : known[e] \in [End -> Seq(Byte)]
  BY DEF ExchangeInv, IdentTypes
<1>4. /\ known["client"] \in [End -> Seq(Byte)] /\ known["server"] \in [End -> Seq(Byte)]
      /\ \A d \in End : known["client"][d] = known["server"][d]
  BY <1>2, <1>3 DEF End, Peer
<1>. QED
  BY <1>4

LEMMA InvUnread == ExchangeInv => PacketsLeftUnread
<1>. SUFFICES ASSUME ExchangeInv, NEW e \in End, Succeeded(e)
              PROVE  consumed[e] = prefix[Peer(e)] \o ident[Peer(e)]
  BY DEF PacketsLeftUnread
<1>. DEFINE p == Peer(e)
<1>1. PICK o \in Openings : OpenedBy(o) /\ EndInv(o, e, p)
  BY Zenon DEF ExchangeInv
<1>2. p \in End /\ consumed[e] \in Seq(Byte)
  BY Peers DEF ExchangeInv, IdentTypes
<1>3. prefix[p] \o ident[p] = Opening(o, p)
  BY <1>1, <1>2 DEF OpenedBy, Opening
<1>. HIDE DEF p
<1>4. /\ Len(consumed[e]) = Total(o, p)
      /\ \A j \in 1 .. Len(consumed[e]) : consumed[e][j] = Opening(o, p)[j]
  BY <1>1 DEF EndInv, SuccessInv, ConsumedInv, Count, Succeeded, p
<1>5. Opening(o, p) \in Seq(Byte) /\ Len(Opening(o, p)) = Total(o, p)
  BY <1>2, OpeningFacts, Zenon
<1>6. consumed[e] = Opening(o, p)
  BY <1>2, <1>4, <1>5, SeqEqual, Zenon
<1>. QED
  BY <1>3, <1>6 DEF p

\* What session_ident_check lets through
LEMMA CheckedBytes ==
  ASSUME NEW s \in Seq(Byte), IdentCheck(s)
  PROVE  LET t == IdentStrip(s) IN
         \A i \in DOMAIN t :
           /\ t[i] \notin {"ctl", "\r"}
           /\ t[i] = "-" => \E k \in 2 .. i : t[k] = " "
<1>. DEFINE t == IdentStrip(s)
            spaces == {i \in DOMAIN t : t[i] = " "}
            end == IF spaces = {} THEN Len(t) + 1 ELSE Min(spaces)
<1>1. /\ Len(t) \in 2 .. IdentMax - 2 /\ t[1] = "S2"
      /\ \A i \in 2 .. end - 1 : SoftwareByte(t[i])
      /\ \A i \in end .. Len(t) : CommentByte(t[i])
  BY Zenon DEF IdentCheck
<1>2. t \in Seq(Byte)
  BY StripType
<1>. HIDE DEF t
<1>3. DOMAIN t = 1 .. Len(t) /\ Len(t) \in Nat
  BY <1>2
<1>4. spaces \subseteq Nat
  <2>1. \A i \in spaces : i \in 1 .. Len(t)
    BY <1>3
  <2>. HIDE DEF spaces
  <2>. QED
    BY <1>3, <2>1
<1>5. CASE spaces = {}
  <2>1. end = Len(t) + 1
    BY <1>5
  <2>. HIDE DEF end
  <2>2. \A i \in 1 .. Len(t) : i = 1 \/ i \in 2 .. end - 1
    BY <1>3, <2>1
  <2>3. \A i \in 1 .. Len(t) : t[i] \in {"S2", "x"}
    BY <1>1, <2>2 DEF SoftwareByte
  <2>. QED
    BY <1>3, <2>3 DEF t
<1>6. CASE spaces # {}
  <2>1. end \in spaces
    <3>1. end = Min(spaces)
      BY <1>6
    <3>. HIDE DEF end, spaces
    <3>. QED
      BY <1>4, <1>6, <3>1, MinIs
  <2>2. end \in 1 .. Len(t) /\ t[end] = " "
    BY <1>3, <2>1
  <2>. HIDE DEF end, spaces
  <2>3. end # 1
    BY <1>1, <2>2
  <2>4. end \in 2 .. Len(t)
    <3>1. \A n \in Nat : \A x \in 1 .. n : x # 1 => x \in 2 .. n
      OBVIOUS
    <3>. QED
      BY <1>3, <2>2, <2>3, <3>1, Zenon
  <2>5. ASSUME NEW i \in 1 .. Len(t)
        PROVE  /\ t[i] \notin {"ctl", "\r"}
               /\ t[i] = "-" => \E k \in 2 .. i : t[k] = " "
    <3>1. CASE i = 1
      <4>1. t[i] = "S2"
        BY <1>1, <3>1
      <4>2. t[i] \notin {"ctl", "\r"} /\ t[i] # "-"
        BY <4>1
      <4>. QED
        BY <4>2, Zenon
    <3>2. CASE i \in 2 .. end - 1
      BY <1>1, <3>2 DEF SoftwareByte
    <3>3. CASE i \in end .. Len(t)
      <4>1. end \in 2 .. i
        BY <1>3, <2>4, <3>3
      <4>2. t[i] \in {"x", "-", " "}
        BY <1>1, <3>3 DEF CommentByte
      <4>. QED
        BY <2>2, <4>1, <4>2
    <3>4. i = 1 \/ i \in 2 .. end - 1 \/ i \in end .. Len(t)
      <4>1. \A n \in Nat : \A x \in 1 .. n, y \in Int :
              x = 1 \/ x \in 2 .. y - 1 \/ x \in y .. n
        OBVIOUS
      <4>2. end \in Int
        BY <2>4
      <4>. QED
        BY <1>3, <4>1, <4>2, Zenon
    <3>. QED
      BY <3>1, <3>2, <3>3, <3>4, Zenon
  <2>. QED
    BY <1>3, <2>5 DEF t
<1>. QED
  BY <1>5, <1>6

LEMMA InvNoJunk == ExchangeInv => NoJunkAccepted
<1>. SUFFICES ASSUME ExchangeInv, NEW e \in End, Succeeded(e)
              PROVE  /\ Cardinality(LineEnds(prefix[Peer(e)])) < MaxAttempts
                     /\ ident[Peer(e)][1] = "S2"
                     /\ LET t == IdentStrip(ident[Peer(e)]) IN
                        \A i \in DOMAIN t :
                          /\ t[i] \notin {"ctl", "\r"}
                          /\ t[i] = "-" => \E k \in 2 .. i : t[k] = " "
  BY Zenon DEF NoJunkAccepted
<1>. DEFINE p == Peer(e)
<1>1. PICK o \in Openings : OpenedBy(o) /\ EndInv(o, e, p)
  BY Zenon DEF ExchangeInv
<1>2. p \in End
  BY Peers
<1>3. ident[p] = o[p].ident /\ prefix[p] = o[p].prefix
  BY <1>1, <1>2 DEF OpenedBy
<1>. HIDE DEF p
<1>4. /\ IdentCheck(o[p].ident)
      /\ Cardinality(Ends(Opening(o, p), Start(o, p))) < MaxAttempts
  BY <1>1 DEF EndInv, SuccessInv, Succeeded, p
<1>5. o[p].ident \in Seq(Byte) /\ o[p].prefix \in Seq(Byte)
  BY <1>2, OpeningFacts, Zenon
<1>6. o[p].ident[1] = "S2"
  BY <1>4, <1>5, CheckedNotEmpty
<1>7. LineEnds(o[p].prefix) = Ends(Opening(o, p), Start(o, p))
  <2>. DEFINE f == o[p].prefix
              g == o[p].ident
  <2>1. Opening(o, p) = f \o g /\ Start(o, p) = Len(f)
    BY DEF Opening, Start
  <2>2. f \in Seq(Byte) /\ g \in Seq(Byte)
    BY <1>5
  <2>. HIDE DEF f, g
  <2>3. /\ DOMAIN f = 1 .. Len(f)
        /\ \A i \in 1 .. Len(f) : (f \o g)[i] = f[i]
    BY <2>2
  <2>4. LineEnds(f) = Ends(f \o g, Len(f))
    BY <2>3 DEF LineEnds, Ends
  <2>. QED
    BY <2>1, <2>4 DEF f
<1>. QED
  BY <1>3, <1>4, <1>5, <1>6, <1>7, CheckedBytes, Zenon DEF p

-----------------------------------------------------------------------------
(* A peer that keeps to RFC 4253.                                           *)

\* session_ident_check refuses no string that RFC 4253 allows.
LEMMA RfcChecked ==
  ASSUME NEW s
  PROVE  s \in Seq(Byte) /\ RfcIdent(s) /\ Len(s) <= IdentMax => IdentCheck(s)
<1>a. SUFFICES ASSUME s \in Seq(Byte), RfcIdent(s), Len(s) <= IdentMax
               PROVE  IdentCheck(s)
  OBVIOUS
<1>. DEFINE t == IdentStrip(s)
            spaces == {i \in DOMAIN t : t[i] = " "}
            end == IF spaces = {} THEN Len(t) + 1 ELSE Min(spaces)
            l == Len(s)
<1>0. PICK n \in 3 .. l - 1 :
        /\ s[1] = "S2" /\ \A i \in 2 .. n - 1 : s[i] = "x"
        /\ s[n] \in {" ", "\r"}
        /\ \A i \in n .. l - 2 : s[i] \in {"x", "-", " "}
        /\ SubSeq(s, l - 1, l) = <<"\r", "\n">>
  BY <1>a, Zenon DEF RfcIdent
<1>1. /\ s[1] = "S2" /\ \A i \in 2 .. n - 1 : s[i] = "x"
      /\ s[n] \in {" ", "\r"}
      /\ \A i \in n .. l - 2 : s[i] \in {"x", "-", " "}
  BY <1>0, Zenon
<1>2. l \in Nat
  BY <1>a
<1>b. n \in Int /\ n >= 3 /\ n <= l - 1 /\ l \in Int
  BY <1>2
<1>c. \A j \in 1 .. l - 2 : j = 1 \/ j \in 2 .. n - 1 \/ j >= n
  <2>. SUFFICES ASSUME NEW j \in 1 .. l - 2 PROVE j = 1 \/ j \in 2 .. n - 1 \/ j >= n
    OBVIOUS
  <2>1. j \in Int /\ j >= 1
    BY <1>b
  <2>. HIDE DEF spaces, end
  <2>. QED
    BY <1>b, <2>1
<1>3. s[l - 1] \in Crlf /\ s[l] \in Crlf
  <2>1. l - 1 \in Int /\ l - 1 >= 1 /\ l - 1 <= l /\ \A i \in l - 1 .. l : s[i] \in Byte
    BY <1>a, <1>2
  <2>2. SubSeq(s, l - 1, l)[1] = s[l - 1] /\ SubSeq(s, l - 1, l)[2] = s[l]
    <3>1. \A i \in 1 .. l - (l - 1) + 1 : SubSeq(s, l - 1, l)[i] = s[(l - 1) + i - 1]
      BY <1>2, <2>1, SubSeqProperties
    <3>. HIDE DEF l
    <3>2. 1 \in 1 .. l - (l - 1) + 1 /\ 2 \in 1 .. l - (l - 1) + 1
          /\ (l - 1) + 1 - 1 = l - 1 /\ (l - 1) + 2 - 1 = l
      BY <1>2
    <3>. QED
      BY <3>1, <3>2
  <2>3. s[l - 1] = "\r" /\ s[l] = "\n"
    <3>1. <<"\r", "\n">>[1] = "\r" /\ <<"\r", "\n">>[2] = "\n"
      OBVIOUS
    <3>2. SubSeq(s, l - 1, l) = <<"\r", "\n">>
      BY <1>0, Zenon
    <3>. HIDE DEF l
    <3>. QED
      BY <2>2, <3>1, <3>2
  <2>. QED
    BY <2>3 DEF Crlf
<1>4. PICK k \in 0 .. l :
        /\ t \in Seq(Byte) /\ Len(t) = k /\ \A i \in 1 .. k : t[i] = s[i]
        /\ k > 0 => s[k] \notin Crlf
        /\ \A i \in k + 1 .. l : s[i] \in Crlf
  BY <1>a, Stripped
<1>. HIDE DEF t, l
<1>5. k = l - 2
  <2>1. k # l /\ k # l - 1
    BY <1>b, <1>2, <1>3, <1>4
  <2>2. s[l - 2] \notin Crlf
    <3>1. CASE n = l - 1
      <4>1. l - 2 \in 2 .. n - 1
        BY <1>b, <1>2, <3>1
      <4>2. s[l - 2] = "x"
        BY <1>1, <4>1
      <4>. QED
        BY <4>2 DEF Crlf
    <3>2. CASE n # l - 1
      <4>1. l - 2 \in n .. l - 2
        BY <1>b, <1>2, <3>2
      <4>2. s[l - 2] \in {"x", "-", " "}
        BY <1>1, <4>1
      <4>. QED
        BY <4>2 DEF Crlf
    <3>. QED
      BY <3>1, <3>2
  <2>3. k >= l - 2
    <3>. SUFFICES ASSUME k < l - 2 PROVE FALSE
      BY <1>2
    <3>1. l - 2 \in k + 1 .. l
      BY <1>2
    <3>. QED
      BY <1>4, <2>2, <3>1
  <2>. QED
    BY <1>2, <2>1, <2>3
<1>6. DOMAIN t = 1 .. l - 2 /\ Len(t) = l - 2
  BY <1>4, <1>5
<1>7. \A i \in 1 .. l - 2 : t[i] = s[i]
  BY <1>4, <1>5
<1>8. end = n
  <2>1. CASE n = l - 1
    <3>1. ASSUME NEW i \in spaces PROVE FALSE
      <4>0. i \in 1 .. l - 2
        BY <1>6
      <4>1. i \in 1 .. l - 2 /\ t[i] = " "
        BY <1>6
      <4>2. s[i] = " "
        BY <1>7, <4>1
      <4>3. i = 1 \/ i \in 2 .. n - 1
        <5>1. ~(i >= n)
          <6>. HIDE DEF spaces
          <6>. QED
            BY <1>b, <2>1, <4>0
        <5>. QED
          BY <1>c, <4>0, <5>1, Zenon
      <4>. QED
        BY <1>1, <4>2, <4>3
    <3>2. spaces = {}
      <4>. HIDE DEF spaces
      <4>. QED
        BY <3>1
    <3>3. end = Len(t) + 1
      BY <3>2
    <3>4. Len(t) = l - 2
      BY <1>6
    <3>. HIDE DEF end
    <3>. QED
      BY <1>b, <2>1, <3>3, <3>4
  <2>2. CASE n # l - 1
    <3>1. n \in 1 .. l - 2 /\ n \in n .. l - 2
      BY <1>b, <1>2, <2>2
    <3>2. s[n] = " "
      <4>1. s[n] \in {" ", "\r"} /\ s[n] \in {"x", "-", " "}
        BY <1>1, <3>1
      <4>. QED
        BY <4>1
    <3>3. n \in spaces
      BY <1>6, <1>7, <3>1, <3>2
    <3>4. ASSUME NEW i \in spaces PROVE i >= n
      <4>0. i \in 1 .. l - 2
        BY <1>6
      <4>1. i \in 1 .. l - 2 /\ t[i] = " "
        BY <1>6
      <4>2. s[i] = " "
        BY <1>7, <4>1
      <4>3. i # 1 /\ i \notin 2 .. n - 1
        BY <1>1, <4>2
      <4>. QED
        BY <1>c, <4>0, <4>3, Zenon
    <3>5. spaces \subseteq Nat
      <4>1. \A i \in spaces : i \in 1 .. l - 2
        BY <1>6
      <4>. HIDE DEF spaces
      <4>. QED
        BY <4>1
    <3>6. end = Min(spaces)
      BY <3>3
    <3>. HIDE DEF end, spaces
    <3>7. end \in spaces /\ end <= n
      BY <3>3, <3>5, <3>6, MinIs
    <3>8. end >= n /\ end \in Nat
      BY <3>4, <3>5, <3>7
    <3>. QED
      BY <3>7, <3>8
  <2>. QED
    BY <2>1, <2>2
<1>9. Len(t) \in 2 .. IdentMax - 2
  <2>1. l <= IdentMax
    BY <1>a DEF l
  <2>. QED
    BY <1>b, <1>2, <1>6, <2>1, IdentAssumption
<1>10. t[1] = "S2"
  <2>1. 1 \in 1 .. l - 2
    BY <1>b, <1>2
  <2>. QED
    BY <1>1, <1>7, <2>1
<1>11. \A i \in 2 .. n - 1 : SoftwareByte(t[i])
  <2>1. \A i \in 2 .. n - 1 : i \in 1 .. l - 2
    BY <1>b, <1>2
  <2>. QED
    BY <1>1, <1>7, <2>1 DEF SoftwareByte
<1>12. \A i \in n .. Len(t) : CommentByte(t[i])
  <2>1. \A i \in n .. l - 2 : i \in 1 .. l - 2
    BY <1>b, <1>2
  <2>. QED
    BY <1>1, <1>6, <1>7, <2>1 DEF CommentByte
<1>. QED
  BY <1>8, <1>9, <1>10, <1>11, <1>12, Zenon DEF IdentCheck, t

\* The line of a sequence that ends at k and begins behind m
LEMMA LineBetween ==
  ASSUME NEW g
  PROVE  \A k \in LineEnds(g), m \in Nat :
           /\ g \in Seq(Byte) /\ m < k /\ (m > 0 => g[m] = "\n")
           /\ \A j \in m + 1 .. k - 1 : g[j] # "\n"
           => Len(LineAt(g, k)) = k - m /\ LineAt(g, k)[1] = g[m + 1]
<1>a. SUFFICES ASSUME NEW k \in LineEnds(g), NEW m \in Nat, g \in Seq(Byte), m < k,
                      m > 0 => g[m] = "\n", \A j \in m + 1 .. k - 1 : g[j] # "\n"
               PROVE  Len(LineAt(g, k)) = k - m /\ LineAt(g, k)[1] = g[m + 1]
  OBVIOUS
<1>. DEFINE S == {0} \cup {j \in LineEnds(g) : j < k}
            x == Max(S)
<1>1. \A j \in LineEnds(g) : j \in 1 .. Len(g) /\ g[j] = "\n"
  BY <1>a DEF LineEnds
<1>2. k \in 1 .. Len(g) /\ Len(g) \in Nat
  BY <1>1, <1>a
<1>3. S \subseteq 0 .. Len(g) /\ S # {}
  <2>1. \A j \in S : j \in 0 .. Len(g)
    BY <1>1, <1>2
  <2>. HIDE DEF S
  <2>. QED
    BY <2>1 DEF S
<1>4. x \in S /\ \A y \in S : x >= y
  <2>. HIDE DEF S
  <2>. QED
    BY <1>2, <1>3, MaxIs
<1>5. m \in S
  <2>1. m > 0 => m \in LineEnds(g)
    <3>1. m > 0 => m \in 1 .. Len(g)
      BY <1>2, <1>a
    <3>2. DOMAIN g = 1 .. Len(g)
      BY <1>a
    <3>. QED
      BY <1>a, <3>1, <3>2 DEF LineEnds
  <2>. QED
    BY <1>a, <2>1
<1>6. \A y \in S : y <= m
  <2>. SUFFICES ASSUME NEW y \in S, y > m PROVE FALSE
    BY <1>2, <1>3
  <2>1. y \in LineEnds(g) /\ y < k
    BY <1>a
  <2>2. y \in Int /\ g[y] = "\n"
    BY <1>1, <2>1
  <2>3. y \in m + 1 .. k - 1
    BY <1>2, <2>1, <2>2
  <2>. QED
    BY <1>a, <2>2, <2>3
<1>7. x = m
  <2>. HIDE DEF x, S
  <2>1. x \in Int /\ x >= m /\ x <= m
    BY <1>2, <1>3, <1>4, <1>5, <1>6
  <2>. QED
    BY <2>1
<1>8. LineAt(g, k) = SubSeq(g, m + 1, k)
  BY <1>7, Zenon DEF LineAt
<1>9. /\ \A j \in m + 1 .. k : g[j] \in Byte
      /\ m + 1 \in Int /\ k \in Int /\ m + 1 <= k
  BY <1>2, <1>a
<1>10. /\ Len(SubSeq(g, m + 1, k)) = k - (m + 1) + 1
       /\ \A j \in 1 .. k - (m + 1) + 1 : SubSeq(g, m + 1, k)[j] = g[(m + 1) + j - 1]
  BY <1>9, SubSeqProperties
<1>11. 1 \in 1 .. k - (m + 1) + 1 /\ (m + 1) + 1 - 1 = m + 1 /\ k - (m + 1) + 1 = k - m
  <2>1. m \in Int /\ k \in Int /\ m < k
    BY <1>9
  <2>. HIDE DEF x, S
  <2>. QED
    BY <2>1
<1>. QED
  BY <1>8, <1>10, <1>11

\* Of a peer that keeps to the RFC no line fails, and no line before its
\* identification string is the last attempt.
LEMMA ToleratedLine ==
  ASSUME IdentTypes, NEW o \in Openings, NEW e \in End, NEW p \in End, OpenedBy(o),
         EndInv(o, e, p), pc[e] = "line", Tolerable(p)
  PROVE  /\ ~CutOff(line[e])
         /\ line[e][1] \in {"S1", "S2"} => IdentCheck(line[e])
         /\ line[e][1] \notin {"S1", "S2"} => attempt[e] + 1 < MaxAttempts
<1>. DEFINE f == Opening(o, p)
            g == o[p].prefix
            i == o[p].ident
            s == line[e]
            l == Len(s)
            n == Len(consumed[e])
            m == n - l
            a == Start(o, p)
            t == Total(o, p)
<1>1. /\ l <= n /\ m <= a
      /\ \A j \in 1 .. l : s[j] = f[m + j]
      /\ \A j \in 1 .. l - 1 : s[j] # "\n"
      /\ l >= 1 /\ LineFull(s) /\ attempt[e] = Cardinality(Ends(f, m))
      /\ m > 0 => f[m] = "\n"
      /\ n <= t
  BY DEF EndInv, LineInv, ConsumedInv, Reading, Count, Skipped
<1>2. s \in Seq(Byte) /\ consumed[e] \in Seq(Byte)
  BY DEF IdentTypes
<1>3. /\ g \in Seq(Byte) /\ i \in Seq(Byte) /\ a \in Nat /\ t \in Nat /\ t = a + Len(i)
      /\ f[a + 1] \in {"S1", "S2"}
      /\ a > 0 => f[a] = "\n"
      /\ a = Len(g)
  <2>1. a = Len(g)
    BY Zenon DEF Start
  <2>2. g \in Seq(Byte) /\ i \in Seq(Byte) /\ t = a + Len(i)
    BY OpeningFacts, Zenon
  <2>3. a \in Nat /\ t \in Nat /\ f[a + 1] \in {"S1", "S2"} /\ (a > 0 => f[a] = "\n")
    BY OpeningFacts, Zenon
  <2>. QED
    BY <2>1, <2>2, <2>3, Zenon
<1>4. \A j \in 1 .. a : f[j] = g[j]
  <2>1. f = g \o i
    BY DEF Opening
  <2>. HIDE DEF f, g, i, a
  <2>. QED
    BY <1>3, <2>1
<1>5. /\ Cardinality(LineEnds(g)) < MaxAttempts
      /\ \A x \in LinesOf(g) : Len(x) <= IdentMax /\ x[1] \notin {"S1", "S2"}
      /\ RfcIdent(i) /\ Len(i) <= IdentMax
  <2>1. prefix[p] = g /\ ident[p] = i
    BY DEF OpenedBy
  <2>. QED
    BY <2>1, Zenon DEF Tolerable
<1>6. LineEnds(g) = Ends(f, a)
  <2>1. DOMAIN g = 1 .. a
    BY <1>3
  <2>. HIDE DEF f, g, a
  <2>. QED
    BY <1>4, <2>1 DEF LineEnds, Ends
<1>7. Len(s) = IdentMax + 1 \/ ~CutOff(s)
  BY <1>1 DEF LineFull, CutOff
<1>8. l \in Nat /\ n \in Nat /\ m = n - l /\ Len(i) \in Nat /\ s[1] = f[m + 1]
  <2>1. l \in Nat /\ n \in Nat /\ m = n - l /\ Len(i) \in Nat
    BY <1>2, <1>3
  <2>2. 1 \in 1 .. l
    BY <1>1, <2>1
  <2>. QED
    BY <1>1, <2>1, <2>2
<1>. HIDE DEF f, g, i, s, l, n, m, a, t
<1>9. l <= IdentMax => ~CutOff(s)
  <2>1. l = Len(s)
    BY DEF l
  <2>. QED
    BY <1>7, <1>8, <2>1, IdentAssumption
<1>10. CASE m = a
  <2>1. l <= Len(i)
    BY <1>1, <1>3, <1>8, <1>10
  <2>2. ~CutOff(s)
    BY <1>5, <1>8, <1>9, <2>1, IdentAssumption
  <2>3. s[1] \in {"S1", "S2"}
    BY <1>3, <1>8, <1>10
  <2>4. s = i
    <3>1. s[l] = "\n" /\ l \in 1 .. l
      BY <1>1, <1>8, <2>2 DEF CutOff, l
    <3>2. f[n] = "\n"
      BY <1>1, <1>8, <3>1
    <3>3. n = t
      <4>1. n \in a + 1 .. t
        BY <1>1, <1>3, <1>8, <1>10
      <4>2. \A j \in a + 1 .. t : f[j] = "\n" <=> j = t
        BY OpeningFacts, Zenon DEF a, t, f
      <4>. QED
        BY <3>2, <4>1, <4>2
    <3>4. l = Len(i)
      BY <1>3, <1>8, <1>10, <3>3
    <3>5. \A j \in 1 .. Len(i) : f[a + j] = i[j]
      BY OpeningFacts, Zenon DEF a, f, i
    <3>6. \A j \in 1 .. l : s[j] = i[j]
      BY <1>1, <1>10, <3>4, <3>5
    <3>7. Len(s) = Len(i) /\ \A j \in 1 .. Len(s) : s[j] = i[j]
      BY <3>4, <3>6 DEF l
    <3>. QED
      BY <1>2, <1>3, <3>7, SeqEqual, Zenon DEF s
  <2>5. IdentCheck(s)
    BY <1>3, <1>5, <2>4, RfcChecked, Zenon
  <2>. QED
    BY <2>2, <2>3, <2>5 DEF s
<1>11. CASE m # a
  <2>1. m \in Nat /\ m < a
    <3>1. a \in Nat /\ m <= a
      BY <1>1, <1>3, Zenon
    <3>3. l <= n
      BY <1>1, Zenon
    <3>2. m \in Nat
      BY <1>8, <3>3
    <3>. HIDE DEF a, m
    <3>. QED
      BY <3>1, <3>2, <1>11
  <2>. DEFINE S == {j \in m + 1 .. a : f[j] = "\n"}
  <2>2. S \subseteq Nat /\ a \in S
    BY <1>3, <2>1
  <2>3. PICK k \in S : \A j \in S : k <= j
    <3>. HIDE DEF S
    <3>. QED
      BY <2>2, Smallest
  <2>4. k \in m + 1 .. a /\ f[k] = "\n"
    OBVIOUS
  <2>5. \A j \in m + 1 .. k - 1 : f[j] # "\n"
    <3>. SUFFICES ASSUME NEW j \in m + 1 .. k - 1, f[j] = "\n" PROVE FALSE
      OBVIOUS
    <3>1. j \in m + 1 .. a /\ j < k
      BY <1>3, <2>1, <2>4
    <3>2. j \in S
      BY <3>1
    <3>. QED
      BY <2>1, <2>3, <2>4, <3>1, <3>2
  <2>. HIDE DEF S
  <2>6. n <= k
    <3>. SUFFICES ASSUME n > k PROVE FALSE
      BY <1>8, <2>1, <2>4
    <3>1. k - m \in 1 .. l - 1 /\ k - m \in 1 .. l /\ m + (k - m) = k
      BY <1>8, <2>1, <2>4
    <3>2. s[k - m] = f[m + (k - m)] /\ s[k - m] # "\n"
      BY <1>1, <3>1
    <3>. QED
      BY <2>4, <3>1, <3>2
  <2>7. Len(LineAt(g, k)) = k - m /\ LineAt(g, k)[1] = g[m + 1] /\ LineAt(g, k) \in LinesOf(g)
    <3>1. k \in LineEnds(g)
      BY <1>3, <1>6, <2>1, <2>4 DEF Ends
    <3>2. m < k /\ (m > 0 => g[m] = "\n")
      <4>1. m < k /\ (m > 0 => m \in 1 .. a)
        BY <1>3, <2>1, <2>4
      <4>. QED
        BY <1>1, <1>4, <4>1
    <3>3. \A j \in m + 1 .. k - 1 : g[j] # "\n"
      <4>1. \A j \in m + 1 .. k - 1 : j \in 1 .. a
        BY <1>3, <2>1, <2>4
      <4>. QED
        BY <1>4, <2>5, <4>1
    <3>4. Len(LineAt(g, k)) = k - m /\ LineAt(g, k)[1] = g[m + 1]
      BY <1>3, <2>1, <3>1, <3>2, <3>3, LineBetween
    <3>. QED
      BY <3>1, <3>4 DEF LinesOf
  <2>8. ~CutOff(s)
    <3>1. k - m <= IdentMax
      BY <1>5, <2>7
    <3>2. l <= IdentMax
      BY <1>8, <2>1, <2>4, <2>6, <3>1, IdentAssumption
    <3>. QED
      BY <1>9, <3>2
  <2>9. s[1] \notin {"S1", "S2"}
    <3>1. m + 1 \in 1 .. a
      BY <1>3, <2>1
    <3>. QED
      BY <1>4, <1>5, <1>8, <2>7, <3>1
  <2>10. attempt[e] + 1 < MaxAttempts
    <3>1. /\ Count(e) <= Start(o, p) /\ Count(e) > 0
          /\ Cardinality(Ends(f, Count(e))) = attempt[e] + 1
      BY <2>8, <2>9, SkippedLine DEF s, f
    <3>2. Count(e) = n /\ Start(o, p) = a
      BY DEF Count, n, a
    <3>3. IsFiniteSet(1 .. a) /\ Ends(f, a) \subseteq 1 .. a
      BY <1>3, FS_Interval DEF Ends
    <3>4. IsFiniteSet(Ends(f, a))
      BY <3>3, FS_Subset, Zenon
    <3>5. Ends(f, n) \subseteq Ends(f, a)
      BY <1>3, <1>8, <3>1, <3>2 DEF Ends
    <3>6. Cardinality(Ends(f, n)) <= Cardinality(Ends(f, a))
      BY <3>4, <3>5, FS_Subset
    <3>7. Cardinality(Ends(f, a)) \in Nat /\ Cardinality(Ends(f, n)) \in Nat
      BY <3>4, <3>5, FS_Subset, FS_CardinalityType
    <3>. QED
      BY <1>5, <1>6, <3>1, <3>2, <3>6, <3>7, IdentAssumption
  <2>. QED
    BY <2>8, <2>9, <2>10 DEF s
<1>. QED
  BY <1>10, <1>11

LEMMA RfcJudged ==
  ASSUME ExchangeInv, NEW e \in End, JudgeLine(e), Tolerable(Peer(e))
  PROVE  pc'[e] # "failed"
<1>1. PICK o \in Openings : OpenedBy(o) /\ EndInv(o, e, Peer(e))
  BY Zenon DEF ExchangeInv
<1>2. /\ Peer(e) \in End /\ IdentTypes /\ pc[e] = "line" /\ pc \in [End -> Phase]
      /\ attempt[e] \in Nat
  <2>1. Peer(e) \in End /\ IdentTypes /\ pc[e] = "line"
    BY Peers, Zenon DEF ExchangeInv, JudgeLine
  <2>2. pc \in [End -> Phase] /\ attempt \in [End -> 0 .. MaxAttempts]
    BY <2>1, Zenon DEF IdentTypes
  <2>3. attempt[e] \in 0 .. MaxAttempts
    BY <2>2, Zenon
  <2>4. \A k \in 0 .. MaxAttempts : k \in Nat
    BY IdentAssumption
  <2>. QED
    BY <2>1, <2>2, <2>3, <2>4, Zenon
<1>3. /\ ~CutOff(line[e])
      /\ line[e][1] \in {"S1", "S2"} => IdentCheck(line[e])
      /\ line[e][1] \notin {"S1", "S2"} => attempt[e] + 1 < MaxAttempts
  BY <1>1, <1>2, ToleratedLine
<1>4. line[e][1] \notin {"S1", "S2"} => ~OutOfAttempts(attempt[e] + 1)
  BY <1>2, <1>3, IdentAssumption DEF OutOfAttempts
<1>5. Goto(e, "read") \/ Goto(e, "done")
  BY <1>3, <1>4, Zenon DEF JudgeLine
<1>. QED
  BY <1>2, <1>5 DEF Goto

-----------------------------------------------------------------------------
(* The theorems about two programs that run the exchange and nothing else.  *)

LEMMA Invariant == Spec => []ExchangeInv
<1>1. Init => ExchangeInv
  <2>. SUFFICES ASSUME Init PROVE ExchangeInv
    OBVIOUS
  <2>1. pc \in [End -> Unread]
    BY DEF Init, Unread
  <2>. QED
    BY <2>1, OpenedInv DEF Init
<1>2. ExchangeInv /\ [Next]_vars => ExchangeInv'
  <2>. SUFFICES ASSUME ExchangeInv, [Next]_vars PROVE ExchangeInv'
    OBVIOUS
  <2>1. CASE \E e \in End : Exchange(e) \/ Broken(e)
    BY <2>1, ExchangeStep
  <2>2. CASE UNCHANGED vars
    BY <2>2, ExchangeStutter
  <2>. QED
    BY <2>1, <2>2 DEF Next, Ended
<1>. QED
  BY <1>1, <1>2, PTL DEF Spec

\* Whatever the two ends open with, wherever the connection breaks and however the
\* bytes are cut by send(): two ends that succeed hold the same V_C and V_S, byte
\* for byte, for the exchange hash.
THEOREM SameStrings == Spec => []Agreement
BY Invariant, InvAgreement, PTL

\* An end of session_exchange_ident that succeeds has read the peer's opening and
\* not a byte of what follows, whatever lines come first and whatever is sent behind.
THEOREM NothingReadAhead == Spec => []PacketsLeftUnread
BY Invariant, InvUnread, PTL

\* session_exchange_ident accepts no peer that sends MaxAttempts lines or more
\* before its string, and no string that session_ident_check is to refuse.
THEOREM JunkRefused == Spec => []NoJunkAccepted
BY Invariant, InvNoJunk, PTL

\* Every variable of the exchange keeps its type, and net_read_line never writes
\* behind the line buffer.
THEOREM LineFits == Spec => []IdentTypeOK
BY Invariant, InvTypes, PTL

\* A peer that keeps to RFC 4253 is accepted, whatever its string, however long its
\* lines may be and however many may come first: session_exchange_ident judges no
\* line of it as the last attempt, as cut off or as invalid.
THEOREM RfcAccepted == Spec => RfcPeersAccepted
<1>. DEFINE A == \A e \in End : Tolerable(Peer(e)) /\ pc[e] = "line" => pc'[e] # "failed"
<1>1. ExchangeInv /\ [Next]_vars => [A]_vars
  <2>. SUFFICES ASSUME ExchangeInv, Next, NEW e \in End, Tolerable(Peer(e)), pc[e] = "line"
                PROVE  pc'[e] # "failed"
    BY DEF vars
  <2>1. CASE Ended
    BY <2>1 DEF Ended
  <2>2. ASSUME NEW d \in End, Exchange(d) \/ Broken(d), d # e PROVE pc'[e] = "line"
    <3>1. CASE Broken(d)
      BY <2>2, <3>1 DEF Broken, Goto, ExchangeInv, IdentTypes
    <3>2. CASE Exchange(d)
      BY <2>2, <3>2, ExchangePhases DEF ExchangeInv
    <3>. QED
      BY <2>2, <3>1, <3>2
  <2>3. ASSUME Exchange(e) \/ Broken(e) PROVE JudgeLine(e)
    BY <2>3 DEF Exchange, Broken, Write, ReadByte, Receive, PeerGone
  <2>4. JudgeLine(e) => pc'[e] # "failed"
    BY RfcJudged
  <2>. QED
    BY <2>1, <2>2, <2>3, <2>4 DEF Next
<1>. QED
  BY <1>1, Invariant, PTL DEF Spec, RfcPeersAccepted
=============================================================================
