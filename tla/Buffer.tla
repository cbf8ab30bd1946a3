-------------------------------- MODULE Buffer --------------------------------
(***************************************************************************)
(* ssh_buf_t: a growing byte buffer that is written at its end and read    *)
(* from a cursor, with SSH's encodings of integers, strings and mpints.  A *)
(* writer appends in pieces (a length, a pad byte, the contents), each of  *)
(* which may have to reallocate; when one cannot, what the earlier pieces  *)
(* wrote stays.  A reader of a string consumes the length before it checks *)
(* and copies the contents.                                                *)
(***************************************************************************)
EXTENDS Integers, Sequences, FiniteSetsExt

CONSTANTS
  Base,        \* 256: the values of a byte
  Width,       \* 4: bytes of a uint32
  MinCap,      \* BUF_MIN_CAP
  InitCaps,    \* arguments of buf_init
  Values,      \* what callers put: [type, val]
  MaxPuts,     \* bound: values put that are to be read back
  MaxLen,      \* bound: no put into a buffer longer than this
  MaxRaw       \* bound: bytes read or skipped at once

Half == Base \div 2

\* x, step[x], step[step[x]] and so on, n steps
Iterates(step, x, n) ==
  LET I[k \in 0 .. n] == IF k = 0 THEN x ELSE step[I[k - 1]] IN I

\* The number without its low byte, val >> 8
Shift == [v \in Nat |-> v \div Base]

\* The number has no more than w bytes.
InBytes(v, w) == Iterates(Shift, v, w)[w] = 0

Bytes(type) == CASE type = "u8" -> 1 [] type = "u32" -> Width
                 [] type = "u64" -> 2 * Width
Byte == 0 .. Base - 1
IntTypes == {"u8", "u32", "u64"}
Types == IntTypes \cup {"raw", "string", "mpint"}

ASSUME BufferAssumption ==
  /\ Base \in Nat /\ Base > 1 /\ Width \in Nat \ {0}
  /\ MinCap \in Nat \ {0} /\ InitCaps \subseteq Nat
  /\ MaxPuts \in Nat /\ MaxLen \in Nat /\ MaxRaw \in Nat
  /\ \A v \in Values :
       \/ v.type \in IntTypes /\ v.val \in Nat /\ InBytes(v.val, Bytes(v.type))
       \/ /\ v.type \in Types \ IntTypes /\ v.val \in Seq(Byte)
          /\ \A n \in 0 .. Len(v.val) + 1 : InBytes(n, Width)

VARIABLES
  buf,      \* ssh_buf_t: data (its len bytes), rpos, cap; cap 0: no memory
  log,      \* history: values put since the buffer was last empty
  torn,     \* history: a put has failed since
  got,      \* history: values read back in order
  lost      \* history: the cursor is no longer where a value of the log begins

vars == <<buf, log, torn, got, lost>>

-----------------------------------------------------------------------------
(* Encoding.                                                                *)

BigEndian(v, w) ==
  LET rest == Iterates(Shift, v, w) IN [i \in 1 .. w |-> rest[w - i] % Base]

\* Index of the first byte of s that is not zero, or one past the end
FirstNonZero(s) == Min({i \in DOMAIN s : s[i] # 0} \cup {Len(s) + 1})

\* Mutant: no pad byte before a byte with its top bit set.
NeedPadNever(s) == FALSE

NeedPad(s) == s[1] >= Half
StripZeros(s) == SubSeq(s, FirstNonZero(s), Len(s))

\* buf_put_mpint after the zeros: the length, a pad byte, the rest
MpintPieces(s) ==
  IF s = <<>> THEN <<BigEndian(0, Width)>>
  ELSE IF NeedPad(s) THEN <<BigEndian(Len(s) + 1, Width), <<0>>, s>>
  ELSE <<BigEndian(Len(s), Width), s>>

StringPieces(s) ==
  <<BigEndian(Len(s), Width)>> \o (IF s = <<>> THEN <<>> ELSE <<s>>)

\* The appends a writer makes
Pieces(v) ==
  CASE v.type \in IntTypes -> <<BigEndian(v.val, Bytes(v.type))>>
    [] v.type = "raw" -> IF v.val = <<>> THEN <<>> ELSE <<v.val>>
    [] v.type = "string" -> StringPieces(v.val)
    [] v.type = "mpint" -> MpintPieces(StripZeros(v.val))

-----------------------------------------------------------------------------
(* buf_reserve.                                                             *)

Fits(b, n) == Len(b.data) + n <= b.cap

Twice == [c \in Nat |-> c * 2]

\* The doubling loop
Grown(b, n) ==
  LET first == IF b.cap > 0 THEN b.cap * 2 ELSE MinCap
      need == Len(b.data) + n
      caps == Iterates(Twice, first, need)
  IN Min({c \in {caps[k] : k \in 0 .. need} : c >= need})

\* Mutant: new memory without what the old held.
ExtendMalloc(b, s) ==
  IF Fits(b, Len(s)) THEN [b EXCEPT !.data = @ \o s]
  ELSE [b EXCEPT !.data = [i \in DOMAIN b.data |-> 0] \o s,
                 !.cap = Grown(b, Len(s))]

Extend(b, s) ==
  [b EXCEPT !.data = @ \o s,
            !.cap = IF Fits(b, Len(s)) THEN @ ELSE Grown(b, Len(s))]

-----------------------------------------------------------------------------
\* buf_new, buf_init
Init ==
  /\ \E c \in InitCaps :
       buf = [data |-> <<>>, rpos |-> 0, cap |-> Max({c, MinCap})]
  /\ log = <<>> /\ torn = FALSE /\ got = <<>> /\ lost = FALSE

\* What a caller that sees -1 knows
PutFailed(v) == torn' = TRUE /\ UNCHANGED log

\* The buffer after none, one, two ... of the pieces
Appended(p) ==
  LET B[k \in 0 .. Len(p)] == IF k = 0 THEN buf ELSE Extend(B[k - 1], p[k]) IN B

\* A buf_put_*: all of its pieces are appended, or a realloc fails and those
\* before it stay.
Put(v) ==
  /\ Len(log) < MaxPuts /\ Len(buf.data) <= MaxLen
  /\ LET p == Pieces(v)
         after == Appended(p)
     IN
     \/ /\ buf' = after[Len(p)]
        /\ log' = IF torn THEN log ELSE Append(log, v)
        /\ UNCHANGED torn
     \/ /\ \E k \in 0 .. Len(p) - 1 :
             ~Fits(after[k], Len(p[k + 1])) /\ buf' = after[k]
        /\ PutFailed(v)
  /\ UNCHANGED <<got, lost>>

Readable == Len(buf.data) - buf.rpos
Window(from, n) == SubSeq(buf.data, from + 1, from + n)

Number(s) ==
  LET N[i \in 0 .. Len(s)] == IF i = 0 THEN 0 ELSE N[i - 1] * Base + s[i]
  IN N[Len(s)]

NoValue(why, at) == [is |-> why, val |-> <<>>, rpos |-> at]
Read(val, at) == [is |-> "read", val |-> val, rpos |-> at]

IntResult(w) ==
  IF Readable < w THEN NoValue("underflow", buf.rpos)
  ELSE Read(Number(Window(buf.rpos, w)), buf.rpos + w)

\* buf_readable >= len, the length already consumed
Enough(n) == n <= Readable - Width

\* buf_get_string, and buf_get_mpint, which is the same
StringResults ==
  LET head == IntResult(Width) IN
  IF head.is # "read" THEN {head}
  ELSE IF ~Enough(head.val) THEN {NoValue("underflow", head.rpos)}
  ELSE {Read(Window(head.rpos, head.val), head.rpos + head.val),
        NoValue("nomemory", head.rpos)}

RawResult(n) ==
  IF Readable < n THEN NoValue("underflow", buf.rpos)
  ELSE Read(Window(buf.rpos, n), buf.rpos + n)

\* A buf_get_* of this type, of n bytes if raw
Results(type, n) ==
  CASE type \in IntTypes -> {IntResult(Bytes(type))}
    [] type = "raw" -> {RawResult(n)}
    [] OTHER -> StringResults

\* The next value of the log is at the cursor, and this is how to read it.
InStep(type, n) ==
  /\ ~lost /\ Len(got) < Len(log)
  /\ log[Len(got) + 1].type = type
  /\ type = "raw" => n = Len(log[Len(got) + 1].val)

Get(type, n) ==
  /\ \E r \in Results(type, n) :
       /\ buf' = [buf EXCEPT !.rpos = r.rpos]
       /\ got' = IF InStep(type, n) /\ r.is # "nomemory"
                 THEN Append(got, [is |-> r.is, val |-> r.val]) ELSE got
       /\ lost' = (lost \/ (r.rpos # buf.rpos /\ ~(InStep(type, n) /\ r.is = "read")))
  /\ UNCHANGED <<log, torn>>

\* buf_consume, to skip bytes
Consume(n) ==
  /\ buf.rpos + n <= Len(buf.data)
  /\ buf' = [buf EXCEPT !.rpos = @ + n]
  /\ lost' = TRUE
  /\ UNCHANGED <<log, torn, got>>

\* Mutant: the cursor stays.
ResetLen == [buf EXCEPT !.data = <<>>]

\* buf_reset keeps the memory, buf_free gives it back; a put after that
\* allocates again.
ResetBuf == [buf EXCEPT !.data = <<>>, !.rpos = 0]
Empty(b) ==
  buf' = b /\ log' = <<>> /\ torn' = FALSE /\ got' = <<>> /\ lost' = FALSE
Reset == Empty(ResetBuf)
Free == Empty([data |-> <<>>, rpos |-> 0, cap |-> 0])

Next ==
  \/ \E v \in Values : Put(v)
  \/ \E t \in Types : \E n \in IF t = "raw" THEN 0 .. MaxRaw ELSE {0} : Get(t, n)
  \/ \E n \in 1 .. MaxRaw : Consume(n)
  \/ Reset \/ Free

Spec == Init /\ [][Next]_vars

-----------------------------------------------------------------------------
(* Properties.                                                              *)

\* Every variable holds a value of its type, and no sequence of calls, failed
\* ones and calls on a freed buffer included, lets the cursor pass the bytes
\* written or those pass the memory.
TypeOK ==
  /\ buf \in [data : Seq(Byte), rpos : Nat, cap : Nat]
  /\ buf.rpos <= Len(buf.data) /\ Len(buf.data) <= buf.cap
  /\ log \in Seq(Values) /\ torn \in BOOLEAN /\ lost \in BOOLEAN
  /\ Len(got) <= Len(log)

\* RFC 4251: an mpint that is not negative, in the fewest bytes.
IsMpint(s) ==
  s # <<>> => s[1] < Half /\ (s[1] = 0 => Len(s) > 1 /\ s[2] >= Half)

\* What was put is read back by the reader of its type, in order, whatever
\* reallocations, failed puts and failed reads came between; a big number comes
\* back as the same number in RFC 4251's form.
ReadsBack ==
  \A i \in DOMAIN got :
    /\ got[i].is = "read"
    /\ IF log[i].type = "mpint"
       THEN IsMpint(got[i].val) /\ Number(got[i].val) = Number(log[i].val)
       ELSE got[i].val = log[i].val

\* A failed put never takes back or changes a byte that was readable.
PutsOnlyAppend ==
  [][Len(buf'.data) > 0 =>
       /\ Len(buf.data) <= Len(buf'.data)
       /\ SubSeq(buf'.data, 1, Len(buf.data)) = buf.data]_vars
=============================================================================
