------------------------------- MODULE Streams -------------------------------
(***************************************************************************)
(* The primitives that take their input in pieces: the SHA-2 contexts, HMAC *)
(* over two of them, kex_derive_key, which hashes what it has produced so   *)
(* far, and AES in counter mode; and base64, where lines are cut.  What they *)
(* compute must not depend on how the callers cut the data.                *)
(*                                                                         *)
(* The compression function and the block cipher are ideal: a hash state is *)
(* the sequence of blocks compressed, a byte of keystream is named by the   *)
(* counter block and the offset it comes from.  A byte is a tuple; the      *)
(* words that hold the length of the message take one place each.          *)
(***************************************************************************)
EXTENDS Integers, Sequences, FiniteSetsExt, Base64

CONSTANTS
  Sha256, Sha512, \* [block, words, mod]: block size, words of the length, word size
  DigestSize,     \* bytes of a SHA-256 digest
  MacKeyLens,     \* lengths of HMAC keys
  Secrets,        \* [k, h, sid]: lengths of the inputs of kex_derive_key
  KeyLens,        \* lengths of the keys asked for
  AES_BLOCK_SIZE,
  CtrBase,        \* values of a byte of the counter, which has two
  Texts,          \* [src, room, cap]: bytes, capacities for text and bytes
  MaxLen          \* bound: bytes hashed or encrypted

\* The words for the length of a message hold the number of bits of n bytes.
Countable(a, n) == a.words = 1 => 8 * n < a.mod

ASSUME StreamsAssumption ==
  /\ \A a \in {Sha256, Sha512} :
       /\ a \in [block : Nat, words : {1, 2}, mod : Nat \ {0}]
       /\ a.block > a.words
  /\ DigestSize \in 1 .. Sha256.block
  /\ MacKeyLens \subseteq Nat /\ KeyLens \subseteq Nat
  /\ Secrets \subseteq [k : Nat, h : Nat, sid : Nat]
  /\ AES_BLOCK_SIZE \in Nat \ {0} /\ CtrBase \in Nat \ {0, 1}
  /\ \A t \in Texts : t \in [src : Seq(0 .. 255), room : Nat, cap : Nat]
  /\ MaxLen \in Nat
  \* Nothing that is hashed is too long for the count of its bits.
  /\ \A n \in MacKeyLens \cup {Sha256.block + MaxLen, Sha256.block + DigestSize} :
       Countable(Sha256, n)
  /\ Countable(Sha512, MaxLen)
  /\ \A s \in Secrets, n \in KeyLens : Countable(Sha256, s.k + s.h + 1 + s.sid + n)

VARIABLES
  job,     \* what the contexts below are used for
  ctx,     \* the hash context, HMAC's inner one
  outer,   \* HMAC's outer context
  ctr,     \* nonce_counter, stream (the counter encrypted) and stream_offset
  fed,     \* how many bytes the caller has handed over
  out,     \* the bytes that came out
  pc

vars == <<job, ctx, outer, ctr, fed, out, pc>>

Zero == <<0>>
Mark == <<128>>     \* 0x80
Data(first, n) == [i \in 1 .. n |-> <<first + i>>]
Message(n) == Data(0, n)
Fill(n) == [i \in 1 .. n |-> Zero]

-----------------------------------------------------------------------------
(* SHA-2, for the algorithm a.                                              *)

\* buf is not initialized; <<-1>> stands for what is in it.
HashInit(a) ==
  [state |-> <<>>, buf |-> [i \in 1 .. a.block |-> <<-1>>], buflen |-> 0,
   hi |-> 0, lo |-> 0]

\* memcpy of s to buf + n
Into(buf, n, s) ==
  [i \in DOMAIN buf |-> IF i \in n + 1 .. n + Len(s) THEN s[i - n] ELSE buf[i]]

\* The length so far, in one word (sha256) or two with a carry (sha512)
CountBits(a, c, n) ==
  LET add == (8 * n) % a.mod
      lo == (c.lo + add) % a.mod
      carry == IF lo < add THEN 1 ELSE 0
  IN [hi |-> IF a.words = 2 THEN c.hi + (8 * n) \div a.mod + carry ELSE c.hi,
      lo |-> lo]

\* s in blocks of n bytes, as many as are whole
Blocks(n, s) == [i \in 1 .. Len(s) \div n |-> SubSeq(s, (i - 1) * n + 1, i * n)]

\* sha256_update and sha512_update: first the started block, then whole blocks
\* from the data itself, then the start of the next one.
HashUpdate(a, c, s) ==
  LET take == IF c.buflen > 0 THEN Min({Len(s), a.block - c.buflen}) ELSE 0
      filled == Into(c.buf, c.buflen, SubSeq(s, 1, take))
      held == c.buflen + take
      full == held = a.block
      rest == SubSeq(s, take + 1, Len(s))
      left == Len(rest) % a.block
      bits == CountBits(a, c, Len(s))
  IN [state |-> c.state \o (IF full THEN <<filled>> ELSE <<>>) \o Blocks(a.block, rest),
      buf |-> Into(filled, 0, SubSeq(rest, Len(rest) - left + 1, Len(rest))),
      buflen |-> IF left > 0 THEN left ELSE IF full THEN 0 ELSE held,
      hi |-> bits.hi, lo |-> bits.lo]

\* Mutant: a mark in the last byte before the length takes a block of its own.
TightOff(a, n) == n >= a.block - a.words

\* With the mark there are n bytes, too many for the length to follow.
Tight(a, n) == n > a.block - a.words

\* sha256_final and sha512_final: the state after the padding.
HashFinal(a, c) ==
  LET marked == Into(c.buf, c.buflen, <<Mark>>)
      n == c.buflen + 1
      ended == Into(marked, n, Fill(a.block - n))
      last == IF Tight(a, n) THEN Fill(a.block) ELSE marked
      from == IF Tight(a, n) THEN 0 ELSE n
      length == IF a.words = 2 THEN <<<<c.hi>>, <<c.lo>>>> ELSE <<<<c.lo>>>>
      zeroed == Into(last, from, Fill(a.block - a.words - from))
  IN c.state \o (IF Tight(a, n) THEN <<ended>> ELSE <<>>)
       \o <<Into(zeroed, a.block - a.words, length)>>

Digest(state) == [i \in 1 .. DigestSize |-> <<state, i>>]
Sha256Of(s) == Digest(HashFinal(Sha256, HashUpdate(Sha256, HashInit(Sha256), s)))

-----------------------------------------------------------------------------
(* HMAC                                                                     *)

\* Mutant: a key as long as a block is hashed too.
LongKeyOff(key) == Len(key) >= Sha256.block

LongKey(key) == Len(key) > Sha256.block

\* hmac_sha256_init: the key, or its digest if it is long, filled up to a block
KeyBlock(key) ==
  LET k == IF LongKey(key) THEN Sha256Of(key) ELSE key
  IN k \o Fill(Sha256.block - Len(k))
Masked(key, mask) == [i \in 1 .. Sha256.block |-> <<"xor", KeyBlock(key)[i], mask>>]
HmacInit(key, mask) == HashUpdate(Sha256, HashInit(Sha256), Masked(key, mask))

\* hmac_sha256_final
HmacFinal(inner, o) ==
  Digest(HashFinal(Sha256, HashUpdate(Sha256, o, Digest(HashFinal(Sha256, inner)))))

-----------------------------------------------------------------------------
(* Counter mode                                                             *)

\* ctr_increment: a byte changes if all bytes after it were at their largest.
Increment(c) ==
  [i \in DOMAIN c |->
     IF \A j \in DOMAIN c : j > i => c[j] = CtrBase - 1
     THEN (c[i] + 1) % CtrBase ELSE c[i]]

\* Mutant: a call begins a new block.
OffsetAligned(offset, take, left) ==
  IF take = left THEN 0 ELSE (offset + take) % AES_BLOCK_SIZE

\* stream_offset after take bytes of the left ones
Offset(offset, take, left) == (offset + take) % AES_BLOCK_SIZE

-----------------------------------------------------------------------------
MacKey(n) == Data(200, n)
Iv == [1 .. 2 -> 0 .. CtrBase - 1]

Jobs ==
  {[kind |-> "digest", algo |-> a] : a \in {Sha256, Sha512}}
  \cup {[kind |-> "mac", key |-> n] : n \in MacKeyLens}
  \cup {[kind |-> "derive", secrets |-> s, len |-> n] : s \in Secrets, n \in KeyLens}
  \cup {[kind |-> "ctr", iv |-> iv] : iv \in Iv}
  \cup {[kind |-> "base64", of |-> t, text |-> <<>>] : t \in Texts}

Algo == IF job.kind = "digest" THEN job.algo ELSE Sha256

Init ==
  /\ job \in Jobs
  /\ ctx = IF job.kind = "mac" THEN HmacInit(MacKey(job.key), "ipad")
           ELSE HashInit(Algo)
  /\ outer = IF job.kind = "mac" THEN HmacInit(MacKey(job.key), "opad") ELSE ctx
  /\ ctr = [nonce |-> IF job.kind = "ctr" THEN job.iv ELSE <<0, 0>>,
            stream |-> <<>>, offset |-> 0, left |-> 0]
  /\ fed = 0 /\ out = <<>> /\ pc = "ready"

\* sha256_update, sha512_update, hmac_sha256_update with the next n bytes
Update(n) ==
  /\ pc = "ready" /\ job.kind \in {"digest", "mac"} /\ fed + n <= MaxLen
  /\ ctx' = HashUpdate(Algo, ctx, Data(fed, n))
  /\ fed' = fed + n
  /\ UNCHANGED <<job, outer, ctr, out, pc>>

Final ==
  /\ pc = "ready" /\ job.kind \in {"digest", "mac"}
  /\ out' = IF job.kind = "digest" THEN Digest(HashFinal(Algo, ctx))
            ELSE HmacFinal(ctx, outer)
  /\ pc' = "done"
  /\ UNCHANGED <<job, ctx, outer, ctr, fed>>

K == Data(300, job.secrets.k)
H == Data(400, job.secrets.h)
Letter == <<<<500>>>>
SessionId == Data(600, job.secrets.sid)

\* The context after an update with each of the pieces
Hashed2(s, t) == HashUpdate(Sha256, HashUpdate(Sha256, HashInit(Sha256), s), t)

\* out_key with as much of the digest as is asked for
Extended(key, c) ==
  key \o SubSeq(Digest(HashFinal(Sha256, c)), 1, Min({job.len - Len(key), DigestSize}))
DerivedSome(key) == pc' = IF Len(key) < job.len THEN "more" ELSE "done"

\* kex_derive_key: a length of 0 is refused; K1 comes from K, H, X, session_id.
DeriveFirst ==
  /\ pc = "ready" /\ job.kind = "derive"
  /\ IF job.len = 0 THEN pc' = "failed" /\ UNCHANGED <<out, ctx>>
     ELSE /\ ctx' = HashUpdate(Sha256, HashUpdate(Sha256, Hashed2(K, H), Letter), SessionId)
          /\ out' = Extended(<<>>, ctx')
          /\ DerivedSome(out')
  /\ UNCHANGED <<job, outer, ctr, fed>>

\* Mutant: the next round hashes the last digest only.
RoundInputLast(key) == SubSeq(key, Len(key) - DigestSize + 1, Len(key))

\* What a later round hashes after K and H: all of the key so far
RoundInput(key) == key

\* One round of its loop: the context starts afresh.
DeriveMore ==
  /\ pc = "more"
  /\ ctx' = HashUpdate(Sha256, Hashed2(K, H), RoundInput(out))
  /\ out' = Extended(out, ctx')
  /\ DerivedSome(out')
  /\ UNCHANGED <<job, outer, ctr, fed>>

\* aes_ctr_crypt is called for n bytes.
Crypt(n) ==
  /\ pc = "ready" /\ job.kind = "ctr" /\ fed + n <= MaxLen
  /\ ctr' = [ctr EXCEPT !.left = n]
  /\ fed' = fed + n
  /\ pc' = "crypt"
  /\ UNCHANGED <<job, ctx, outer, out>>

\* One round of its loop
CryptLoop ==
  /\ pc = "crypt"
  /\ LET fresh == ctr.offset = 0
         stream == IF fresh THEN ctr.nonce ELSE ctr.stream
         take == Min({AES_BLOCK_SIZE - ctr.offset, ctr.left})
     IN
     /\ ctr' = [nonce |-> IF fresh THEN Increment(ctr.nonce) ELSE ctr.nonce,
                stream |-> stream,
                offset |-> Offset(ctr.offset, take, ctr.left),
                left |-> ctr.left - take]
     /\ out' = out \o [i \in 1 .. take |-> <<stream, ctr.offset + i - 1>>]
     /\ pc' = IF take = ctr.left THEN "ready" ELSE "crypt"
  /\ UNCHANGED <<job, ctx, outer, fed>>

EncodeCall ==
  /\ pc = "ready" /\ job.kind = "base64"
  /\ LET text == Encode(job.of.src, job.of.room)
     IN IF text = Failed THEN pc' = "failed" /\ UNCHANGED <<job, out>>
        ELSE /\ pc' = "text"
             /\ out' = text
             /\ job' = [job EXCEPT !.text = text]
  /\ UNCHANGED <<ctx, outer, ctr, fed>>

\* One character comes in or goes on the way to the reader.
Edit ==
  /\ pc = "text"
  /\ \/ \E i \in 1 .. Len(job.text) + 1, c \in {0, 63, Pad, Newline, Other} :
          job' = [job EXCEPT !.text = InsertAt(@, i, c)]
     \/ \E i \in DOMAIN job.text : job' = [job EXCEPT !.text = RemoveAt(@, i)]
  /\ pc' = "edited"
  /\ UNCHANGED <<ctx, outer, ctr, fed, out>>

DecodeCall ==
  /\ pc \in {"text", "edited"}
  /\ out' = Decode(job.text, job.of.cap)
  /\ pc' = "done"
  /\ UNCHANGED <<job, ctx, outer, ctr, fed>>

Ended ==
  /\ \/ pc \in {"done", "failed"}
     \/ pc = "ready" /\ job.kind = "ctr" /\ fed = MaxLen
  /\ UNCHANGED vars

Next ==
  \/ \E n \in 1 .. MaxLen : Update(n) \/ Crypt(n)
  \/ Final \/ DeriveFirst \/ DeriveMore \/ CryptLoop
  \/ EncodeCall \/ Edit \/ DecodeCall \/ Ended

Spec == Init /\ [][Next]_vars

-----------------------------------------------------------------------------
(* Properties, against the definitions of FIPS 180-4, RFC 2104, RFC 4253    *)
(* section 7.2 and SP 800-38A on the whole input.                           *)

\* The padded message, cut into blocks
Padded(a, s) ==
  LET used == Len(s) + 1 + a.words
      gap == (a.block - (used % a.block)) % a.block
      bits == 8 * Len(s)
      length == IF a.words = 2 THEN <<<<bits \div a.mod>>, <<bits % a.mod>>>>
                ELSE <<<<bits>>>>
  IN s \o <<Mark>> \o Fill(gap) \o length
RefState(a, s) == Blocks(a.block, Padded(a, s))
RefHash(s) == Digest(RefState(Sha256, s))

RefKeyBlock(key) ==
  LET k == IF Len(key) <= Sha256.block THEN key ELSE RefHash(key)
  IN [i \in 1 .. Sha256.block |-> IF i <= Len(k) THEN k[i] ELSE Zero]
RefMac(key, s) ==
  LET Mask(m) == [i \in 1 .. Sha256.block |-> <<"xor", RefKeyBlock(key)[i], m>>]
  IN RefHash(Mask("opad") \o RefHash(Mask("ipad") \o s))

\* A digest is that of all the bytes handed over, in whatever pieces; between
\* calls there is room in the block buffer, where final puts its mark without
\* looking.
DigestOfWhole ==
  /\ \A c \in {ctx, outer} : c.buflen \in 0 .. Algo.block - 1 /\ Len(c.buf) = Algo.block
  /\ pc = "done" /\ job.kind = "digest" =>
       out = Digest(RefState(job.algo, Message(fed)))

\* So is a MAC: session_send hashes the sequence number and the packet in two
\* pieces, for keys shorter and longer than a block.
MacOfWhole ==
  pc = "done" /\ job.kind = "mac" => out = RefMac(MacKey(job.key), Message(fed))

\* A derived key is the first bytes of K1 || K2 || ..., where each K hashes all
\* those before it: both ends get the same key and a longer key begins with the
\* shorter one, also when the last digest is used in part.
KeyOfRfc4253 ==
  job.kind = "derive" /\ out # <<>> =>
    /\ \A i \in DOMAIN out :
         LET before == ((i - 1) \div DigestSize) * DigestSize
             said == IF before = 0 THEN Letter \o SessionId ELSE SubSeq(out, 1, before)
         IN out[i] = RefHash(K \o H \o said)[i - before]
    /\ pc = "done" => Len(out) = job.len

\* Byte j of a stream meets byte j of the keystream, however many calls it took
\* to get there: session_recv decrypts in two calls what session_send encrypts
\* in one.
StreamPosition ==
  job.kind = "ctr" =>
    /\ pc = "ready" => Len(out) = fed
    /\ \A j \in DOMAIN out :
         LET start == job.iv[1] * CtrBase + job.iv[2]
             block == (start + (j - 1) \div AES_BLOCK_SIZE) % (CtrBase * CtrBase)
         IN out[j] = << <<block \div CtrBase, block % CtrBase>>,
                        (j - 1) % AES_BLOCK_SIZE >>

\* A text without its line ends
Seen(text) ==
  LET seen[k \in 0 .. Len(text)] ==
        IF k = 0 THEN <<>>
        ELSE IF text[k] = Newline THEN seen[k - 1] ELSE Append(seen[k - 1], text[k])
  IN seen[Len(text)]

\* Bit i of a string of letters, and the byte of which bit i is the first
LetterBit(s, i) == (s[i \div 6 + 1] \div 2^(5 - (i % 6))) % 2
LetterByte(s, i) ==
  128 * LetterBit(s, i) + 64 * LetterBit(s, i + 1) + 32 * LetterBit(s, i + 2)
    + 16 * LetterBit(s, i + 3) + 8 * LetterBit(s, i + 4) + 4 * LetterBit(s, i + 5)
    + 2 * LetterBit(s, i + 6) + LetterBit(s, i + 7)

\* n letters, none of them left over, and behind them at most two pads
LettersThenPads(s, n) ==
  /\ \A i \in 1 .. n : s[i] < Pad
  /\ \A i \in n + 1 .. Len(s) : s[i] = Pad
  /\ Len(s) <= n + 2 /\ n % 4 # 1

\* The whole bytes that are in the bits of the letters, whatever the padding.
LettersSay(text) ==
  LET s == Seen(text)
      lengths == {n \in 0 .. Len(s) : LettersThenPads(s, n)}
  IN IF lengths = {} THEN Failed
     ELSE [k \in 1 .. (6 * (CHOOSE n \in lengths : TRUE)) \div 8 |->
             LetterByte(s, 8 * (k - 1))]

\* RFC 4648 with padding: no more and no fewer pads than fill up the last four
RefDecode(text) == IF Len(Seen(text)) % 4 = 0 THEN LettersSay(text) ELSE Failed

\* base64_encode writes the text of its bytes, or nothing when there is no room
\* for it and the NUL; base64_decode gives back what a text of RFC 4648 says, also
\* with lines cut anywhere, and from no text more than its letters say or than
\* there is room for.  It does not refuse every invalid text (base64.h:9): pads may
\* be missing or be one or two too many.
Base64OfRfc4648 ==
  job.kind = "base64" =>
    LET chars == 4 * ((Len(job.of.src) + 2) \div 3)
        said == RefDecode(job.text)
    IN /\ pc # "ready" => (pc = "failed" <=> job.of.room <= chars)
       /\ pc = "text" => Len(out) = chars /\ said = job.of.src
       /\ pc = "done" /\ said # Failed =>
            out = IF Len(said) > job.of.cap THEN Failed ELSE said
       /\ pc = "done" /\ out # Failed =>
            Len(out) <= job.of.cap /\ out = LettersSay(job.text)
=============================================================================
