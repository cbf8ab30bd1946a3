------------------------------ MODULE KexProofs ------------------------------
(***************************************************************************)
(* Theorems about module Kex: for every pair of offers, whatever the       *)
(* name-lists, and every number of failed allocations.                     *)
(***************************************************************************)
EXTENDS Kex, FiniteSetTheorems, WellFoundedInduction, TLAPS

(* The first name that both have.                                           *)

LEMMA LessThanWellFounded ==
  IsWellFoundedOn({ss \in Nat \X Nat : ss[1] < ss[2]}, Nat)
BY NatLessThanWellFounded DEF OpToRel

LEMMA Smallest ==
  ASSUME NEW S, S \subseteq Nat, S # {}
  PROVE  Min(S) \in S /\ \A y \in S : Min(S) <= y
<1>. DEFINE R == {ss \in Nat \X Nat : ss[1] < ss[2]}
<1>1. IsWellFoundedOn(R, Nat)
  BY LessThanWellFounded
<1>2. PICK x \in S : \A y \in S : <<y, x>> \notin R
  <2>. HIDE DEF R
  <2>. QED
    BY <1>1, WFMin
<1>3. ASSUME NEW y \in S PROVE x <= y
  <2>1. /\ <<y, x>> \in Nat \X Nat /\ <<y, x>>[1] = y /\ <<y, x>>[2] = x
        /\ x \in Nat /\ y \in Nat
    OBVIOUS
  <2>2. ~(y < x)
    BY <2>1, <1>2
  <2>. QED
    BY <2>1, <2>2
<1>4. \E m \in S : \A y \in S : m <= y
  BY <1>3
<1>. QED
  BY <1>4 DEF Min

\* Positions of c whose name is not empty and in s
CommonAt(c, s) == {i \in DOMAIN c : c[i] # "" /\ Contains(s, c[i])}

LEMMA MatchIs ==
  \A c, s : Match(c, s) = IF c = Null \/ s = Null \/ CommonAt(c, s) = {} THEN Null
                          ELSE <<c[Min(CommonAt(c, s))]>>
BY Zenon DEF Match, CommonAt

LEMMA Lists ==
  /\ \A c \in Seq(STRING) : DOMAIN c = 1 .. Len(c) /\ Len(c) \in Nat
  /\ \A c \in Seq(STRING), i \in Nat : i \in DOMAIN c => c[i] \in STRING
  /\ \A x \in STRING : <<x>> \in Seq(STRING)
  /\ \A x, y : <<x>> = <<y>> => x = y
<1>1. ASSUME NEW S, NEW c \in Seq(S)
      PROVE  /\ DOMAIN c = 1 .. Len(c) /\ Len(c) \in Nat
             /\ \A i \in Nat : i \in DOMAIN c => c[i] \in S
  OBVIOUS
<1>2. ASSUME NEW S, NEW x \in S PROVE <<x>> \in Seq(S)
  OBVIOUS
<1>3. ASSUME NEW x, NEW y, <<x>> = <<y>> PROVE x = y
  <2>1. <<x>>[1] = x /\ <<y>>[1] = y
    OBVIOUS
  <2>. QED
    BY <2>1, <1>3, Zenon
<1>. QED
  BY <1>1, <1>2, <1>3, Zenon

\* What Match finds, and that it finds nothing that is not there.
LEMMA MatchFirst ==
  ASSUME NEW c \in NameList, NEW s \in NameList, Match(c, s) # Null
  PROVE  /\ c # Null /\ s # Null /\ c # <<>> /\ s # <<>>
         /\ \E i \in DOMAIN c :
              /\ Match(c, s) = <<c[i]>> /\ c[i] # "" /\ c[i] \in STRING
              /\ \E j \in DOMAIN s : s[j] = c[i]
              /\ \A k \in 1 .. i - 1 : c[k] # "" => \A j \in DOMAIN s : s[j] # c[k]
<1>. DEFINE m == Min(CommonAt(c, s))
<1>1. /\ c # Null /\ s # Null /\ CommonAt(c, s) # {}
      /\ Match(c, s) = <<c[m]>>
  BY MatchIs, Zenon
<1>2. /\ c \in Seq(STRING) /\ s \in Seq(STRING)
      /\ DOMAIN c = 1 .. Len(c) /\ DOMAIN s = 1 .. Len(s) /\ Len(c) \in Nat /\ Len(s) \in Nat
  BY <1>1, Lists, Zenon DEF NameList
<1>3. CommonAt(c, s) \subseteq DOMAIN c
  BY Zenon DEF CommonAt
<1>4. CommonAt(c, s) \subseteq Nat
  BY <1>2, <1>3
<1>5. m \in CommonAt(c, s) /\ \A y \in CommonAt(c, s) : m <= y
  BY <1>1, <1>4, Smallest, Zenon
<1>. HIDE DEF m
<1>6. m \in DOMAIN c /\ c[m] # "" /\ \E j \in DOMAIN s : s[j] = c[m]
  BY <1>5, Zenon DEF CommonAt, Contains
<1>7. c[m] \in STRING
  BY <1>2, <1>4, <1>5, <1>6, Lists, Zenon
<1>8. ASSUME NEW k \in 1 .. m - 1, c[k] # "", NEW j \in DOMAIN s, s[j] = c[k]
      PROVE  FALSE
  <2>1. k \in DOMAIN c /\ ~(m <= k)
    <3>1. m \in 1 .. Len(c)
      BY <1>2, <1>6
    <3>2. k \in 1 .. Len(c) /\ ~(m <= k)
      BY <1>2, <3>1
    <3>. QED
      BY <1>2, <3>2
  <2>2. k \in CommonAt(c, s)
    BY <1>8, <2>1, Zenon DEF CommonAt, Contains
  <2>. QED
    BY <1>5, <2>1, <2>2
<1>9. c # <<>> /\ s # <<>>
  <2>1. Len(<<>>) = 0 /\ 1 .. 0 = {}
    OBVIOUS
  <2>. QED
    BY <1>2, <1>6, <2>1, Zenon
<1>. QED
  BY <1>1, <1>6, <1>7, <1>8, <1>9

\* Match returns one name that is not empty, or nothing.
LEMMA MatchType ==
  ASSUME NEW c \in NameList, NEW s \in NameList
  PROVE  Match(c, s) \in NameList /\ Match(c, s) # <<"">>
<1>1. CASE Match(c, s) = Null
  <2>1. "NULL" # ""
    OBVIOUS
  <2>. QED
    BY <1>1, <2>1, Lists, Zenon DEF Null, NameList
<1>2. CASE Match(c, s) # Null
  <2>1. PICK i \in DOMAIN c : Match(c, s) = <<c[i]>> /\ c[i] # "" /\ c[i] \in STRING
    BY <1>2, MatchFirst, Zenon
  <2>. QED
    BY <2>1, Lists, Zenon DEF NameList
<1>. QED
  BY <1>1, <1>2

-----------------------------------------------------------------------------
(* The fields.                                                              *)

LEMMA FieldPlaces ==
  /\ \A i \in 1 .. 10 : Fields[i] \in Field
  /\ \A f \in Field : At(f) \in 1 .. 10 /\ Fields[At(f)] = f
  /\ Len(Fields) = 10
<1>1. DOMAIN Fields = 1 .. 10 /\ Len(Fields) = 10
  BY DEF Fields
<1>2. \A i \in 1 .. 10 : Fields[i] \in Field
  BY <1>1, Zenon DEF Field
<1>3. ASSUME NEW f \in Field PROVE At(f) \in 1 .. 10 /\ Fields[At(f)] = f
  <2>1. \E i \in DOMAIN Fields : Fields[i] = f
    BY Zenon DEF Field
  <2>. QED
    BY <1>1, <2>1, Zenon DEF At
<1>. QED
  BY <1>1, <1>2, <1>3

\* The languages are the last fields: none that is negotiated comes after one.
LEMMA LanguagesLast ==
  /\ Chosen \subseteq Field
  /\ \A f \in Field \ Chosen, g \in Chosen : g # f /\ ~(At(g) > At(f))
<1>1. ASSUME NEW f \in Field, f \notin Chosen PROVE At(f) >= 9
  <2>1. f = "lang_c2s" \/ f = "lang_s2c"
    BY <1>1 DEF Chosen
  <2>2. At(f) \in 1 .. 10 /\ Fields[At(f)] = f
    BY FieldPlaces
  <2>. QED
    BY <2>1, <2>2 DEF Fields
<1>2. ASSUME NEW g \in Chosen PROVE At(g) <= 8
  <2>1. g \in Field /\ g # "lang_c2s" /\ g # "lang_s2c"
    BY DEF Chosen
  <2>2. At(g) \in 1 .. 10 /\ Fields[At(g)] = g
    BY <2>1, FieldPlaces
  <2>. QED
    BY <2>1, <2>2 DEF Fields
<1>3. \A f \in Field : At(f) \in Nat
  BY FieldPlaces
<1>4. Chosen \subseteq Field
  BY DEF Chosen
<1>. QED
  BY <1>1, <1>2, <1>3, <1>4

-----------------------------------------------------------------------------
(* Type correctness.                                                        *)

Kexinit == [Field -> NameList]
PC == {"start", "init", "sent", "decoded", "agreed", "failed"}

\* What TypeOK says of one end's proposal
Proposal(p) ==
  /\ p \in [Chosen -> NameList]
  /\ \A f \in Chosen : p[f] # <<"">> /\ (p[f] = Null => p = Nothing)

Types ==
  /\ offer \in Offers /\ own \in [End -> Kexinit] /\ peer \in [End -> Kexinit]
  /\ wire \in [End -> SUBSET Kexinit] /\ \A e \in End : Cardinality(wire[e]) <= 1
  /\ chosen \in [End -> [Chosen -> NameList]]
  /\ \A e \in End : Proposal(chosen[e])
  /\ pc \in [End -> PC] /\ faults \in 0 .. MaxFaults

LEMMA TypeParts == TypeOK <=> Types
BY DEF TypeOK, Types, Kexinit, PC, Proposal

LEMMA NullIsNotEmpty == Null \in NameList /\ Null # <<"">> /\ <<>> \in NameList
<1>1. "NULL" # ""
  OBVIOUS
<1>2. Null # <<"">>
  BY <1>1, Lists, Zenon DEF Null
<1>3. <<>> \in Seq(STRING)
  OBVIOUS
<1>. QED
  BY <1>2, <1>3 DEF NameList

LEMMA NothingType == Proposal(Nothing)
BY NullIsNotEmpty DEF Nothing, Proposal

LEMMA OfferType == offer \in Offers => offer \in [End -> Kexinit]
BY KexAssumption DEF NameList, Kexinit

LEMMA EncodedType == \A k \in Kexinit : Encoded(k) \in Kexinit
BY NullIsNotEmpty DEF Encoded, Kexinit

LEMMA MisreadType ==
  ASSUME NEW k \in Kexinit, NEW f \in Field, NEW m \in Misread(k, f)
  PROVE  m \in Kexinit
<1>1. /\ \A g \in Field : At(g) \in 1 .. 10
      /\ \A i \in 1 .. 10 : Fields[i] \in Field
  BY FieldPlaces
<1>2. CASE k[f] = <<>>
  <2>1. m = [k EXCEPT ![f] = Null]
    BY <1>2, Zenon DEF Misread
  <2>. QED
    BY <2>1, NullIsNotEmpty DEF Kexinit
<1>3. CASE k[f] # <<>>
  <2>1. CASE m = [g \in Field |-> IF g = f \/ At(g) > At(f) THEN Null ELSE k[g]]
    BY <2>1, NullIsNotEmpty DEF Kexinit
  <2>2. CASE \E i \in At(f) + 2 .. Len(Fields) :
               m = [g \in Field |-> IF g = f \/ (At(g) > At(f) /\ At(g) < i) THEN Null
                                    ELSE IF At(g) > At(f) THEN k[Fields[At(g) - 1]] ELSE k[g]]
    <3>1. PICK i \in At(f) + 2 .. Len(Fields) :
               m = [g \in Field |-> IF g = f \/ (At(g) > At(f) /\ At(g) < i) THEN Null
                                    ELSE IF At(g) > At(f) THEN k[Fields[At(g) - 1]] ELSE k[g]]
      BY <2>2
    <3>2. \A g \in Field : At(g) > At(f) => Fields[At(g) - 1] \in Field
      BY <1>1
    <3>3. \A g \in Field : m[g] \in NameList
      BY <3>1, <3>2, NullIsNotEmpty DEF Kexinit
    <3>. QED
      BY <3>1, <3>3 DEF Kexinit
  <2>. QED
    BY <1>3, <2>1, <2>2, Zenon DEF Misread
<1>. QED
  BY <1>2, <1>3

\* What a negotiation that may miss one field can settle on.
Matches(e) == [f \in Chosen |-> Match(ClientLists(e)[f], ServerLists(e)[f])]

LEMMA MatchesType ==
  ASSUME TypeOK, NEW e \in End
  PROVE  /\ Matches(e) \in [Chosen -> NameList]
         /\ \A f \in Chosen : Matches(e)[f] # <<"">>
<1>1. ClientLists(e) \in Kexinit /\ ServerLists(e) \in Kexinit
  BY TypeParts DEF Types, ClientLists, ServerLists
<1>2. \A f \in Chosen : ClientLists(e)[f] \in NameList /\ ServerLists(e)[f] \in NameList
  BY <1>1, LanguagesLast DEF Kexinit
<1>3. \A f \in Chosen : /\ Match(ClientLists(e)[f], ServerLists(e)[f]) \in NameList
                        /\ Match(ClientLists(e)[f], ServerLists(e)[f]) # <<"">>
  BY <1>2, MatchType, Zenon
<1>. QED
  BY <1>3 DEF Matches

LEMMA SettleType ==
  ASSUME TypeOK, NEW e \in End, NEW p \in [Chosen -> NameList],
         \A f \in Chosen : p[f] # <<"">>, Settle(e, p)
  PROVE  /\ chosen' \in [End -> [Chosen -> NameList]]
         /\ \A d \in End : Proposal(chosen'[d])
         /\ pc' \in [End -> PC]
<1>0. /\ chosen \in [End -> [Chosen -> NameList]] /\ pc \in [End -> PC]
      /\ \A d \in End : Proposal(chosen[d])
  BY TypeParts DEF Types
<1>1. CASE \E f \in Chosen : p[f] = Null
  BY <1>0, <1>1, NothingType DEF Settle, Goto, PC, Proposal
<1>2. CASE ~ \E f \in Chosen : p[f] = Null
  <2>1. Proposal(p)
    BY <1>2 DEF Proposal
  <2>. QED
    BY <1>0, <1>2, <2>1 DEF Settle, Goto, PC
<1>. QED
  BY <1>1, <1>2

LEMMA SmallWire ==
  /\ Cardinality({}) <= 1
  /\ \A k : Cardinality({k}) <= 1
<1>1. Cardinality({}) = 0 /\ 0 <= 1
  BY FS_EmptySet
<1>2. 1 <= 1
  OBVIOUS
<1>3. \A k : Cardinality({k}) = 1
  BY FS_Singleton, Zenon
<1>. QED
  BY <1>1, <1>2, <1>3, Zenon

LEMMA FaultType ==
  ASSUME faults \in 0 .. MaxFaults, Fault \/ NoFault
  PROVE  faults' \in 0 .. MaxFaults
BY KexAssumption DEF Fault, NoFault

LEMMA TypeInit == Init => TypeOK
<1>. SUFFICES ASSUME Init PROVE TypeOK
  OBVIOUS
<1>1. own \in [End -> Kexinit] /\ peer \in [End -> Kexinit]
  BY NullIsNotEmpty DEF Init, Kexinit
<1>2. wire \in [End -> SUBSET Kexinit] /\ \A e \in End : wire[e] = {}
  BY DEF Init
<1>3. chosen \in [End -> [Chosen -> NameList]] /\ \A e \in End : Proposal(chosen[e])
  BY NothingType DEF Init, Proposal
<1>4. pc \in [End -> PC]
  BY DEF Init, PC
<1>5. faults \in 0 .. MaxFaults
  BY KexAssumption DEF Init
<1>. QED
  BY <1>1, <1>2, <1>3, <1>4, <1>5, SmallWire, TypeParts DEF Init, Types

LEMMA TypeStep ==
  ASSUME TypeOK, NEW e \in End, Step(e)
  PROVE  Types'
<1>0. /\ offer \in Offers /\ own \in [End -> Kexinit] /\ peer \in [End -> Kexinit]
      /\ wire \in [End -> SUBSET Kexinit] /\ \A d \in End : Cardinality(wire[d]) <= 1
      /\ chosen \in [End -> [Chosen -> NameList]]
      /\ \A d \in End : Proposal(chosen[d])
      /\ pc \in [End -> PC] /\ faults \in 0 .. MaxFaults
      /\ offer \in [End -> Kexinit] /\ Peer(e) \in End
  BY TypeParts, OfferType DEF Types, Peer, End
<1>p. ASSUME NEW l \in PC, Goto(e, l) PROVE pc' \in [End -> PC]
  BY <1>0, <1>p DEF Goto
<1>w. ASSUME NEW d \in End, NEW S, wire' = [wire EXCEPT ![d] = S], Cardinality(S) <= 1,
             S \subseteq Kexinit
      PROVE  /\ wire' \in [End -> SUBSET Kexinit]
             /\ \A x \in End : Cardinality(wire'[x]) <= 1
  <2>1. ASSUME NEW x \in End PROVE wire'[x] = S \/ wire'[x] = wire[x]
    BY <1>0, <1>w
  <2>2. wire' \in [End -> SUBSET Kexinit]
    BY <1>0, <1>w
  <2>. QED
    BY <1>0, <1>w, <2>1, <2>2, Zenon
<1>1. CASE InitDefault(e)
  <2>1. own' \in [End -> Kexinit]
    <3>1. \A f \in Field : [offer[e] EXCEPT ![f] = Null] \in Kexinit
      BY <1>0, NullIsNotEmpty DEF Kexinit
    <3>. QED
      BY <1>0, <1>1, <3>1 DEF InitDefault
  <2>2. pc' \in [End -> PC]
    BY <1>1, <1>p DEF InitDefault, PC
  <2>3. faults' \in 0 .. MaxFaults
    BY <1>0, <1>1, FaultType DEF InitDefault
  <2>. QED
    BY <1>0, <1>1, <2>1, <2>2, <2>3 DEF InitDefault, Types
<1>2. CASE Encode(e)
  <2>1. /\ wire' \in [End -> SUBSET Kexinit]
        /\ \A x \in End : Cardinality(wire'[x]) <= 1
    <3>1. Encoded(own[e]) \in Kexinit
      BY <1>0, EncodedType
    <3>2. CASE wire' = wire
      BY <1>0, <3>2
    <3>3. CASE wire' = [wire EXCEPT ![Peer(e)] = {Encoded(own[e])}]
      <4>1. Cardinality({Encoded(own[e])}) <= 1 /\ {Encoded(own[e])} \subseteq Kexinit
        BY <3>1, SmallWire, Zenon
      <4>. QED
        BY <1>0, <1>w, <3>3, <4>1
    <3>. QED
      BY <1>2, <3>2, <3>3 DEF Encode
  <2>2. pc' \in [End -> PC]
    BY <1>2, <1>p DEF Encode, PC
  <2>3. faults' \in 0 .. MaxFaults
    BY <1>0, <1>2, FaultType DEF Encode
  <2>. QED
    BY <1>0, <1>2, <2>1, <2>2, <2>3 DEF Encode, Types
<1>3. CASE Decode(e)
  <2>. DEFINE k == CHOOSE k \in wire[e] : TRUE
  <2>1. k \in Kexinit
    BY <1>0, <1>3 DEF Decode
  <2>2. peer' \in [End -> Kexinit]
    <3>1. \/ peer' = [peer EXCEPT ![e] = k]
          \/ \E f \in Field : \E m \in Misread(k, f) : peer' = [peer EXCEPT ![e] = m]
      BY <1>3, Zenon DEF Decode
    <3>. HIDE DEF k
    <3>2. \A m \in Kexinit : [peer EXCEPT ![e] = m] \in [End -> Kexinit]
      BY <1>0
    <3>. QED
      BY <2>1, <3>1, <3>2, MisreadType, Zenon
  <2>3. /\ wire' \in [End -> SUBSET Kexinit]
        /\ \A x \in End : Cardinality(wire'[x]) <= 1
    <3>1. Cardinality({}) <= 1 /\ {} \subseteq Kexinit /\ wire' = [wire EXCEPT ![e] = {}]
      BY <1>3, SmallWire, Zenon DEF Decode
    <3>. QED
      BY <1>w, <3>1, Zenon
  <2>4. pc' \in [End -> PC]
    BY <1>3, <1>p, Zenon DEF Decode, PC
  <2>5. faults' \in 0 .. MaxFaults
    BY <1>0, <1>3, FaultType, Zenon DEF Decode
  <2>6. UNCHANGED <<offer, own, chosen>>
    BY <1>3 DEF Decode
  <2>. QED
    BY <1>0, <2>2, <2>3, <2>4, <2>5, <2>6 DEF Types
<1>4. CASE Negotiate(e)
  <2>1. \/ Settle(e, Matches(e)) /\ NoFault
        \/ (\E f \in Chosen : Settle(e, [Matches(e) EXCEPT ![f] = Null])) /\ Fault
    BY <1>4, Zenon DEF Negotiate, Matches
  <2>2. /\ chosen' \in [End -> [Chosen -> NameList]]
        /\ \A d \in End : Proposal(chosen'[d])
        /\ pc' \in [End -> PC]
    <3>1. CASE Settle(e, Matches(e))
      BY <3>1, MatchesType, SettleType
    <3>2. CASE \E f \in Chosen : Settle(e, [Matches(e) EXCEPT ![f] = Null])
      <4>1. PICK f \in Chosen : Settle(e, [Matches(e) EXCEPT ![f] = Null])
        BY <3>2
      <4>. DEFINE p == [Matches(e) EXCEPT ![f] = Null]
      <4>2. p \in [Chosen -> NameList] /\ \A g \in Chosen : p[g] # <<"">>
        BY MatchesType, NullIsNotEmpty
      <4>. HIDE DEF p
      <4>3. Settle(e, p)
        BY <4>1 DEF p
      <4>. QED
        BY <4>2, <4>3, SettleType
    <3>. QED
      BY <2>1, <3>1, <3>2
  <2>3. faults' \in 0 .. MaxFaults
    BY <1>0, <2>1, FaultType
  <2>4. UNCHANGED <<offer, own, peer, wire>>
    BY <1>4 DEF Negotiate
  <2>. QED
    BY <1>0, <2>2, <2>3, <2>4 DEF Types
<1>5. CASE Abandon(e)
  <2>1. pc' \in [End -> PC]
    BY <1>5, <1>p DEF Abandon, PC
  <2>. QED
    BY <1>0, <1>5, <2>1 DEF Abandon, Types
<1>. QED
  BY <1>1, <1>2, <1>3, <1>4, <1>5 DEF Step

LEMMA TypeNext == TypeOK /\ [Next]_vars => TypeOK'
<1>1. ASSUME TypeOK, UNCHANGED vars PROVE TypeOK'
  BY <1>1 DEF vars, TypeOK
<1>2. ASSUME Types' PROVE TypeOK'
  BY <1>2 DEF TypeOK, Types, Kexinit, PC, Proposal
<1>. QED
  BY <1>1, <1>2, TypeStep DEF Next, Ended

\* Every variable keeps its type, for every offer and number of failures; of a
\* proposal in which a field was not found nothing is left.
THEOREM TypeCorrect == Spec => []TypeOK
BY TypeInit, TypeNext, PTL DEF Spec

-----------------------------------------------------------------------------
(* What the two ends agree on.                                              *)

\* An end's own lists, and what it sends of them, are its offer but for the
\* lists that could not be copied.
OfferedInv ==
  \A e \in End :
    /\ \A f \in Field : own[e][f] \in {Null, offer[e][f]}
    /\ \A k \in wire[Peer(e)] : \A f \in Field : k[f] \in {<<>>, offer[e][f]}

\* A packet that is misread misses a list that counts; otherwise it has the
\* peer's offer in every field that counts, or nothing.
Recognised(p, o) ==
  \/ \E f \in Chosen : p[f] = Null
  \/ \A f \in Chosen : p[f] \in {<<>>, o[f]}

DecodedInv == \A e \in End : pc[e] = "decoded" => Recognised(peer[e], offer[Peer(e)])

\* What an end that agrees has chosen is a function of the two offers.
AgreedInv ==
  \A e \in End : pc[e] = "agreed" =>
    \A f \in Chosen :
      /\ chosen[e][f] = Match(offer["client"][f], offer["server"][f])
      /\ chosen[e][f] # Null

ChoiceInv == OfferedInv /\ DecodedInv /\ AgreedInv

LEMMA MisreadRecognised ==
  ASSUME NEW k \in Kexinit, NEW o, NEW f \in Field, NEW m \in Misread(k, f),
         \A g \in Field : k[g] \in {<<>>, o[g]}
  PROVE  Recognised(m, o)
<1>1. CASE f \in Chosen
  <2>1. m[f] = Null
    BY Zenon DEF Misread, Kexinit
  <2>. QED
    BY <1>1, <2>1 DEF Recognised
<1>2. CASE f \notin Chosen
  <2>1. \A g \in Chosen : g \in Field /\ g # f /\ ~(At(g) > At(f))
    BY <1>2, LanguagesLast
  <2>2. \A g \in Chosen : m[g] = k[g]
    BY <2>1, Zenon DEF Misread, Kexinit
  <2>. QED
    BY <2>1, <2>2, Zenon DEF Recognised
<1>. QED
  BY <1>1, <1>2

LEMMA PeerOfPeer == \A e \in End : Peer(e) \in End /\ Peer(e) # e /\ Peer(Peer(e)) = e
BY DEF Peer, End

\* When every field that counts is found, both lists were the offers.
LEMMA MatchedOffers ==
  ASSUME TypeOK, OfferedInv, DecodedInv, NEW e \in End, pc[e] = "decoded",
         \A f \in Chosen : Matches(e)[f] # Null
  PROVE  \A f \in Chosen : Matches(e)[f] = Match(offer["client"][f], offer["server"][f])
<1>0. /\ own[e] \in Kexinit /\ peer[e] \in Kexinit /\ Peer(e) \in End
      /\ \A f \in Chosen : f \in Field
  BY TypeParts, PeerOfPeer, LanguagesLast DEF Types
<1>1. ASSUME NEW f \in Chosen
      PROVE  /\ own[e][f] # Null /\ own[e][f] # <<>> /\ peer[e][f] # Null /\ peer[e][f] # <<>>
  <2>1. Match(ClientLists(e)[f], ServerLists(e)[f]) # Null
    BY DEF Matches
  <2>2. own[e][f] \in NameList /\ peer[e][f] \in NameList
    BY <1>0 DEF Kexinit
  <2>3. \/ ClientLists(e) = own[e] /\ ServerLists(e) = peer[e]
        \/ ClientLists(e) = peer[e] /\ ServerLists(e) = own[e]
    BY DEF ClientLists, ServerLists, End
  <2>4. /\ ClientLists(e)[f] # Null /\ ServerLists(e)[f] # Null
        /\ ClientLists(e)[f] # <<>> /\ ServerLists(e)[f] # <<>>
    <3>1. ClientLists(e)[f] \in NameList /\ ServerLists(e)[f] \in NameList
      BY <2>2, <2>3, Zenon
    <3>. QED
      BY <2>1, <3>1, MatchFirst, Zenon
  <2>. QED
    BY <2>3, <2>4, Zenon
<1>2. \A f \in Chosen : own[e][f] = offer[e][f] /\ peer[e][f] = offer[Peer(e)][f]
  BY <1>0, <1>1, Zenon DEF OfferedInv, DecodedInv, Recognised
<1>3. \A f \in Chosen : /\ ClientLists(e)[f] = offer["client"][f]
                        /\ ServerLists(e)[f] = offer["server"][f]
  BY <1>2, Zenon DEF ClientLists, ServerLists, Peer, End
<1>. QED
  BY <1>3 DEF Matches

LEMMA ChoiceInit == Init => ChoiceInv
BY DEF Init, ChoiceInv, OfferedInv, DecodedInv, AgreedInv, Peer, End

LEMMA ChoiceStep ==
  ASSUME TypeOK, ChoiceInv, NEW e \in End, Step(e)
  PROVE  ChoiceInv'
<1>0. /\ own \in [End -> Kexinit] /\ peer \in [End -> Kexinit] /\ pc \in [End -> PC]
      /\ wire \in [End -> SUBSET Kexinit]
      /\ chosen \in [End -> [Chosen -> NameList]]
      /\ offer \in [End -> Kexinit]
  BY TypeParts, OfferType DEF Types
<1>f. offer' = offer
  BY DEF Step, InitDefault, Encode, Decode, Negotiate, Abandon
<1>o. ASSUME own' = own, wire' = wire PROVE OfferedInv'
  BY <1>f, <1>o DEF ChoiceInv, OfferedInv
<1>d. ASSUME peer' = peer, NEW l, Goto(e, l), l # "decoded" PROVE DecodedInv'
  <2>1. \A d \in End : pc'[d] = "decoded" => pc[d] = "decoded"
    BY <1>0, <1>d DEF Goto
  <2>. QED
    BY <1>d, <1>f, <2>1, Zenon DEF ChoiceInv, DecodedInv
<1>a. ASSUME chosen' = chosen, NEW l, Goto(e, l), l # "agreed" PROVE AgreedInv'
  <2>1. \A d \in End : pc'[d] = "agreed" => pc[d] = "agreed"
    BY <1>0, <1>a DEF Goto
  <2>. QED
    BY <1>a, <1>f, <2>1, Zenon DEF ChoiceInv, AgreedInv
<1>1. CASE InitDefault(e)
  <2>1. ASSUME NEW f \in Field PROVE own'[e][f] \in {Null, offer[e][f]}
    <3>1. \/ own' = [own EXCEPT ![e] = offer[e]]
          \/ \E g \in Field : own' = [own EXCEPT ![e] = [offer[e] EXCEPT ![g] = Null]]
      BY <1>1 DEF InitDefault
    <3>2. own'[e] = offer[e] \/ \E g \in Field : own'[e] = [offer[e] EXCEPT ![g] = Null]
      BY <1>0, <3>1
    <3>3. offer[e] \in Kexinit
      BY <1>0
    <3>. QED
      BY <3>2, <3>3 DEF Kexinit
  <2>2. ASSUME NEW d \in End, d # e PROVE own'[d] = own[d]
    BY <1>0, <1>1, <2>2 DEF InitDefault
  <2>3. OfferedInv'
    BY <1>1, <1>f, <2>1, <2>2, Zenon DEF ChoiceInv, OfferedInv, InitDefault
  <2>. QED
    BY <1>1, <1>d, <1>a, <2>3 DEF InitDefault, ChoiceInv
<1>2. CASE Encode(e)
  <2>1. \A f \in Field : Encoded(own[e])[f] \in {<<>>, offer[e][f]}
    BY DEF ChoiceInv, OfferedInv, Encoded
  <2>2. \A d \in End : wire'[Peer(d)] = wire[Peer(d)] \/ (d = e /\ wire'[Peer(d)] = {Encoded(own[e])})
    <3>1. \A d \in End : d # e => Peer(d) # Peer(e)
      BY PeerOfPeer
    <3>. QED
      BY <1>0, <1>2, <3>1, PeerOfPeer DEF Encode
  <2>3. OfferedInv'
    <3>1. \A d \in End : \A k \in wire'[Peer(d)], f \in Field : k[f] \in {<<>>, offer[d][f]}
      <4>. SUFFICES ASSUME NEW d \in End, NEW k \in wire'[Peer(d)], NEW f \in Field
                    PROVE  k[f] \in {<<>>, offer[d][f]}
        OBVIOUS
      <4>1. CASE wire'[Peer(d)] = wire[Peer(d)]
        BY <4>1, Zenon DEF ChoiceInv, OfferedInv
      <4>2. CASE d = e /\ wire'[Peer(d)] = {Encoded(own[e])}
        <5>1. k = Encoded(own[e])
          BY <4>2
        <5>. QED
          BY <2>1, <4>2, <5>1, Zenon
      <4>. QED
        BY <2>2, <4>1, <4>2
    <3>2. own' = own
      BY <1>2 DEF Encode
    <3>. QED
      BY <1>f, <3>1, <3>2, Zenon DEF ChoiceInv, OfferedInv
  <2>. QED
    BY <1>2, <1>d, <1>a, <2>3 DEF Encode, ChoiceInv
<1>3. CASE Decode(e)
  <2>. DEFINE k == CHOOSE k \in wire[e] : TRUE
  <2>1. k \in wire[e] /\ k \in Kexinit
    BY <1>0, <1>3 DEF Decode
  <2>2. /\ \/ peer' = [peer EXCEPT ![e] = k]
           \/ \E f \in Field : \E m \in Misread(k, f) : peer' = [peer EXCEPT ![e] = m]
        /\ \E l \in {"decoded", "failed"} : Goto(e, l)
        /\ wire' = [wire EXCEPT ![e] = {}] /\ own' = own /\ chosen' = chosen
    BY <1>3, Zenon DEF Decode
  <2>. HIDE DEF k
  <2>3. \A f \in Field : k[f] \in {<<>>, offer[Peer(e)][f]}
    BY <2>1, PeerOfPeer, Zenon DEF ChoiceInv, OfferedInv
  <2>4. Recognised(peer'[e], offer[Peer(e)])
    <3>1. CASE peer' = [peer EXCEPT ![e] = k]
      <4>1. peer'[e] = k
        BY <1>0, <3>1
      <4>. QED
        BY <2>3, <4>1, LanguagesLast, Zenon DEF Recognised
    <3>2. CASE \E f \in Field : \E m \in Misread(k, f) : peer' = [peer EXCEPT ![e] = m]
      <4>1. PICK f \in Field : \E m \in Misread(k, f) : peer' = [peer EXCEPT ![e] = m]
        BY <3>2
      <4>2. PICK m \in Misread(k, f) : peer' = [peer EXCEPT ![e] = m]
        BY <4>1
      <4>3. peer'[e] = m
        BY <1>0, <4>2
      <4>4. Recognised(m, offer[Peer(e)])
        BY <2>1, <2>3, MisreadRecognised
      <4>. QED
        BY <4>3, <4>4
    <3>. QED
      BY <2>2, <3>1, <3>2
  <2>5. \A d \in End : d # e => peer'[d] = peer[d] /\ pc'[d] = pc[d]
    BY <1>0, <2>2 DEF Goto
  <2>6. DecodedInv'
    BY <1>f, <2>4, <2>5, Zenon DEF ChoiceInv, DecodedInv
  <2>7. OfferedInv'
    <3>1. \A d \in End : wire'[d] \subseteq wire[d]
      BY <1>0, <2>2
    <3>2. \A d \in End : \A j \in wire'[Peer(d)], f \in Field : j[f] \in {<<>>, offer[d][f]}
      BY <3>1, PeerOfPeer, Zenon DEF ChoiceInv, OfferedInv
    <3>. QED
      BY <1>f, <2>2, <3>2, Zenon DEF ChoiceInv, OfferedInv
  <2>8. AgreedInv'
    BY <1>a, <2>2
  <2>. QED
    BY <2>6, <2>7, <2>8 DEF ChoiceInv
<1>4. CASE Negotiate(e)
  <2>1. /\ \/ Settle(e, Matches(e))
           \/ \E f \in Chosen : Settle(e, [Matches(e) EXCEPT ![f] = Null])
        /\ pc[e] = "decoded" /\ own' = own /\ wire' = wire /\ peer' = peer
    BY <1>4, Zenon DEF Negotiate, Matches
  <2>2. ASSUME NEW p \in [Chosen -> NameList], Settle(e, p)
        PROVE  \/ /\ \A f \in Chosen : p[f] # Null
                  /\ chosen' = [chosen EXCEPT ![e] = p] /\ Goto(e, "agreed")
               \/ /\ \E f \in Chosen : p[f] = Null
                  /\ chosen' = [chosen EXCEPT ![e] = Nothing] /\ Goto(e, "failed")
    BY <2>2, Zenon DEF Settle
  <2>3. Matches(e) \in [Chosen -> NameList]
    BY MatchesType
  <2>4. \/ /\ \A f \in Chosen : Matches(e)[f] # Null
           /\ chosen' = [chosen EXCEPT ![e] = Matches(e)] /\ Goto(e, "agreed")
        \/ chosen' = [chosen EXCEPT ![e] = Nothing] /\ Goto(e, "failed")
    <3>1. CASE Settle(e, Matches(e))
      BY <2>2, <2>3, <3>1
    <3>2. CASE \E f \in Chosen : Settle(e, [Matches(e) EXCEPT ![f] = Null])
      <4>1. PICK f \in Chosen : Settle(e, [Matches(e) EXCEPT ![f] = Null])
        BY <3>2
      <4>. DEFINE p == [Matches(e) EXCEPT ![f] = Null]
      <4>2. p \in [Chosen -> NameList] /\ p[f] = Null
        BY <2>3, NullIsNotEmpty
      <4>. HIDE DEF p
      <4>3. Settle(e, p)
        BY <4>1 DEF p
      <4>. QED
        BY <2>2, <4>2, <4>3
    <3>. QED
      BY <2>1, <3>1, <3>2
  <2>5. \A d \in End : d # e => chosen'[d] = chosen[d] /\ pc'[d] = pc[d]
    BY <1>0, <2>4 DEF Goto
  <2>6. pc'[e] = "agreed" =>
          chosen'[e] = Matches(e) /\ \A f \in Chosen : Matches(e)[f] # Null
    BY <1>0, <2>4 DEF Goto
  <2>7. ASSUME pc'[e] = "agreed", NEW f \in Chosen
        PROVE  chosen'[e][f] = Match(offer["client"][f], offer["server"][f]) /\ chosen'[e][f] # Null
    BY <2>1, <2>6, <2>7, MatchedOffers, Zenon DEF ChoiceInv
  <2>8. AgreedInv'
    BY <1>f, <2>5, <2>7, Zenon DEF ChoiceInv, AgreedInv
  <2>9. DecodedInv'
    BY <1>d, <2>1, <2>4
  <2>10. OfferedInv'
    BY <1>o, <2>1
  <2>. QED
    BY <2>8, <2>9, <2>10 DEF ChoiceInv
<1>5. CASE Abandon(e)
  BY <1>5, <1>d, <1>a, <1>o DEF Abandon, ChoiceInv
<1>. QED
  BY <1>1, <1>2, <1>3, <1>4, <1>5 DEF Step

LEMMA ChoiceInvariant == Spec => [](TypeOK /\ ChoiceInv)
<1>1. TypeOK /\ ChoiceInv /\ [Next]_vars => ChoiceInv'
  <2>1. ASSUME ChoiceInv, UNCHANGED vars PROVE ChoiceInv'
    BY <2>1 DEF vars, ChoiceInv, OfferedInv, DecodedInv, AgreedInv
  <2>. QED
    BY <2>1, ChoiceStep DEF Next, Ended
<1>. QED
  BY <1>1, TypeInit, TypeNext, ChoiceInit, PTL DEF Spec

\* Two ends that agree use the same algorithms, whichever allocations failed on
\* either side: no misread packet and no list that could not be copied makes them
\* differ.
THEOREM Same == Spec => []SameChoice
<1>1. TypeOK /\ ChoiceInv => SameChoice
  <2>. SUFFICES ASSUME TypeOK, ChoiceInv, pc["client"] = "agreed", pc["server"] = "agreed"
                PROVE  chosen["client"] = chosen["server"]
    BY DEF SameChoice
  <2>1. chosen["client"] \in [Chosen -> NameList] /\ chosen["server"] \in [Chosen -> NameList]
    BY TypeParts DEF Types, End
  <2>2. \A f \in Chosen : chosen["client"][f] = chosen["server"][f]
    BY Zenon DEF ChoiceInv, AgreedInv, End
  <2>. QED
    BY <2>1, <2>2
<1>. QED
  BY <1>1, ChoiceInvariant, PTL

\* What an end agrees to is the client's first name that the server offered too,
\* in what the two meant to offer, not only in what arrived.
THEOREM FirstOfBoth == Spec => []ChoiceIsClientsFirst
<1>1. TypeOK /\ ChoiceInv => ChoiceIsClientsFirst
  <2>. SUFFICES ASSUME TypeOK, ChoiceInv, NEW e \in End, pc[e] = "agreed", NEW f \in Chosen
                PROVE  \E i \in DOMAIN offer["client"][f] :
                         /\ chosen[e][f] = <<offer["client"][f][i]>> /\ offer["client"][f][i] # ""
                         /\ \E j \in DOMAIN offer["server"][f] :
                              offer["server"][f][j] = offer["client"][f][i]
                         /\ \A k \in 1 .. i - 1 : offer["client"][f][k] # "" =>
                              \A j \in DOMAIN offer["server"][f] :
                                offer["server"][f][j] # offer["client"][f][k]
    BY Zenon DEF ChoiceIsClientsFirst
  <2>1. offer["client"][f] \in NameList /\ offer["server"][f] \in NameList
    BY TypeParts, OfferType, LanguagesLast DEF Types, Kexinit, End
  <2>2. /\ chosen[e][f] = Match(offer["client"][f], offer["server"][f])
        /\ Match(offer["client"][f], offer["server"][f]) # Null
    BY Zenon DEF ChoiceInv, AgreedInv
  <2>. DEFINE c == offer["client"][f]
              s == offer["server"][f]
  <2>. HIDE DEF c, s
  <2>3. c \in NameList /\ s \in NameList /\ Match(c, s) # Null
    BY <2>1, <2>2, Zenon DEF c, s
  <2>4. \E i \in DOMAIN c :
          /\ Match(c, s) = <<c[i]>> /\ c[i] # "" /\ c[i] \in STRING
          /\ \E j \in DOMAIN s : s[j] = c[i]
          /\ \A k \in 1 .. i - 1 : c[k] # "" => \A j \in DOMAIN s : s[j] # c[k]
    BY <2>3, MatchFirst
  <2>5. chosen[e][f] = Match(c, s)
    BY <2>2 DEF c, s
  <2>6. \E i \in DOMAIN c :
          /\ chosen[e][f] = <<c[i]>> /\ c[i] # ""
          /\ \E j \in DOMAIN s : s[j] = c[i]
          /\ \A k \in 1 .. i - 1 : c[k] # "" => \A j \in DOMAIN s : s[j] # c[k]
    BY <2>4, <2>5, Zenon
  <2>. QED
    BY <2>6 DEF c, s
<1>. QED
  BY <1>1, ChoiceInvariant, PTL
=============================================================================
