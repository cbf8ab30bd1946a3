--------------------------------- MODULE Kex ---------------------------------
(***************************************************************************)
(* Algorithm negotiation: both ends fill an ssh_kex_init_t with their      *)
(* name-lists, send it as SSH_MSG_KEXINIT, decode the peer's and choose.   *)
(* Each computes the choice on its own, so that they must come to the same *)
(* one.  Every string is allocated, and any allocation may fail: a list    *)
(* that could not be copied is NULL, and a string that could not be read   *)
(* is NULL too, its contents left in front of the next reader.             *)
(*                                                                         *)
(* A name-list is a sequence of names, "" for nothing between two commas.  *)
(***************************************************************************)
EXTENDS Integers, Sequences, FiniteSetsExt

CONSTANTS
  Offers,       \* the name-lists the two ends offer, by end and field
  MaxFaults     \* bound: failed allocations

End == {"client", "server"}
Peer(e) == IF e = "client" THEN "server" ELSE "client"

\* The fields of ssh_kex_init_t in wire order; the languages are not negotiated.
Fields == <<"kex", "host_key", "cipher_c2s", "cipher_s2c", "mac_c2s", "mac_s2c",
            "comp_c2s", "comp_s2c", "lang_c2s", "lang_s2c">>
Field == {Fields[i] : i \in DOMAIN Fields}
Chosen == Field \ {"lang_c2s", "lang_s2c"}
At(f) == CHOOSE i \in DOMAIN Fields : Fields[i] = f

ASSUME KexAssumption ==
  /\ Offers \subseteq [End -> [Field -> Seq(STRING)]]
  /\ MaxFaults \in Nat

Null == <<"NULL">>
NameList == Seq(STRING) \cup {Null}
Nothing == [f \in Chosen |-> Null]

VARIABLES
  offer,     \* what each end means to offer
  own,       \* its ssh_kex_init_t
  peer,      \* the one it decoded
  wire,      \* KEXINIT on its way to an end, a set of at most one
  chosen,    \* its ssh_kex_proposal_t, by field: a name in a sequence, or Null
  pc,
  faults

vars == <<offer, own, peer, wire, chosen, pc, faults>>

-----------------------------------------------------------------------------
(* match_list and list_contains.                                            *)

Contains(list, name) == \E i \in DOMAIN list : list[i] = name

\* Mutant: the last name that both have.
MatchLast(c, s) ==
  LET common == {i \in DOMAIN c : c[i] # "" /\ Contains(s, c[i])}
  IN IF c = Null \/ s = Null \/ common = {} THEN Null ELSE <<c[Max(common)]>>

\* The client's first name that the server has too, Null if there is none
Match(c, s) ==
  LET common == {i \in DOMAIN c : c[i] # "" /\ Contains(s, c[i])}
  IN IF c = Null \/ s = Null \/ common = {} THEN Null ELSE <<c[Min(common)]>>

-----------------------------------------------------------------------------
Init ==
  /\ offer \in Offers
  /\ own = [e \in End |-> [f \in Field |-> Null]]
  /\ peer = own
  /\ wire = [e \in End |-> {}]
  /\ chosen = [e \in End |-> Nothing]
  /\ pc = [e \in End |-> "start"]
  /\ faults = 0

Goto(e, l) == pc' = [pc EXCEPT ![e] = l]
NoFault == UNCHANGED faults
Fault == faults < MaxFaults /\ faults' = faults + 1

\* kex_init_default: a strdup that fails leaves NULL and is not reported.
InitDefault(e) ==
  /\ pc[e] = "start"
  /\ \/ own' = [own EXCEPT ![e] = offer[e]] /\ NoFault
     \/ /\ \E f \in Field : own' = [own EXCEPT ![e] = [offer[e] EXCEPT ![f] = Null]]
        /\ Fault
  /\ Goto(e, "init")
  /\ UNCHANGED <<offer, peer, wire, chosen>>

\* kex_init_encode and the packet's way to the peer.  NULL is written as an
\* empty string; without memory nothing is sent and the end gives up.
Encoded(k) == [f \in Field |-> IF k[f] = Null THEN <<>> ELSE k[f]]

Encode(e) ==
  /\ pc[e] = "init"
  /\ \/ /\ wire' = [wire EXCEPT ![Peer(e)] = {Encoded(own[e])}]
        /\ Goto(e, "sent") /\ NoFault
     \/ Goto(e, "failed") /\ Fault /\ UNCHANGED wire
  /\ UNCHANGED <<offer, own, peer, chosen>>

\* What kex_init_decode makes of packet k when it cannot allocate field f: NULL
\* there; then, unless the string was empty, its characters are read as the
\* next lengths.  Those are too long and give NULL, until perhaps the cursor is
\* at a length again and the fields are read one place late.
Misread(k, f) ==
  LET Later(g) == At(g) > At(f) IN
  IF k[f] = <<>> THEN {[k EXCEPT ![f] = Null]}
  ELSE {[g \in Field |-> IF g = f \/ Later(g) THEN Null ELSE k[g]]}
       \cup {[g \in Field |-> IF g = f \/ (Later(g) /\ At(g) < i) THEN Null
                              ELSE IF Later(g) THEN k[Fields[At(g) - 1]] ELSE k[g]]
             : i \in At(f) + 2 .. Len(Fields)}

Decode(e) ==
  /\ pc[e] = "sent" /\ wire[e] # {}
  /\ LET k == CHOOSE k \in wire[e] : TRUE IN
     \/ /\ peer' = [peer EXCEPT ![e] = k] /\ Goto(e, "decoded") /\ NoFault
     \/ /\ \E f \in Field : \E m \in Misread(k, f) : peer' = [peer EXCEPT ![e] = m]
        /\ \E l \in {"decoded", "failed"} : Goto(e, l)   \* the last two fields may be short
        /\ Fault
  /\ wire' = [wire EXCEPT ![e] = {}]
  /\ UNCHANGED <<offer, own, chosen>>

\* Mutant: each end takes its own lists for the client's.
ClientListsOwn(e) == own[e]

ClientLists(e) == IF e = "client" THEN own[e] ELSE peer[e]
ServerLists(e) == IF e = "server" THEN own[e] ELSE peer[e]

\* Mutants: a failed negotiation keeps what it has; only the kex algorithm must
\* be found.
SettlePartial(e, p) ==
  /\ chosen' = [chosen EXCEPT ![e] = p]
  /\ Goto(e, IF \E f \in Chosen : p[f] = Null THEN "failed" ELSE "agreed")
SettleAnyway(e, p) ==
  /\ chosen' = [chosen EXCEPT ![e] = p]
  /\ Goto(e, IF p["kex"] = Null THEN "failed" ELSE "agreed")

\* A field for which nothing was found fails the whole negotiation and frees
\* the proposal.
Settle(e, p) ==
  IF \E f \in Chosen : p[f] = Null
  THEN chosen' = [chosen EXCEPT ![e] = Nothing] /\ Goto(e, "failed")
  ELSE chosen' = [chosen EXCEPT ![e] = p] /\ Goto(e, "agreed")

\* kex_negotiate; a match that cannot be copied is NULL.
Negotiate(e) ==
  /\ pc[e] = "decoded"
  /\ LET p == [f \in Chosen |-> Match(ClientLists(e)[f], ServerLists(e)[f])] IN
     \/ Settle(e, p) /\ NoFault
     \/ (\E f \in Chosen : Settle(e, [p EXCEPT ![f] = Null])) /\ Fault
  /\ UNCHANGED <<offer, own, peer, wire>>

\* The peer has failed before it sent its KEXINIT, and has closed.
Abandon(e) ==
  /\ pc[e] = "sent" /\ wire[e] = {} /\ pc[Peer(e)] = "failed"
  /\ Goto(e, "failed")
  /\ UNCHANGED <<offer, own, peer, wire, chosen, faults>>

Ended == (\A e \in End : pc[e] \in {"agreed", "failed"}) /\ UNCHANGED vars

Step(e) == InitDefault(e) \/ Encode(e) \/ Decode(e) \/ Negotiate(e) \/ Abandon(e)

Next == (\E e \in End : Step(e)) \/ Ended

Spec == Init /\ [][Next]_vars

\* Each end's calls follow one another.
FairSpec == Spec /\ \A e \in End : WF_vars(Step(e))

-----------------------------------------------------------------------------
(* Properties.                                                              *)

\* Every variable holds a value of its type; a chosen name is not empty, and
\* nothing is left of a proposal that failed: no caller finds a cipher in it
\* without a MAC.
TypeOK ==
  LET Kexinit == [Field -> NameList] IN
  /\ offer \in Offers /\ own \in [End -> Kexinit]
  /\ peer \in [End -> Kexinit]
  /\ wire \in [End -> SUBSET Kexinit] /\ \A e \in End : Cardinality(wire[e]) <= 1
  /\ chosen \in [End -> [Chosen -> NameList]]
  /\ \A e \in End, f \in Chosen :
       /\ chosen[e][f] # <<"">>
       /\ chosen[e][f] = Null => chosen[e] = Nothing
  /\ pc \in [End -> {"start", "init", "sent", "decoded", "agreed", "failed"}]
  /\ faults \in 0 .. MaxFaults

\* Two ends that both agree have chosen the same algorithm in every field,
\* whatever allocations failed on the way: each would otherwise install keys
\* for a cipher or a MAC that the other does not use.
SameChoice ==
  pc["client"] = "agreed" /\ pc["server"] = "agreed"
    => chosen["client"] = chosen["server"]

\* What an end agrees to is, in every field, a name that both ends offered and
\* that no name the client prefers could have replaced (RFC 4253, 7.1).  It
\* holds of what was offered, not only of what was decoded.
ChoiceIsClientsFirst ==
  \A e \in End : pc[e] = "agreed" =>
    \A f \in Chosen :
      LET c == offer["client"][f]
          s == offer["server"][f]
      IN \E i \in DOMAIN c :
           /\ chosen[e][f] = <<c[i]>> /\ c[i] # ""
           /\ \E j \in DOMAIN s : s[j] = c[i]
           /\ \A k \in 1 .. i - 1 : c[k] # "" => \A j \in DOMAIN s : s[j] # c[k]

\* Every negotiated field has a common name.
Common ==
  \A f \in Chosen : \E i \in DOMAIN offer["client"][f] :
    /\ offer["client"][f][i] # ""
    /\ \E j \in DOMAIN offer["server"][f] :
         offer["client"][f][i] = offer["server"][f][j]

\* Both ends finish, and if no allocation fails they agree exactly when every
\* negotiated field has a common name.
Finishes ==
  <>(\A e \in End :
       \/ pc[e] = "failed" /\ (faults = 0 => ~Common)
       \/ pc[e] = "agreed" /\ Common)
=============================================================================
