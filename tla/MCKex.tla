-------------------------------- MODULE MCKex --------------------------------
(* Values for TLC: the ciphers from client to server vary, the other way they *)
(* are offered in one order.  The ends have two ciphers in common, preferred  *)
(* in different orders, or only the empty name; one has languages after the   *)
(* lists that count.                                                          *)
EXTENDS Kex

MCLists(c, l) ==
  [f \in Field |-> CASE f = "cipher_c2s" -> c
                     [] f = "cipher_s2c" -> <<"b", "a">>
                     [] f \in Chosen -> <<"n">> [] OTHER -> l]
MCOffers ==
  LET ba == MCLists(<<"b", "a">>, <<"en">>)
      ab == MCLists(<<"", "a", "b">>, <<>>)
      c == MCLists(<<"", "c">>, <<>>)
  IN {[client |-> ba, server |-> ab], [client |-> ab, server |-> ba],
      [client |-> ab, server |-> c]}
=============================================================================
