-------------------------------- MODULE MCDemo --------------------------------
(* Values for TLC.  user[] and host[] have two places and the NUL; the ports *)
(* are the code's own.  An int has 20 bits and a long 24, so that there are  *)
(* numbers beyond both that TLC can count to.                                *)
EXTENDS Demo, MCIdent

MCBody == <<"x", "\n">>

Plain == <<"a", "@", "b">>

InDigits[n \in Nat] ==
  IF n < 10 THEN <<Digits[n + 1]>> ELSE InDigits[n \div 10] \o <<Digits[(n % 10) + 1]>>

\* The places of '@' and ':', names that are empty, fit and do not, and ports
\* around 1 and 65535
MCTargets ==
  {Plain, <<"a", "b", "@", "a", "b">>, <<"a", "b", "a", "@", "b">>,
   <<"a", "@", "b", "a", "b">>, <<"a", "@">>, <<"@", "b">>, <<"a", "b">>, <<":", "@", "b">>,
   <<"a", "@", "b", "@">>, <<"a", "@", ":", "2">>}
    \cup {Plain \o <<":">> \o p : p \in
      {<<>>, <<"0">>, <<"1">>, <<"0", "2", "2">>, <<"6", "5", "5", "3", "5">>,
       <<"6", "5", "5", "3", "6">>, <<"-", "1">>, <<"+", "7">>, <<"7", "x">>, <<"x">>,
       <<"ws", "ws", "7">>, <<"ws">>, <<"-", "ws", "7">>}
      \* the last int, and behind it; 22 again, from above and from below; the last
      \* long, and behind it
      \cup {InDigits[n] : n \in {524287, 524288, 1048598, 8388607, 8388608, 16777238}}
      \cup {<<"-">> \o InDigits[n] : n \in {1048554, 8388608, 8388609}}}
=============================================================================
