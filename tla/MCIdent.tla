------------------------------- MODULE MCIdent -------------------------------
(* Values for TLC.  SSH_IDENT_MAX is 6 with "SSH-2.0-" counted as one byte:  *)
(* an identification string has room for three bytes after it, or two and    *)
(* CR LF.                                                                    *)
EXTENDS Ident

CrLf == <<"\r", "\n">>
Good == <<"S2", "x">> \o CrLf

Half(p, s) == [prefix |-> p, ident |-> s]
Usual == Half(<<>>, Good)

\* Every kind of string session_ident_check tells apart
MCStrings ==
  {<<"S2">> \o s \o CrLf : s \in UNION {[1 .. n -> {"x", "-", " ", "ctl"}] : n \in 0 .. 3}}
    \cup {<<"S1", "x">> \o CrLf, <<"S2", "x", "\r", "x", "\n">>}

\* No line, short ones, the most there may be and one more, a long one, one
\* too long, and a line of another protocol version.
MCPrefixes ==
  {<<>>, <<"x", "\n">>, <<"\n", "x", "\n">>, <<"x", "\n", "\n", "\n">>,
   <<"x", "x", "x", "x", "x", "\n">>, <<"x", "x", "x", "x", "x", "x", "\n">>,
   <<"x", "x", "x", "x", "x", "x", "x", "\n">>, <<"S1", "\n">>}

\* The strings one at a time, the lines before a string at both ends
MCOpenings ==
  {[client |-> Half(<<>>, s), server |-> Usual] : s \in MCStrings}
    \cup [End -> {Half(p, Good) : p \in MCPrefixes} \cup {Half(<<>>, <<"S2", "x", "x">> \o CrLf)}]

\* A string without a software version in a line one byte too long
MCInvalid ==
  {[client |-> Usual, server |-> Half(<<>>, <<"S2", " ", "x", "x", "\r", "\r", "\n">>)]}
=============================================================================
