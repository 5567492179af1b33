---------------------------- MODULE MCConnection ----------------------------
(* A small instance of Connection: the delimiters of HTTP's lines and of    *)
(* its header section, so that one is part of the other.                    *)
EXTENDS Connection

MCDelims == {<<"cr", "lf">>, <<"cr", "lf", "cr", "lf">>}
=============================================================================
