---------------------------- MODULE MCCommandReader ----------------------------
(***************************************************************************)
(* CommandReader for TLC: all arguments of at most two characters, and up  *)
(* to three arguments, one more than MAX_ARGS is here.                     *)
(***************************************************************************)
EXTENDS CommandReader

Texts(n) == SeqOf({"a", " ", Quote, Escape}, n)

MCCommands ==
    [command : {<<"a">>}, args : {<<>>} \cup {<<x>> : x \in Texts(2)}
                                  \cup {<< x, <<"a">> >> : x \in Texts(1)}
                                  \cup {<< <<"a">>, x, <<"a">> >> : x \in Texts(1)}]

=============================================================================
