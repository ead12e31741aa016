-------------------------------- MODULE MCFiles --------------------------------
(***************************************************************************)
(* Files for TLC: two users.  In the home of ua a directory d with an      *)
(* empty directory d and a link l to the directory e, and that directory   *)
(* with a file; in the home of ub a directory that is read-only; and a     *)
(* directory d outside of the homes.                                       *)
(***************************************************************************)
EXTENDS Files, TLC

CONSTANTS ua, ub, d, e, f, l

MCHome == (ua :> <<ua>>) @@ (ub :> <<ub>>)

MCTree ==
    (<<ua>> :> "dir") @@ (<<ua, d>> :> "dir") @@ (<<ua, d, d>> :> "dir")
    @@ (<<ua, d, l>> :> "link") @@ (<<ua, e>> :> "dir") @@ (<<ua, e, f>> :> "file")
    @@ (<<ub>> :> "dir") @@ (<<ub, d>> :> "dir") @@ (<<ub, d, e>> :> "file")
    @@ (<<d>> :> "dir") @@ (<<d, e>> :> "file")

MCPaths == DOMAIN MCTree

MCReadOnly == {<<ub, d>>}

MCArgs == {<<d>>, <<d, l>>, <<Dots>>}

MCLinkTo == <<ua, d, l>> :> <<e>>

=============================================================================
