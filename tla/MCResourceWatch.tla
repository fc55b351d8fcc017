--------------------------- MODULE MCResourceWatch ---------------------------
(***************************************************************************)
(* An instance of ResourceWatch: objects 1 and 2 have the same name, one   *)
(* after the other, and 3 is in a namespace that is not watched.           *)
(***************************************************************************)
EXTENDS ResourceWatch

MCObjects == 1..3
MCNameOf == [o \in MCObjects |-> IF o = 3 THEN "b" ELSE "a"]
MCElsewhere == {3}
=============================================================================
