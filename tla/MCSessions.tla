----------------------------- MODULE MCSessions -----------------------------
(* Instances of Sessions for TLC. *)
EXTENDS Sessions, TLC

CONSTANTS ann, c1, c2

MCOwnerOf == (c1 :> ann) @@ (c2 :> ann)
==============================================================================
