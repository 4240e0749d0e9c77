---------------------------- MODULE MCCompacting ----------------------------
(***************************************************************************)
(* Kinds for module Compacting: layout strings by their names, raw         *)
(* requests by their numbers of bytes.                                     *)
(***************************************************************************)
EXTENDS CollectorInvariant

CONSTANTS star, starStar, starStarInt, raw8, raw48

\* object_size of "*", "**" and "**i"; the byte counts of two raw requests
MCObjectSize ==
  [k \in Kinds |-> CASE k = star -> 8
                     [] k = starStar -> 16
                     [] k = starStarInt -> 20
                     [] k = raw8 -> 8
                     [] k = raw48 -> 48]

MCPointerOffsets ==
  [k \in Kinds |-> CASE k = star -> <<0>>
                     [] k \in {starStar, starStarInt} -> <<0, 1>>
                     [] OTHER -> <<>>]
=============================================================================
