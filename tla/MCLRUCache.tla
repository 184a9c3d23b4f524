----------------------------- MODULE MCLRUCache -----------------------------
(* LRUCache on a small instance: two keys that live long, one that expires *)
(* soon, one whose resolution has no TTL.                                  *)
EXTENDS LRUCache, TLC

CONSTANTS day, hour, minute, odd, d1, d2

MCKeys == {day, hour, minute, odd}
MCData == {d1, d2}
MCTTL == (day :> 2) @@ (hour :> 2) @@ (minute :> 1) @@ (odd :> 0)
MCSymmetry == Permutations({day, hour}) \cup Permutations(MCData)
=============================================================================
