----------------------------- MODULE MCPKBattle -----------------------------
(* Instances of PKBattle: two rooms, of which r1 always challenges. *)
EXTENDS PKBattle

CONSTANTS r1, r2
OnePair == {<<r1, r2>>}
Reopens == [r \in {r1, r2} |-> IF r = r1 THEN 2 ELSE 1]
=============================================================================
