------------------------------- MODULE MCCore -------------------------------
(***************************************************************************)
(* The values of the constants of Core that TLC checks.                    *)
(***************************************************************************)
EXTENDS Core, TLC

CONSTANTS a, b, c, r1, r2, r3, r4, r5, r6

(* Three requests with one key, one with another and one with a third, and
   one without a key.                                                      *)
MCKeyOf == [r \in Request |->
    CASE r \in {r1, r2, r3} -> a [] r = r4 -> b [] r = r5 -> c [] OTHER -> NoKey]

(* Each task writes a channel of its own and reports an interrupt twice; the
   calls of a suspending store overlap, so fewer checkpoints do.           *)
MCWrites == (a :> <<"x", "y">>) @@ (b :> <<"y", "interrupt", "interrupt">>)
MCSuspending == BOOLEAN
MCMaxPuts == (TRUE :> 2) @@ (FALSE :> 3)

MCSkillTools == ("s1" :> {"write"}) @@ ("s2" :> {"look"})
MCWords == ("a" :> {1}) @@ ("ab" :> {1, 2}) @@ ("b" :> {2})
=============================================================================
