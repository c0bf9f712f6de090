------------------------------ MODULE RateLimit ------------------------------
(***************************************************************************)
(* What a token bucket promises, whatever it stores: a level that time     *)
(* raises by Rate up to Capacity, and grants that only ever lower it.      *)
(*                                                                         *)
(* TokenBucket implements this specification as long as no goroutine takes *)
(* tokens for a reservation, RedisTokenBucket with a larger burst, and     *)
(* Balancer uses its actions as the limiter of the worker.                 *)
(***************************************************************************)
EXTENDS Naturals

CONSTANTS
    Capacity,   \* the most that can be stored, and the largest burst
    Rate        \* what one unit of time adds

VARIABLE level

\* The smaller of two numbers (math.Min).
Lesser(a, b) == IF a <= b THEN a ELSE b

Init == level = Capacity

\* One unit of time passes.
Refill == level' = Lesser(Capacity, level + Rate)

\* A request of n is granted.
Spend(n) ==
    /\ n <= level
    /\ level' = level - n

Next == Refill \/ \E n \in 1 .. Capacity : Spend(n)

Spec == Init /\ [][Next]_level
=============================================================================
