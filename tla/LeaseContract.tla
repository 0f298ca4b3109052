--------------------------- MODULE LeaseContract ---------------------------
(***************************************************************************)
(* What the holder of a DHCP lease promises, whatever protocol states it   *)
(* goes through: no time passes for a holder whose term is used up, the    *)
(* term of a lease changes only together with a fresh start of its clock,  *)
(* and nothing but a grant turns that clock back.                          *)
(***************************************************************************)
EXTENDS Integers

CONSTANT Terms          \* the times a server may grant

VARIABLES
    held,               \* the holder uses the address
    term,               \* seconds the lease in force grants, 0 without one
    used                \* seconds of the term that have passed, 0 without one

vars == <<held, term, used>>

Init == held = FALSE /\ term = 0 /\ used = 0

(* The holder takes up a lease; some of its term may have passed already. *)
Acquire == ~held /\ held' = TRUE /\ term' \in Terms /\ used' \in Nat

(* A server grants the held lease again. *)
Renew == held /\ term' \in Terms /\ used' = 0 /\ UNCHANGED held

(* A second passes for a holder: never one the term does not cover. *)
Elapse == held /\ used < term /\ used' = used + 1 /\ UNCHANGED <<held, term>>

(* The holder gives the address up. *)
Drop == held /\ held' = FALSE /\ term' = 0 /\ used' = 0

Next == Acquire \/ Renew \/ Elapse \/ Drop

Spec == Init /\ [][Next]_vars
============================================================================
