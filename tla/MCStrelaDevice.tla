---------------------------- MODULE MCStrelaDevice ----------------------------
(* Two allocators and two providers, and the ones the device makes itself. *)
EXTENDS StrelaDevice

CONSTANTS a0, a1, a2, p1, p2, pool0, tracker0, strela, local

MCAllocators == {a1, a2}
MCProviders == {p1, p2}
MCNames == {strela, local}

=============================================================================
