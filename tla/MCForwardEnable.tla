-------------------------- MODULE MCForwardEnable --------------------------
(* Two signed requests, one of which pays a keeper share, and a vault of   *)
(* one token.                                                              *)
EXTENDS ForwardEnable

CONSTANTS c1, c2, p1, p2, tA

MCAsked == [c \in {c1, c2} |-> IF c = c1 THEN p1 ELSE p2]
MCHeld == <<tA>>
=============================================================================
