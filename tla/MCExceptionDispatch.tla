------------------------- MODULE MCExceptionDispatch -------------------------
(* A small instance of ExceptionDispatch: a function with an exception      *)
(* handler, one with a termination handler, and a leaf.                     *)
EXTENDS ExceptionDispatch

MCGuestKinds == {[kind |-> "function", eh |-> TRUE, uh |-> FALSE],
                 [kind |-> "function", eh |-> FALSE, uh |-> TRUE],
                 [kind |-> "leaf", eh |-> FALSE, uh |-> FALSE]}
=============================================================================
