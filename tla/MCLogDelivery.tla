--------------------------- MODULE MCLogDelivery ----------------------------
(***************************************************************************)
(* Record sizes for model checking.                                        *)
(***************************************************************************)
EXTENDS LogDelivery

AllAlike == [r \in Records |-> 1]
SmallAndLarge == [r \in Records |-> IF r % 3 = 2 THEN 2 ELSE 1]
=============================================================================
