-------------------------------- MODULE Palette --------------------------------
(***************************************************************************)
(* What constraint.c promises: "painting subnets with different colors ... *)
(* only the top color shows".  Every address has a color, and painting a   *)
(* set of addresses replaces the color of each of them.                    *)
(***************************************************************************)
CONSTANTS Addresses, Colors, Subnets
VARIABLES
  color,   \* the color each address shows
  top      \* what was painted last: <<addresses, color>>

Init == \E c \in Colors : /\ top = <<Addresses, c>>
                          /\ color = [a \in Addresses |-> c]

PaintOver(s, c) ==
  /\ top' = <<s, c>>
  /\ color' = [a \in Addresses |-> IF a \in s THEN c ELSE color[a]]

Next == \E s \in Subnets, c \in Colors : PaintOver(s, c)

Spec == Init /\ [][Next]_<<color, top>>
===============================================================================
