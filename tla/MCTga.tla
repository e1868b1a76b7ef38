--------------------------------- MODULE MCTga ---------------------------------
(* Instances of Tga for TLC: addresses of four binary digits, five lines.   *)
EXTENDS Tga
===============================================================================
