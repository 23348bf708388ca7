------------------------------ MODULE MessagesMC -------------------------------
(* The instance of Messages, and of the algorithms on their bytes, that TLC
   checks; its constants are in MessagesMC.cfg.  A behaviour follows a buffer or
   has one input for the algorithms. *)
EXTENDS Messages, Bytes, TLC

Key(a, b, c, d) == [i \in 0..3 |-> CASE i = 0 -> a [] i = 1 -> b [] i = 2 -> c [] OTHER -> d]
SomeKeys == {Key(0, 0, 0, 0), Key(1, 35, 69, 103), Key(255, 128, 7, 90)}
SomeWords == {0, 1, 16, 31, 32, 127, 128, 129, 185, 200, 254, 255}

PartInit ==
  /\ Init
  /\ \/ input = NoInput
     \/ role = "direct" /\ input \in Inputs

PartNext ==
  /\ input = NoInput
  /\ UNCHANGED input
  /\ Next

PartSpec == PartInit /\ [][PartNext]_<<vars, input>>
===============================================================================
