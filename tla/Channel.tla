-------------------------------- MODULE Channel -------------------------------
(***************************************************************************)
(* What a protocol may rely on when it sends to its connection: messages   *)
(* reach the peer once each and in the order in which they were accepted,  *)
(* none is accepted after the channel is closed, and those accepted before *)
(* may still be delivered.                                                 *)
(*                                                                         *)
(* Connection.tla implements this specification with a message queue and   *)
(* asynchronous writes.                                                    *)
(***************************************************************************)
EXTENDS Naturals, Sequences

CONSTANT Msgs

VARIABLES open, accepted, delivered

vars == <<open, accepted, delivered>>

Init ==
  /\ open = TRUE
  /\ accepted = <<>>
  /\ delivered = <<>>

Accept(m) ==
  /\ open = TRUE
  /\ accepted' = Append(accepted, m)
  /\ UNCHANGED <<open, delivered>>

Deliver ==
  /\ Len(delivered) < Len(accepted)
  /\ delivered' = Append(delivered, accepted[Len(delivered) + 1])
  /\ UNCHANGED <<open, accepted>>

Close ==
  /\ open' = FALSE
  /\ UNCHANGED <<accepted, delivered>>

Next == (\E m \in Msgs : Accept(m)) \/ Deliver \/ Close

Spec == Init /\ [][Next]_vars
===============================================================================
