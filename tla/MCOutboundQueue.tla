--------------------------- MODULE MCOutboundQueue ---------------------------
(* The instance of OutboundQueue that TLC checks. *)
EXTENDS OutboundQueue

(* Every message is sent from the same node. *)
MCOrigin == [m \in Messages |-> CHOOSE n \in Nodes : TRUE]

MCTickSteps == {10}
=============================================================================
