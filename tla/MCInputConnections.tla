------------------------- MODULE MCInputConnections -------------------------
(* Two ports, on the first of which the DirectInput pad may stand in, or the
   second alone; one or two guest threads. *)
EXTENDS InputConnections

CONSTANTS p0, p1, main, pads

MCPorts == {p0, p1}
MCOnePort == {p1}
MCOneGuest == {main}
MCTwoGuests == {main, pads}
=============================================================================
