---------------------------- MODULE MCPowerLimit ----------------------------
(***************************************************************************)
(* A controller of the whole fleet (unit 1) next to one of the first       *)
(* inverter (unit 2).                                                      *)
(***************************************************************************)
EXTENDS PowerLimit

CONSTANTS c1, c2, i1, i2

MCSpeaks == (c1 :> {1}) @@ (c2 :> {2})
MCMaxWrites == (c1 :> 1) @@ (c2 :> 2)
MCFleets == {<<i1, i2>>}
\* 15 W at 10 % would be below the floor.
MCPerPanelW == (i1 :> 150) @@ (i2 :> 600)

Regs(ena, pct, rvrt, conn) == [ena |-> ena, pct |-> pct, rvrt |-> rvrt, conn |-> conn]

\* A leased cap, an unleased cap with an on/off field, full power.
MCRequests == {Regs(1, 1000, 120, NotWritten), Regs(1, 10000, 0, 0), Regs(0, NotWritten, NotWritten, NotWritten)}
=============================================================================
