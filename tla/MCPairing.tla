----------------------------- MODULE MCPairing -----------------------------
(***************************************************************************)
(* Small instances of Pairing: one or two inverters, two PANs and two      *)
(* channels.                                                               *)
(***************************************************************************)
EXTENDS Pairing

CONSTANTS s1, s2

OneSerial == <<s1>>
TwoSerials == <<s1, s2>>
\* A unit of another installation, and one that was evicted.
MCForeignNets == {[pan |-> "B", ch |-> 11], [pan |-> "FFFF", ch |-> 12]}
MCScanChannels == <<11, 12>>
=============================================================================
