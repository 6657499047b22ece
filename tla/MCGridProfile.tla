--------------------------- MODULE MCGridProfile ---------------------------
(***************************************************************************)
(* A small instance of GridProfile: over-frequency curtailment start (CA)  *)
(* must stay below the over-frequency trip (AF).                           *)
(***************************************************************************)
EXTENDS GridProfile, TLC

Symmetry == Permutations(Uids) \cup Permutations(Handlers)

MCCodes == {"CA", "AF"}
MCRules == {<<"CA", "AF">>}
MCDefaultRange == [c \in MCCodes |-> [min |-> 1, max |-> 8]]

Pt(v, lo, hi) == [val |-> v, range |-> [min |-> lo, max |-> hi]]

MCBases == [b1 |-> [CA |-> Pt(2, 1, 4), AF |-> Pt(5, 4, 6)]]

\* o1 moves CA inside its range.  o2 keeps CA below AF as written, but both
\* are clamped to 4, the value where the two base ranges meet.
MCOverlays == [o1 |-> [CA |-> [val |-> 3, range |-> NoRange]],
               o2 |-> [CA |-> [val |-> 5, range |-> NoRange], AF |-> Pt(6, 1, 4)]]

\* o3 carries a range of its own that lies above the base's range for CA, and
\* moves AF up to keep the order.
MCOverlaysApart == [o3 |-> [CA |-> Pt(6, 5, 6), AF |-> Pt(7, 7, 8)]]
=============================================================================
