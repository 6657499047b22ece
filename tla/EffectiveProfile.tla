-------------------------- MODULE EffectiveProfile --------------------------
(***************************************************************************)
(* The pure part of internal/gridprofile: how the desired protection       *)
(* values of one inverter are computed from the active base profile and    *)
(* the inverter's overlay (base (+) overlay).                              *)
(*                                                                         *)
(* A profile or an overlay is a function from the APS codes it defines to  *)
(* points [val, range]; a range is [min, max] or NoRange (a nil *Range).   *)
(* Native values are integers: only their order matters here.              *)
(***************************************************************************)
EXTENDS Integers

CONSTANTS
    Codes,         \* APS codes of the forward map
    Rules,         \* conflictRules: pairs <<left, right>>, left < right
    DefaultRange,  \* defaultRange: the physical envelope of each code
    Writeable,     \* codes the inverter model can be written (capability filter)
    NoRange        \* nil

Ranges == [min : Int, max : Int]
Points == [val : Int, range : Ranges \cup {NoRange}]

ASSUME ProfileAssumption ==
    /\ Rules \subseteq Codes \X Codes
    /\ DefaultRange \in [Codes -> Ranges \cup {NoRange}]
    /\ Writeable \subseteq Codes
    /\ NoRange \notin Ranges

\* What validateRanges accepts.
ValidRange(r) == r = NoRange \/ r.min <= r.max

\* Is v inside r?
Within(v, r) == r = NoRange \/ (r.min <= v /\ v <= r.max)

\* The intersection the doc comment describes, as a set of values.
Overlap(a, b) == a = NoRange \/ b = NoRange \/ (a.min <= b.max /\ b.min <= a.max)

\* Faulty variant: the looser bound is kept.
IntersectRangesWidening(a, b) ==
    IF a = NoRange THEN b
    ELSE IF b = NoRange THEN a
    ELSE [min |-> IF b.min < a.min THEN b.min ELSE a.min,
          max |-> IF b.max > a.max THEN b.max ELSE a.max]

\* The tightest range inside both.  An empty intersection collapses to the
\* single point of the larger minimum.
IntersectRanges(a, b) ==
    IF a = NoRange THEN b
    ELSE IF b = NoRange THEN a
    ELSE LET lo == IF b.min > a.min THEN b.min ELSE a.min
             hi == IF b.max < a.max THEN b.max ELSE a.max
         IN  [min |-> lo, max |-> IF lo > hi THEN lo ELSE hi]

\* The clamp shared by buildDesired, effectivePointValue and
\* EncodeEffectivePoint: a malformed range does not clamp.
Clamp(v, r) ==
    IF r = NoRange \/ r.min > r.max THEN v
    ELSE IF v < r.min THEN r.min
    ELSE IF v > r.max THEN r.max
    ELSE v

\* CheckConflicts: the rules both of whose sides are present and out of order.
CheckConflicts(eff) ==
    {rule \in Rules : /\ rule[1] \in DOMAIN eff /\ rule[2] \in DOMAIN eff
                      /\ ~(eff[rule[1]] < eff[rule[2]])}

\* The overlay's point replaces the base's, with the effective range: the
\* physical default, the base range and the overlay range intersected.
EffectiveRange(base, ov, c) ==
    LET physical == DefaultRange[c]
        certified == IF c \in DOMAIN base
                     THEN IntersectRanges(physical, base[c].range)
                     ELSE physical
    IN  IntersectRanges(certified, ov[c].range)

Merged(base, ov) ==
    [c \in DOMAIN base \cup DOMAIN ov |->
        IF c \in DOMAIN ov
        THEN [val |-> ov[c].val, range |-> EffectiveRange(base, ov, c)]
        ELSE base[c]]

EffectiveValues(m) == [c \in DOMAIN m |-> Clamp(m[c].val, m[c].range)]

\* Faulty variant: the rules are checked on the values before clamping.
ConflictsOfUnclamped(m) == CheckConflicts([c \in DOMAIN m |-> m[c].val])

\* buildDesired's fail-closed check, on the clamped values.
Conflicts(m) == CheckConflicts(EffectiveValues(m))

\* buildDesired: ok is FALSE when the merged profile has a conflict; the
\* points are clamped and filtered by capability.
BuildDesired(base, ov) ==
    LET m == Merged(base, ov)
    IN  [ok     |-> Conflicts(m) = {},
         points |-> [c \in DOMAIN m \cap Writeable |-> Clamp(m[c].val, m[c].range)]]

\* candidateConflicts, the check of setOverlay before it persists: the same
\* rules, but on the native values as written, without ranges.
CandidateConflicts(base, ov) ==
    CheckConflicts([c \in DOMAIN base \cup DOMAIN ov |->
                      IF c \in DOMAIN ov THEN ov[c].val ELSE base[c].val])

=============================================================================
