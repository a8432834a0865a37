------------------------------ MODULE VrtdClock ------------------------------
(***************************************************************************)
(* The clocking wizard driver of vrtd (clock.c): the candidates (M, D, O)  *)
(* for a requested rate, their encoding in the wizard's register fields,   *)
(* and the rate the registers stand for.  Frequencies are in units of the  *)
(* caller's choice; VCO and phase detector limits and the reference clock  *)
(* are constants in that unit.                                             *)
(***************************************************************************)
EXTENDS Naturals, FiniteSets, FiniteSetsExt

CONSTANTS
    PrimIn,             \* prim_in_hz, the reference clock
    MMin, MMax,         \* XCLK_M_MIN, XCLK_M_MAX
    DMin, DMax,         \* XCLK_D_MIN, XCLK_D_MAX
    OMin, OMax,         \* XCLK_O_MIN, XCLK_O_MAX
    VcoMin, VcoMax,     \* XCLK_VCO_MIN, XCLK_VCO_MAX
    PfdMin, PfdMax,     \* XCLK_PFD_MIN, XCLK_PFD_MAX
    OWindow,            \* CLOCK_DRIVER_DEFAULT_O_WINDOW
    MaxCandidates       \* CLOCK_DRIVER_DEFAULT_MAX_CANDIDATES

\* Counts are eight bits wide, and the encoding halves or quarters the value.
ASSUME ClockAssumption ==
    /\ PrimIn \in Nat \ {0}
    /\ MMin \in 1..MMax /\ MMax \in 1..510
    /\ DMin \in 1..DMax /\ DMax \in 1..510
    /\ OMin \in 1..OMax /\ OMax \in 1..1020
    /\ VcoMin \in Nat /\ VcoMax \in Nat /\ PfdMin \in Nat /\ PfdMax \in Nat
    /\ OWindow \in Nat /\ MaxCandidates \in Nat \ {0}

----------------------------------------------------------------------------
(* Register fields *)

\* clock_wizard_encode_leaf: the fields of the leaf divider pair for O, clamped.
EncodeLeaf(divo) ==
    LET o == IF divo > OMax THEN OMax ELSE divo
    IN [high |-> o \div 4, low |-> o \div 4, edge |-> IF o % 4 <= 1 THEN 0 ELSE 1,
        p5en |-> o % 2, prediv |-> 1]

\* clock_wizard_decode_leaf.
DecodeLeaf(leaf) ==
    LET divo == (leaf.prediv + 1) * (leaf.high + leaf.low + leaf.edge)
                    + leaf.prediv * leaf.p5en
    IN IF divo = 0 THEN 1 ELSE divo

\* clock_driver_update_m, clock_driver_update_d: half counts and an edge bit.
EncodeCount(n) == [high |-> n \div 2, low |-> n \div 2, edge |-> n % 2]

\* The decoding in clock_driver_get_vco_hz.
DecodeCount(reg) ==
    LET n == reg.low + reg.high + reg.edge IN IF n = 0 THEN 1 ELSE n

\* What clock_driver_program_mdo_and_reconfig writes.
Program(cand) ==
    [m |-> EncodeCount(cand.m), d |-> EncodeCount(cand.d), leaf |-> EncodeLeaf(cand.o)]

\* clock_driver_get_vco_hz, clock_driver_get_rate_hz.
RateOf(regs) ==
    ((PrimIn * DecodeCount(regs.m)) \div DecodeCount(regs.d)) \div DecodeLeaf(regs.leaf)

----------------------------------------------------------------------------
(* Candidates *)

Vco(m, d) == (PrimIn * m) \div d

\* The (M, D) pairs within the VCO and phase detector ranges.
Pairs ==
    {p \in (MMin..MMax) \X (DMin..DMax) :
        /\ Vco(p[1], p[2]) >= VcoMin /\ Vco(p[1], p[2]) <= VcoMax
        /\ PrimIn \div p[2] >= PfdMin /\ PrimIn \div p[2] <= PfdMax}

Clamp(o) == IF o < OMin THEN OMin ELSE IF o > OMax THEN OMax ELSE o

\* The output dividers tried around the rounded estimate.
Window(vco, target) ==
    LET est == Clamp((vco + target \div 2) \div target)
        lo == IF est > OWindow THEN Clamp(est - OWindow) ELSE OMin
    IN lo..Clamp(est + OWindow)

Achieved(c) == Vco(c.m, c.d) \div c.o

Error(c, target) ==
    IF Achieved(c) > target THEN Achieved(c) - target ELSE target - Achieved(c)

\* Mutant: rounding down keeps the nearest rate, also one above the target.
CandidatesNearest(target, no_exceed) ==
    UNION {{[m |-> p[1], d |-> p[2], o |-> o] : o \in Window(Vco(p[1], p[2]), target)} :
               p \in Pairs}

\* Every candidate of the search; rounding down drops the ones above the target.
Candidates(target, no_exceed) ==
    {c \in UNION {{[m |-> p[1], d |-> p[2], o |-> o] :
                      o \in Window(Vco(p[1], p[2]), target)} : p \in Pairs} :
        no_exceed => Achieved(c) <= target}

\* clock_driver_candidate_cmp: a ranks strictly before b.
Better(a, b, target) ==
    LET rank(c) == <<Error(c, target), IF c.o % 4 = 0 THEN 0 ELSE 1, c.o % 2>>
    IN \/ \E k \in 1..3 : /\ rank(a)[k] < rank(b)[k]
                          /\ \A j \in 1..(k - 1) : rank(a)[j] = rank(b)[j]
       \/ /\ rank(a) = rank(b)
          /\ \/ Vco(a.m, a.d) > Vco(b.m, b.d)
             \/ Vco(a.m, a.d) = Vco(b.m, b.d) /\ a.o < b.o

\* The bounded buffer: at most MaxCandidates, none dropped that beats one kept.
Kept(target, no_exceed) ==
    LET all == Candidates(target, no_exceed)
    IN {c \in all : Cardinality({b \in all : Better(b, c, target)}) < MaxCandidates}

\* clock_driver_try_set_rate_hz: the registers regs after each possible outcome.  Kept
\* candidates are tried best first and any of them may be the first to lock; when
\* none locks the registers hold a candidate no other one is worse than.
SetRateOutcomes(regs, target, no_exceed) ==
    LET kept == Kept(target, no_exceed)
    IN IF target = 0 \/ kept = {} THEN {[ok |-> FALSE, regs |-> regs]}
       ELSE {[ok |-> TRUE, regs |-> Program(c)] : c \in kept}
                \cup {[ok |-> FALSE, regs |-> Program(c)] :
                         c \in {x \in kept : \A b \in kept : ~Better(x, b, target)}}

=============================================================================
