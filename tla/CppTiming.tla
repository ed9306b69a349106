----------------------------- MODULE CppTiming ------------------------------
(***************************************************************************)
(* calculate_timing of the C++ SDK (sdk/gsusb-cpp/src/gsusb.cpp): the bit  *)
(* timing for a bit rate and a sample point, from a channel's limits.      *)
(* Rates are in kHz, which the limits and rates in use are multiples of,   *)
(* and the sample point is a whole percentage; scores are compared as      *)
(* fractions.                                                              *)
(***************************************************************************)
EXTENDS Integers

Smaller(a, b) == IF a < b THEN a ELSE b
Larger(a, b)  == IF a > b THEN a ELSE b
AbsOf(n)      == IF n < 0 THEN -n ELSE n

NoTiming == [brp |-> 0, prop_seg |-> 0, phase_seg1 |-> 0, phase_seg2 |-> 0, sjw |-> 0]

\* The prescalers from which the clock gives the bit rate exactly.
Prescalers(limits, rate) ==
    {brp \in limits.brp_min .. limits.brp_max :
        /\ brp * rate > 0
        /\ (brp - limits.brp_min) % Larger(limits.brp_inc, 1) = 0
        /\ limits.fclk % (brp * rate) = 0}

\* llround(sp / 100 * total - 1), half away from zero, for total >= 4.
Tseg1Target(total, sp) == (2 * (sp * total - 100) + 100) \div 200

WithinLimits(limits, tseg1, tseg2) ==
    /\ tseg1 \in limits.tseg1_min .. limits.tseg1_max
    /\ tseg2 \in limits.tseg2_min .. limits.tseg2_max

\* What the loop scores: the target of every prescaler and its two neighbours.
Candidates(limits, rate, sp) ==
    UNION {LET total == limits.fclk \div (brp * rate) IN
           {[brp |-> brp, tseg1 |-> t, tseg2 |-> total - 1 - t, total |-> total] :
              t \in {u \in {Tseg1Target(total, sp) + d : d \in {-1, 0, 1}} :
                        total >= 4 /\ WithinLimits(limits, u, total - 1 - u)}} :
           brp \in Prescalers(limits, rate)}

\* How far a candidate's sample point is off, times its total.
Off(c, sp) == AbsOf(100 * (1 + c.tseg1) - sp * c.total)

Nearer(c, d, sp) == Off(c, sp) * d.total < Off(d, sp) * c.total

\* The order of the score tuples.  (tseg1 and the total follow from tseg2 and brp.)
Better(c, d, sp) ==
    \/ Nearer(c, d, sp)
    \/ ~Nearer(d, c, sp) /\ (c.brp < d.brp \/ (c.brp = d.brp /\ c.tseg2 < d.tseg2))

\* The best of them, or NoTiming where the code throws.
CalculateTiming(limits, rate, sp) ==
    LET all == IF rate > 0 THEN Candidates(limits, rate, sp) ELSE {} IN
    IF all = {} THEN NoTiming
    ELSE LET best == CHOOSE c \in all : \A d \in all \ {c} : Better(c, d, sp)
         IN  [brp |-> best.brp, prop_seg |-> 0,
              phase_seg1 |-> best.tseg1, phase_seg2 |-> best.tseg2,
              sjw |-> Smaller(best.tseg2, limits.sjw_max)]

-----------------------------------------------------------------------------
\* All timings of at least four quanta that give a bit rate exactly and keep the limits.
LegalTimings(limits, rate) ==
    UNION {LET total == limits.fclk \div (brp * rate) IN
           {[brp |-> brp, tseg1 |-> t, tseg2 |-> total - 1 - t, total |-> total] :
              t \in {u \in 1 .. total : total >= 4 /\ WithinLimits(limits, u, total - 1 - u)}} :
           brp \in {b \in limits.brp_min .. limits.brp_max :
                      b * rate > 0 /\ limits.fclk % (b * rate) = 0}}

\* timing is legal, and no legal timing has a sample point nearer to sp.
IsNearest(timing, limits, rate, sp) ==
    \E c \in LegalTimings(limits, rate) :
        /\ <<c.brp, c.tseg1, c.tseg2>> = <<timing.brp, timing.phase_seg1, timing.phase_seg2>>
        /\ timing.prop_seg = 0 /\ timing.sjw \in 1 .. Smaller(c.tseg2, limits.sjw_max)
        /\ \A d \in LegalTimings(limits, rate) : ~Nearer(d, c, sp)

\* What the search relies on: every legal timing has a candidate of its prescaler, or
\* one that is as near.  Short segments and a brp_inc may rule the candidates out.
SearchSuffices(limits, rate, sp) ==
    LET all == Candidates(limits, rate, sp) IN
    \A t \in LegalTimings(limits, rate) :
        \E c \in all : c.brp = t.brp \/ ~Nearer(t, c, sp)
=============================================================================
