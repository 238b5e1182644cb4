------------------------------ MODULE Provenance ------------------------------
(***************************************************************************)
(* The value side of a memory node: where a fact came from                 *)
(* (provenance.rs), whether it is canon (canon.rs), and the single-precision *)
(* arithmetic by which human verdicts move its importance                  *)
(* (graph_nexus.rs).  No state: sets, tables and operators only.           *)
(*                                                                         *)
(* Importance is an f32 in the code.  Every value it can take is a         *)
(* multiple of 2^-26 (0.15f32 and 0.20f32 have that granularity and every  *)
(* larger operand is coarser), so it is modelled EXACTLY, as a number of   *)
(* units of 2^-26, with the rounding of IEEE round-to-nearest-even.  The   *)
(* rounding is not a detail: 0.45 + 0.15 - 0.20 and 0.45 - 0.20 + 0.15     *)
(* differ, and eviction sorts by the result.                               *)
(***************************************************************************)
EXTENDS Integers

SourceType == {"UserUtterance", "LlmGeneration", "LlmSelfDescription",
               "ExternalDoc", "VerifiedExternal", "UnknownLegacy"}

IsSelfDescription(s) == s = "LlmSelfDescription"

One == 67108864                            \* 1.0f32 in units of 2^-26

\* The f32 nearest to 1.0, 0.85, 0.70, 0.50 and 0.40.
MaxImportanceCap(s) ==
    IF s \in {"UserUtterance", "VerifiedExternal"} THEN One
    ELSE IF s = "ExternalDoc"   THEN 57042536
    ELSE IF s = "LlmGeneration" THEN 46976204
    ELSE IF s = "UnknownLegacy" THEN 33554432
    ELSE 26843546

\* Retrieval weight, in hundredths.
RankMultiplier ==
    [UserUtterance      |-> 135,
     VerifiedExternal   |-> 120,
     ExternalDoc        |-> 100,
     LlmGeneration      |-> 55,
     UnknownLegacy      |-> 90,
     LlmSelfDescription |-> 0]

CanonLevel == {"None", "L1Project", "L2Foundational"}
IsCanon(level) == level # "None"
\* Mutant: only the foundational level is immortal.
IsImmortalOnlyL2(level) == level = "L2Foundational"

IsImmortal(level) == IsCanon(level)

-----------------------------------------------------------------------------
(* f32 values that may not be numbers; importance always is one. *)

NaN == 1001                         \* beyond every score, level and coordinate

\* `>=`: false if either side is NaN.
Geq(x, y) == x # NaN /\ y # NaN /\ x >= y

-----------------------------------------------------------------------------
(* Importance. *)

BaseImportance == 30198988                 \* 0.45f32
ConfirmStep    == 10066330                 \* 0.15f32
RejectStep     == 13421773                 \* 0.20f32

AtMost(x, bound) == IF x <= bound THEN x ELSE bound       \* f32::min
AtLeast(x, bound) == IF x >= bound THEN x ELSE bound      \* f32::max

\* x rounded to a multiple of q, ties to the even multiple.
RoundToMultiple(x, q) ==
    LET below == x - (x % q)
        up    == \/ 2 * (x % q) > q
                 \/ 2 * (x % q) = q /\ (x \div q) % 2 = 1
    IN  IF up THEN below + q ELSE below

\* A 24-bit significand represents multiples of 8, 4 and 2 units from 1.0, 0.5
\* and 0.25 up.  Below that every multiple of a unit is exact, and a negative
\* result is about to be clamped to zero.
Grain(x) == IF x >= One THEN 8 ELSE IF x >= 33554432 THEN 4 ELSE 2
Rounded(x) == IF x < 16777216 THEN x ELSE RoundToMultiple(x, Grain(x))

\* Mutant: creation forgets the ceiling.
StartUncapped(s) == BaseImportance

\* The importance a node is created with.
StartImportance(s) == AtMost(BaseImportance, MaxImportanceCap(s))

\* Mutant: one ceiling for every source.
ConfirmedUncapped(x, s) == AtMost(Rounded(x + ConfirmStep), One)

\* The importance after one human verdict.
Confirmed(x, s) == AtMost(Rounded(x + ConfirmStep), MaxImportanceCap(s))
Rejected(x) == AtLeast(Rounded(x - RejectStep), 0)
=============================================================================
