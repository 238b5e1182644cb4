---------------------------- MODULE AffectOverlay ----------------------------
(***************************************************************************)
(* The mood a host derives from what it recalls (affect_overlay.rs): an    *)
(* AffectOverlayEngine, the recalls it is fed, and the nudge its mood      *)
(* gives a fact.  Valence, arousal, intensity and relevance are hundredths *)
(* or NaN, and a mean is rounded down to a hundredth.  `source` is a label *)
(* compute_mood leaves alone.                                              *)
(***************************************************************************)
EXTENDS Provenance, FiniteSets, FiniteSetsExt

CONSTANTS
    Recalled,       \* nodes a recall may find: [affect, relevance, node_time]
    MostRecalled,   \* bound: nodes one recall finds
    Moments,        \* values of now
    Tau,            \* tau_seconds
    Inertia,        \* inertia_beta, in hundredths
    Exp,            \* expf(-x/100), in hundredths, up to where it underflows
    Underflow,      \* ... which is there
    MaxMoods        \* bound: recalls fed to the engine

Level == 0 .. 100
Valence == -100 .. 100

\* What a node holds is of machine-sized types, so there are finitely many.
ASSUME OverlayAssumption ==
    /\ IsFiniteSet(Recalled)
    /\ \A r \in Recalled :
          /\ r.affect.valence \in Valence \cup {NaN}
          /\ r.affect.arousal \in Level \cup {NaN}
          /\ r.affect.intensity \in Level \cup {NaN}
          /\ r.relevance \in -100 .. 100 \cup {NaN}
          /\ r.node_time \in Nat
    /\ Moments \subseteq Nat
    /\ Tau \in Nat \ {0}
    /\ Inertia \in Level
    /\ Underflow \in Nat
    /\ Exp \in [0 .. Underflow -> Level]
    /\ MaxMoods \in Nat

VARIABLES
    mood,           \* current_mood: [valence, arousal, intensity, timestamp]
    felt,           \* history: the affects that had a say in it
    moods           \* recalls fed so far

moodVars == <<mood, felt, moods>>

\* AffectState::default.
Baseline == [valence |-> 0, arousal |-> 20, intensity |-> 10, timestamp |-> 0]

MoodInit ==
    /\ mood = Baseline
    /\ felt = {}
    /\ moods = 0

-----------------------------------------------------------------------------
(* compute_mood *)

ExpOf(x) == Exp[AtMost(x, Underflow)]

\* Seconds since the node was written, 0 if it is from the future.
Age(r, now) == AtLeast(now - r.node_time, 0)

\* weight: recency times (0.3 + 0.4 intensity + 0.3 relevance), in 10^-6.
Pull(r, now) ==
    IF r.affect.intensity = NaN \/ r.relevance = NaN THEN NaN
    ELSE ExpOf((100 * Age(r, now)) \div Tau)
            * (3000 + 40 * r.affect.intensity + 30 * r.relevance)

Total(recalled, now) == LET pull(r) == Pull(r, now) IN MapThenSumSet(pull, recalled)

\* total_weight > 0, which one weight that is NaN makes false.
Moves(recalled, now) ==
    /\ \A r \in recalled : Pull(r, now) # NaN
    /\ Total(recalled, now) > 0

Clamped(x, low, high) == AtMost(AtLeast(x, low), high)

\* Mutant: the sum is divided by the number of nodes.
MeanUnweighted(part, recalled, now) ==
    LET pulled(r) == r.affect[part] * Pull(r, now)
    IN  IF \E r \in recalled : r.affect[part] = NaN THEN NaN
        ELSE MapThenSumSet(pulled, recalled) \div (1000000 * Cardinality(recalled))

\* The weighted mean of one part; a NaN is NaN even where its weight is 0.
Mean(part, recalled, now) ==
    LET pulled(r) == r.affect[part] * Pull(r, now)
    IN  IF \E r \in recalled : r.affect[part] = NaN THEN NaN
        ELSE MapThenSumSet(pulled, recalled) \div Total(recalled, now)

\* Emotional inertia between the old value and the clamped mean.
Drift(old, mean, low) ==
    IF old = NaN \/ mean = NaN THEN NaN
    ELSE (Inertia * old + (100 - Inertia) * Clamped(mean, low, 100)) \div 100

HasSay(r, now) == Pull(r, now) > 0 \/ NaN \in {r.affect.valence, r.affect.arousal}

ComputeMood(recalled, now) ==
    /\ moods < MaxMoods
    /\ moods' = moods + 1
    /\ IF Moves(recalled, now)
       THEN /\ mood' = [valence   |-> Drift(mood.valence, Mean("valence", recalled, now), -100),
                        arousal   |-> Drift(mood.arousal, Mean("arousal", recalled, now), 0),
                        intensity |-> Drift(mood.intensity, Mean("intensity", recalled, now), 0),
                        timestamp |-> now]
            /\ felt' = felt \cup {r.affect : r \in {x \in recalled : HasSay(x, now)}}
       ELSE UNCHANGED <<mood, felt>>

MoodNext ==
    \E n \in 0 .. MostRecalled, now \in Moments :
        \E recalled \in kSubset(n, Recalled) : ComputeMood(recalled, now)

MoodSpec == MoodInit /\ [][MoodNext]_moodVars

-----------------------------------------------------------------------------
\* The product of two levels.
Scaled(x, level) == (x * level) \div 100

\* mood_congruence_nudge, in hundredths.
Nudge(affect) ==
    LET square(x) == x * x
        apart == square(affect.valence - mood.valence) + square(affect.arousal - mood.arousal)
    IN  IF mood.intensity # NaN /\ mood.intensity < 15 THEN 100
        ELSE IF NaN \in {affect.valence, affect.arousal,
                         mood.valence, mood.arousal, mood.intensity} THEN NaN
        ELSE 100 + Scaled(12, Scaled(ExpOf(apart \div 50), mood.intensity))

-----------------------------------------------------------------------------
(* Properties *)

\* A mood is made of what was felt: each part stays between the least and the
\* most of the baseline and of the affects that had a say, whatever was
\* recalled and how old it was; but one NaN that was recalled spoils its part
\* for good, except in an intensity, where it silences the recall.
PartWithinExperience(part) ==
    LET lived == {affect[part] : affect \in felt \cup {Baseline}}
    IN  IF NaN \in lived THEN mood[part] = NaN
        ELSE mood[part] \in Min(lived) .. Max(lived)

\* A nudge raises a rank by at most 0.12, and not at all before something
\* intense was felt ("Neutral mood = no rank distortion").
NudgesGently ==
    \A r \in Recalled :
        LET nudge == Nudge(r.affect)
        IN  IF \A affect \in felt : affect.intensity < 15 THEN nudge = 100
            ELSE nudge \in 100 .. 112 \cup {NaN}

MoodWithinExperience ==
    /\ \A part \in {"valence", "arousal", "intensity"} : PartWithinExperience(part)
    /\ NudgesGently

=============================================================================
