------------------------------ MODULE StrainSkill ------------------------------
(***************************************************************************)
(* A skill made by define_skill! for the trait StrainDecaySkill: it turns  *)
(* the difficulty objects of a map, one after the other, into the peaks of *)
(* the strain in consecutive sections of time.                             *)
(*                                                                         *)
(* Times are whole numbers.  How hard an object is (strain_value_of) is a  *)
(* number given with the object, and strain_decay is a constant operator.  *)
(***************************************************************************)
EXTENDS Integers, Sequences, FiniteSetsExt, SequencesExt

CONSTANTS
    Maps,           \* the lists of difficulty objects considered
    SectionLength,  \* SECTION_LENGTH
    Decay(_, _)     \* the strain that is left after an amount of time

DifficultyObject == [start : Nat, value : Nat]

ASSUME SectionAssumption == SectionLength \in Nat \ {0}
ASSUME MapsAssumption ==
    \A map \in Maps :
        /\ map \in Seq(DifficultyObject)
        /\ \A i, j \in DOMAIN map : i < j => map[i].start <= map[j].start

VARIABLES
    objects,    \* the difficulty objects, by start time
    idx,        \* how many of them have been processed
    skill       \* the strain_skill_* fields of the struct and current_strain

vars == <<objects, idx, skill>>

\* The operators on a StrainsVec; its own behaviour is not used here.
Strains == INSTANCE StrainsVec WITH
                Values <- Nat, MaxLen <- 0, vec <- skill.strain_peaks

NewSkill ==
    [current_strain |-> 0, section_end |-> 0, section_peak |-> 0,
     strain_peaks |-> Strains!Empty, object_strains |-> <<>>]

CeilDiv(t, d) == (t + d - 1) \div d

\* Object j's own start time, and that of the object before it: 0 for the first
PrevStart(j) == IF j = 1 THEN 0 ELSE objects[j - 1].start

\* calculate_initial_strain: what is left of the strain at the section's begin
CalculateInitialStrain(s, time, j) == Decay(s.current_strain, time - PrevStart(j))

\* strain_value_at, as the new current_strain
StrainValueAt(s, j) ==
    Decay(s.current_strain, objects[j].start - PrevStart(j)) + objects[j].value

\* Sections that also end at an object that lies on their border.
SectionsPassed_Border(s, j) ==
    IF objects[j].start < s.section_end THEN 0
    ELSE (objects[j].start - s.section_end) \div SectionLength + 1

\* How many rounds the loop over the section ends makes for object j.
SectionsPassed(s, j) ==
    IF objects[j].start <= s.section_end THEN 0
    ELSE CeilDiv(objects[j].start - s.section_end, SectionLength)

\* The loop of process.  Each round saves the peak of the section that ends and
\* starts the next one from what is left of the strain at this time.
PassSections(s, j) ==
    LET n       == SectionsPassed(s, j)
        initial == [i \in 1 .. n |->
            CalculateInitialStrain(s, s.section_end + (i - 1) * SectionLength, j)]
        peaks[i \in 0 .. n] ==
            IF i = 0 THEN s.strain_peaks
            ELSE Strains!Pushed(peaks[i - 1], IF i = 1 THEN s.section_peak ELSE initial[i - 1])
    IN  IF n = 0 THEN s
        ELSE [s EXCEPT !.strain_peaks = peaks[n],
                       !.section_peak = initial[n],
                       !.section_end  = @ + n * SectionLength]

\* The first object fixes where the first section ends.
BeginAt(s, j) ==
    IF j = 1
    THEN [s EXCEPT !.section_end = CeilDiv(objects[j].start, SectionLength) * SectionLength]
    ELSE s

\* process for object j
Processed(s, j) ==
    LET t      == PassSections(BeginAt(s, j), j)
        strain == StrainValueAt(t, j)
    IN  [t EXCEPT !.current_strain = strain,
                  !.section_peak   = Max({strain, @}),
                  !.object_strains = Append(@, strain)]

\* get_current_strain_peaks of the struct or of a clone of its peaks
CurrentStrainPeaks(s) == Strains!Pushed(s.strain_peaks, s.section_peak)

\* The values that difficulty_value adds up with falling weights
RankedPeaks_Unsorted(s) == Strains!TransmuteIntoVec(Strains!WithoutZeros(CurrentStrainPeaks(s)))

RankedPeaks(s) ==
    Strains!TransmuteIntoVec(Strains!Sorted(Strains!WithoutZeros(CurrentStrainPeaks(s))))

Init ==
    /\ objects \in Maps
    /\ idx = 0
    /\ skill = NewSkill

Process ==
    /\ idx < Len(objects)
    /\ skill' = Processed(skill, idx + 1)
    /\ idx' = idx + 1
    /\ UNCHANGED objects

Next == Process

Spec == Init /\ [][Next]_vars

------------------------------------------------------------------------------
(* Properties *)

\* The fields have their types.
TypeOK ==
    /\ objects \in Seq(DifficultyObject) /\ idx \in 0 .. Len(objects)
    /\ skill \in [current_strain : Nat, section_end : Nat, section_peak : Nat,
                  strain_peaks : [inner : Seq([zero : BOOLEAN, n : Nat \ {0}]),
                                  len : Nat, has_zero : BOOLEAN],
                  object_strains : Seq(Nat)]

\* The strain at object j, from its definition over the objects before it.
StrainAt[j \in 0 .. Len(objects)] ==
    IF j = 0 THEN 0
    ELSE Decay(StrainAt[j - 1], objects[j].start - PrevStart(j)) + objects[j].value

\* Section c covers the times after (c - 1) * SectionLength up to
\* c * SectionLength.
SectionOf(j) == CeilDiv(objects[j].start, SectionLength)

\* The highest strain in section c among the first k objects: at one of its
\* objects, or at its begin, where the strain of the last object before it has
\* not decayed yet.
PeakOf(c, k) ==
    LET before == {j \in 1 .. k : SectionOf(j) < c}
        begin  == IF before = {} THEN 0
                  ELSE Decay(StrainAt[Max(before)],
                             (c - 1) * SectionLength - objects[Max(before)].start)
    IN  Max({begin} \cup {StrainAt[j] : j \in {i \in 1 .. k : SectionOf(i) = c}})

PeaksOf(k) ==
    IF k = 0 THEN <<0>>
    ELSE [i \in 1 .. SectionOf(k) - SectionOf(1) + 1 |-> PeakOf(SectionOf(1) + i - 1, k)]

HowOften(x, list) == Cardinality({i \in DOMAIN list : list[i] = x})

\* The peaks reported after any number of objects are those of the consecutive
\* sections from the first object to the last, each once, sections without an
\* object and objects on a border included.  Their number depends on the times
\* alone, so the lists of several skills of a map can be zipped.
PeaksAreSectionMaxima == Strains!IntoVec(CurrentStrainPeaks(skill)) = PeaksOf(idx)

\* What is ranked by difficulty_value is every peak that is not 0, as often as
\* it occurs, the highest first; no count of zeros is taken for a peak.
RanksAllPeaks ==
    LET ranked == RankedPeaks(skill)
        peaks  == PeaksOf(idx)
    IN  /\ \A i, j \in DOMAIN ranked : i < j => ranked[i] >= ranked[j]
        /\ \A x \in ToSet(ranked) \cup ToSet(peaks) :
                HowOften(x, ranked) = IF x = 0 THEN 0 ELSE HowOften(x, peaks)
=============================================================================
