---------------------------- MODULE MCStrainSkill ----------------------------
(***************************************************************************)
(* Model checking StrainSkill with sections of length 2 on every map of at *)
(* most MaxObjects objects: objects at the same time, on a border, in the  *)
(* next section and several sections later.  The strain halves with every  *)
(* unit of time, so that it does reach 0 in a long break.                  *)
(***************************************************************************)
EXTENDS StrainSkill

CONSTANTS MaxObjects, MCValues, MCGaps

HalvingDecay(strain, time) == strain \div 2 ^ time

\* A map as the gaps between its objects and their values
Steps == UNION {[1 .. n -> MCGaps \X MCValues] : n \in 0 .. MaxObjects}

StartAfter(steps, j) == FoldLeft(LAMBDA sum, s : sum + s[1], 0, SubSeq(steps, 1, j))

MCMaps ==
    {[j \in 1 .. Len(steps) |-> [start |-> StartAfter(steps, j), value |-> steps[j][2]]] :
        steps \in Steps}
=============================================================================
