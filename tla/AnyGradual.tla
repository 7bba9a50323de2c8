------------------------------ MODULE AnyGradual ------------------------------
(***************************************************************************)
(* GradualDifficulty and GradualPerformance: the calculator of one mode,   *)
(* chosen when it is made, behind the calls that every mode has.           *)
(*                                                                         *)
(* What the four modes promise is stated here once: whichever of them a    *)
(* caller holds, it is an iterator over the results of the ordinary        *)
(* calculation on longer and longer prefixes of the map.                   *)
(***************************************************************************)
EXTENDS RustStd, FiniteSets

CONSTANTS
    OsuMaps, TaikoMaps, CatchMaps, ManiaMaps,   \* the maps of each mode
    Takes,      \* the values of Difficulty::passed_objects
    NthArgs,    \* the arguments given to nth
    USizeMax    \* usize::MAX, the argument that last gives to nth

VARIABLES
    mode,   \* the variant of the enum
    objs,   \* the objects of the converted map
    take,   \* passed_objects of the Difficulty given to the constructor
    it,     \* the struct inside the variant
    ret     \* Option returned by the last call: <<>> None, <<x>> Some(x)

vars == <<mode, objs, take, it, ret>>

Osu   == INSTANCE OsuGradual   WITH Maps <- OsuMaps
Taiko == INSTANCE TaikoGradual WITH Maps <- TaikoMaps
Catch == INSTANCE CatchGradual WITH Maps <- CatchMaps
Mania == INSTANCE ManiaGradual WITH Maps <- ManiaMaps

ASSUME ModesAssumption ==
    /\ Osu!MapsAssumption /\ Taiko!MapsAssumption
    /\ Catch!MapsAssumption /\ Mania!MapsAssumption
ASSUME CallsAssumption == Osu!ArgsAssumption /\ Mania!ArgsAssumption

\* The length of a slice is a usize.
ASSUME LengthsAssumption == \A m \in TaikoMaps : Len(m) <= USizeMax

------------------------------------------------------------------------------
(* The enum *)

\* new_with_mode.  Only the osu!mania calculator looks at passed_objects.
Init ==
    \/ mode = "osu"   /\ take \in Takes /\ Osu!Init
    \/ mode = "taiko" /\ take \in Takes /\ Taiko!Init
    \/ mode = "catch" /\ take \in Takes /\ Catch!Init
    \/ mode = "mania" /\ Mania!Init

\* next of GradualDifficulty
NextCall ==
    /\ \/ mode = "osu"   /\ Osu!NextCall
       \/ mode = "taiko" /\ Taiko!NextCall
       \/ mode = "catch" /\ Catch!NextCall
       \/ mode = "mania" /\ Mania!NextCall
    /\ UNCHANGED <<mode, take>>

\* nth of GradualDifficulty and of GradualPerformance, whose next is nth(0)
NthCall(n) ==
    /\ \/ mode = "osu"   /\ Osu!NthCall(n)
       \/ mode = "taiko" /\ Taiko!NthCall(n)
       \/ mode = "catch" /\ Catch!NthCall(n)
       \/ mode = "mania" /\ Mania!NthCall(n)
    /\ UNCHANGED <<mode, take>>

\* last of GradualPerformance
LastCall == NthCall(USizeMax)

Next ==
    \/ NextCall
    \/ \E n \in NthArgs : NthCall(n)
    \/ LastCall

\* len of either enum
RemainingLen(s) ==
    CASE mode = "osu"   -> Osu!RemainingLen(s)
      [] mode = "taiko" -> Taiko!RemainingLen(s)
      [] mode = "catch" -> Catch!RemainingLen(s)
      [] mode = "mania" -> Mania!RemainingLen(s)

\* The ordinary calculation with passed_objects(k)
Calculate(k) ==
    CASE mode = "osu"   -> Osu!Calculate(k)
      [] mode = "taiko" -> Taiko!Calculate(k)
      [] mode = "catch" -> Catch!Calculate(k)
      [] mode = "mania" -> Mania!Calculate(k)

Spec == Init /\ [][Next]_vars

\* The caller is a for loop, or anything else that goes on calling next.
ForLoop == Spec /\ WF_vars(NextCall)

------------------------------------------------------------------------------
(* Properties *)

\* The objects an iterator has an item for: hit objects, taiko's hits, the
\* palpable objects of catch, and no more than passed_objects in mania.
NItems ==
    CASE mode = "osu"   -> Len(objs)
      [] mode = "taiko" -> Taiko!TotalHits
      [] mode = "catch" -> Catch!NPalpable
      [] mode = "mania" -> Mania!NItems

\* The maps on which items and prefixes are the same thing.  The taiko
\* calculator counts the first two objects as items whether or not they are
\* hits, and has no items at all where these two are the whole map.
Regular == mode = "taiko" => Len(objs) > 2 /\ objs[1] /\ objs[2]

\* The struct and the returned value of each mode have their types, and the
\* position of an iterator never leaves its map.
TypeOK ==
    \/ mode = "osu"   /\ Osu!TypeOK /\ take \in Takes
    \/ mode = "taiko" /\ Taiko!TypeOK /\ take \in Takes
    \/ mode = "catch" /\ Catch!TypeOK /\ take \in Takes
    \/ mode = "mania" /\ Mania!TypeOK

\* What an iterator has consumed and what it has counted belong together on
\* every map, also after a call that returned nothing: each skill saw the
\* difficulty objects up to the position, once and in order, no hit of a taiko
\* map is forgotten or counted twice, and no tiny droplet of a catch map is
\* lost between two palpable objects.
InStep ==
    /\ mode = "osu"   => Osu!InStep
    /\ mode = "taiko" => Taiko!SkillsInStep /\ Taiko!ComboCountsHits
    /\ mode = "catch" => Catch!TinyDropletsKept
    /\ mode = "mania" => Mania!StrainInStep

\* Every value returned by next, nth or last, in any interleaving of them, is
\* the value of the ordinary calculation with passed_objects set to the number
\* of items the caller is past.
MatchesCalculate == Regular /\ ret # <<>> => ret = <<Calculate(it.idx)>>

\* len() tells whether the next call returns an item, so that size_hint, which
\* repeats it, is exact.  A map without items has length 1 in three modes.
ExactSize ==
    [][Regular /\ NItems > 0 => ((ret' # <<>>) <=> (RemainingLen(it) > 0))]_vars

\* The number of items that next will still return, by its own conditions
ItemsToCome ==
    CASE mode = "osu"   -> Osu!ItemsToCome(it)
      [] mode = "taiko" -> Taiko!ItemsToCome(it)
      [] mode = "catch" -> Catch!ItemsToCome(it)
      [] mode = "mania" -> Mania!ItemsToCome(it)

\* That is what next does, on every map of every mode: while items are to come
\* it returns one of them, which is then no longer to come, and afterwards it
\* returns nothing, though it may still move (next of the four calculators).
ItemsAreCounted ==
    [][NextCall =>
        \/ ItemsToCome = 0 /\ ItemsToCome' = 0 /\ ret' = <<>>
        \/ ItemsToCome > 0 /\ ItemsToCome' = ItemsToCome - 1 /\ ret' # <<>>]_vars

\* len() is the number of items that next will still return: "the amount of
\* remaining objects", as its comment says.
LenIsRemaining == NItems > 0 => RemainingLen(it) = ItemsToCome

\* An exhausted taiko iterator stays exhausted, although its calls go on
\* consuming what lies behind the last hit.
Fused ==
    [][mode = "taiko" /\ it.idx >= 2 /\ Taiko!HitsAhead(it) = {}
            => ret' = <<>> /\ it'.idx = it.idx]_vars

\* A loop that goes on calling next comes to its end on every map of every
\* mode, also where the first objects of a taiko map or the last ones are no
\* hits.
ForLoopEnds == <>[](ret = <<>>)

\* Every calculator is a PrefixIterator over the results of the ordinary
\* calculation: nth(n) skips exactly n of them, it stops at the last one, and
\* the iterator is exhausted only after the last one was returned.
Promise == INSTANCE PrefixIterator WITH
                items <- [k \in 1 .. NItems |-> Calculate(k)],
                pos   <- it.idx

IsPrefixIterator ==
    (Regular => Promise!Init) /\ [][Regular => Promise!Next]_(Promise!vars)
=============================================================================
