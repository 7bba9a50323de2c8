----------------------------- MODULE TaikoConvert -----------------------------
(***************************************************************************)
(* The conversion of an osu! map to osu!taiko, which changes the map in    *)
(* place: index idx walks over the objects while short sliders are         *)
(* replaced by hits, and effect points get the velocity of the sliders as  *)
(* scroll speed.                                                           *)
(***************************************************************************)
EXTENDS MapObjects

VARIABLES
    map,                \* the Beatmap
    idx,                \* from 1, as sequences are
    last_scroll_speed

Object == map.hit_objects[idx]

BeatmapVersionWithTimingBeats == 8

\* should_convert_slider_to_taiko_hits: what the ticks are spaced by
TickBeatLen(h) ==
    LET beat_len == TimingBeatLen(map, h.start_time)
    IN  IF map.version >= BeatmapVersionWithTimingBeats THEN beat_len
        ELSE AdjustedBeatLen(SliderVelocity(map, h.start_time), beat_len)

Duration(h) == h.slider.span_count * SpanDuration(map, h)
TickSpacing(h) == MinOf(TickBeatLen(h), Duration(h) \div h.slider.span_count)
BecomesHits(h) == TickSpacing(h) > 0 /\ Duration(h) < 2 * TickBeatLen(h)

\* Hits at all multiples of the spacing, up to an eighth of it behind the end
NHits(h) == (8 * Duration(h) + TickSpacing(h)) \div (8 * TickSpacing(h)) + 1

\* A hit for each node only; further ones sound like the slider.
NodeOf_Once(i, n_nodes) == i

\* i = (i + 1) % edge_sound_count: the nodes' sounds come round again.
NodeOf(i, n_nodes) == ((i - 1) % MaxOf(n_nodes, 1)) + 1

HitSound(h, own_sound, i) ==
    LET sounds == h.slider.node_sounds
        node   == NodeOf(i, Len(sounds))
    IN  IF node \in DOMAIN sounds THEN sounds[node] ELSE own_sound

Circle(start_time) ==
    [kind |-> "circle", pos |-> <<0, 0>>, start_time |-> start_time, duration |-> 0, slider |-> None]

Hits(h) == [i \in 1 .. NHits(h) |-> Circle(h.start_time + (i - 1) * TickSpacing(h))]
HitSounds(h, own_sound) == [i \in 1 .. NHits(h) |-> HitSound(h, own_sound, i)]

\* The sounds of a list whose element stays
SplicedSounds_Kept(list, i, new) == [list EXCEPT ![i] = new[1]]

\* splice(i..=i, new)
Spliced(list, i, new) == SubSeq(list, 1, i - 1) \o new \o SubSeq(list, i + 1, Len(list))
SplicedSounds(list, i, new) == Spliced(list, i, new)

\* An effect point that says nothing of the kiai
KiaiAt_Default(effect_points, time) == FALSE

KiaiAt(effect_points, time) == OrDefault(ActiveAt(effect_points, time), DefaultEffectPoint).kiai

\* The effect points with one for a slider whose velocity is not the last one
EffectPoints(h) ==
    LET velocity == SliderVelocity(map, h.start_time)
    IN  IF velocity = last_scroll_speed THEN map.effect_points
        ELSE Added(map.effect_points,
                   [time |-> h.start_time, kiai |-> KiaiAt(map.effect_points, h.start_time),
                    scroll_speed |-> velocity])

Loops == map.mode = "osu" /\ idx \in DOMAIN map.hit_objects

\* Circles and spinners stay.
KeepObject ==
    /\ Loops /\ Object.kind \in {"circle", "spinner"}
    /\ idx' = idx + 1
    /\ UNCHANGED <<map, last_scroll_speed>>

\* A slider stays as a drum roll, or idx moves behind the hits in its place.
\* There always is a hit where the slider begins.
ConvertSlider ==
    /\ Loops /\ Object.kind = "slider"
    /\ LET h    == Object
           hits == BecomesHits(h)
       IN  /\ map' = [map EXCEPT
                  !.effect_points = EffectPoints(h),
                  !.hit_objects   = IF hits THEN Spliced(@, idx, Hits(h)) ELSE @,
                  !.hit_sounds    = IF hits
                                    THEN SplicedSounds(@, idx, HitSounds(h, @[idx])) ELSE @]
           /\ idx' = idx + (IF hits THEN NHits(h) ELSE 1)
           /\ last_scroll_speed' = SliderVelocity(map, h.start_time)

ConvertHold ==
    /\ Loops /\ Object.kind = "hold"
    /\ map' = [map EXCEPT !.hit_objects[idx].kind = "spinner"]
    /\ idx' = idx + 1
    /\ UNCHANGED last_scroll_speed

\* Behind the loop objects and sounds are sorted in tandem.
FinishTaiko ==
    /\ map.mode = "osu" /\ idx = Len(map.hit_objects) + 1
    /\ LET first  == TandemSort(NewStable(map.hit_objects), map.hit_objects)
           second == TandemSort(first.sorter, map.hit_sounds)
       IN  map' = [map EXCEPT !.hit_objects = first.slice, !.hit_sounds = second.slice,
                              !.mode = "taiko", !.is_convert = TRUE]
    /\ UNCHANGED <<idx, last_scroll_speed>>
=============================================================================
