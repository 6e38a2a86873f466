------------------------------- MODULE Tracker -------------------------------
(***************************************************************************)
(* The tracker of the crowd application: run_tracker, once per frame, on   *)
(* what the network detected in it.                                        *)
(*                                                                         *)
(* Detections that overlap are thinned out; the tracks grow older by a     *)
(* frame; confirmed tracks choose detections first, the most recently seen *)
(* before the others, level by level; tracks still on trial and those      *)
(* confirmed ones that were seen in the last frame share what is left;     *)
(* what nobody took becomes a new track.  Each choice is one assignment of *)
(* least total cost.                                                       *)
(*                                                                         *)
(* The function runs in one thread.  Its stages are steps of their own     *)
(* here so that what one leaves for the next can be talked about.  Boxes   *)
(* have one size and lie on a line; costs and overlaps are in percent.     *)
(***************************************************************************)
EXTENDS Integers, Sequences, FiniteSets, SequencesExt

CONSTANTS
    Places,          \* where a box can begin
    BoxSize,         \* how long a box is
    MaxOverlap,      \* _nms_max_overlap, 45 in the code
    MaxDistance,     \* _max_iou_dis, 80 in the code
    MaxAge,          \* _max_age, 10 in the code
    NInit,           \* _num_init, 3 in the code
    MaxDetections,   \* bound: detections in a frame
    MaxFrames        \* bound: frames

ASSUME TrackerAssumption ==
    /\ Places \subseteq Nat /\ Places # {} /\ IsFiniteSet(Places)
    /\ BoxSize \in Nat \ {0}
    /\ MaxOverlap \in 0..99 /\ MaxDistance \in 0..99
    /\ MaxAge \in Nat \ {0} /\ NInit \in Nat /\ NInit > 1
    /\ MaxDetections \in Nat /\ MaxFrames \in Nat

VARIABLES
    stage,           \* how far run_tracker is
    frames,          \* bound: how many it has been given
    dets,            \* detections: a sequence of places
    tracks,          \* the live tracks by id; the order of the vector is
                     \* only that of the ids
    nextIdx,         \* _next_idx
    level,           \* of matching_cascade
    matches,         \* pairs of a track and the index of a detection
    free             \* unmatched_detections: their indices

trackerVars == <<stage, frames, dets, tracks, nextIdx, level, matches, free>>

Shift(a, b) == IF a < b THEN b - a ELSE a - b

Common(a, b) == IF Shift(a, b) < BoxSize THEN BoxSize - Shift(a, b) ELSE 0

\* tracker::iou_cost, with the cut of min_cost_matching: more than the largest
\* distance counts as just above it.
IouCost(a, b) ==
    LET cost == 100 - (100 * Common(a, b)) \div (2 * BoxSize - Common(a, b))
    IN IF cost > MaxDistance THEN MaxDistance + 1 ELSE cost

InReach(a, b) == IouCost(a, b) <= MaxDistance

\* What dataPreprocessing takes for the overlap of two detections: of the
\* boxes with their borders, in the one of lower score.
Overlap(a, b) ==
    LET common == BoxSize - Shift(a, b) + 1
    IN IF common > 0 THEN (100 * common) \div (BoxSize + 1) ELSE 0

Chosen(ms) == {m[1] : m \in ms}
Taken(ms)  == {m[2] : m \in ms}

Confirmed == {t \in DOMAIN tracks : tracks[t].confirmed}

At(s) == stage = s
-----------------------------------------------------------------------------
TrackerInit ==
    /\ stage = "wait" /\ frames = 0 /\ dets = <<>>
    /\ tracks = <<>> /\ nextIdx = 1
    /\ level = 0 /\ matches = {} /\ free = {}
-----------------------------------------------------------------------------
(* Thinning out: ModelDetection::dataPreprocessing                         *)

\* Detections that the i-th in the order strikes, after those struck before it.
Strike(d, idxs, i, struck) ==
    LET below[j \in 0..i - 1] ==
            IF j = 0 THEN struck
            ELSE IF /\ idxs[j] \notin ToSet(struck)
                    /\ Overlap(d[idxs[i]], d[idxs[j]]) > MaxOverlap
                 THEN Append(below[j - 1], idxs[j])
                 ELSE below[j - 1]
    IN below[i - 1]

\* delIdxs, for detections d and their indices in the order of their scores,
\* the lowest first.  Each detection not struck yet, from the highest score
\* down to the last but one, strikes those below it that it overlaps.
DelIdxs(d, idxs) ==
    LET struck[k \in 0..Len(idxs)] ==   \* by the k highest
            IF k = 0 THEN <<>>
            ELSE IF \/ k = Len(idxs)
                    \/ idxs[Len(idxs) + 1 - k] \in ToSet(struck[k - 1])
                 THEN struck[k - 1]
                 ELSE Strike(d, idxs, Len(idxs) + 1 - k, struck[k - 1])
    IN struck[Len(idxs)]

\* erase(d.begin() + i - 1): what is behind moves up, and the last element
\* goes, also when the vector has become too short for the index.
EraseAt(d, i) ==
    [k \in 1..Len(d) - 1 |-> IF k < i THEN d[k] ELSE d[k + 1]]

\* They are erased one after the other, each at the index it had at first.
DataPreprocessing(d, idxs) ==
    LET del == DelIdxs(d, idxs)
        left[k \in 0..Len(del)] ==
            IF k = 0 THEN d ELSE EraseAt(left[k - 1], del[k])
    IN left[Len(del)]

\* A frame's detections, and the order of their scores.
Preprocess ==
    /\ At("wait") /\ frames < MaxFrames
    /\ \E d \in BoundedSeq(Places, MaxDetections) :
          \E idxs \in SetToSeqs(DOMAIN d) :
              dets' = DataPreprocessing(d, idxs)
    /\ frames' = frames + 1
    /\ stage' = "predict"
    /\ UNCHANGED <<tracks, nextIdx, level, matches, free>>
-----------------------------------------------------------------------------
(* Matching: linear_assignment                                             *)

\* HungarianOper::solve: all ways to pair as many of them as possible ...
Pairings(ts, ds) ==
    IF Cardinality(ts) <= Cardinality(ds)
      THEN {{<<t, f[t]>> : t \in ts} :
               f \in {g \in [ts -> ds] :
                         \A a, b \in ts : g[a] = g[b] => a = b}}
      ELSE {{<<f[d], d>> : d \in ds} :
               f \in {g \in [ds -> ts] :
                         \A a, b \in ds : g[a] = g[b] => a = b}}

PairCost(m) == IouCost(tracks[m[1]].location, dets[m[2]])

\* ... one of those of least total cost, without the pairs that are too far
\* apart.
MinCostMatchings(ts, ds) ==
    LET total[p \in SUBSET (ts \X ds)] ==
            IF p = {} THEN 0
            ELSE LET m == CHOOSE m \in p : TRUE
                 IN PairCost(m) + total[p \ {m}]
        pairings == Pairings(ts, ds)
    IN {{m \in p : PairCost(m) <= MaxDistance} :
           p \in {q \in pairings : \A r \in pairings : total[q] <= total[r]}}

\* tracker::predict, and _match begins.
Predict ==
    /\ At("predict")
    /\ tracks' = [t \in DOMAIN tracks |->
                     [tracks[t] EXCEPT !.age = @ + 1, !.since = @ + 1]]
    /\ level' = 1 /\ free' = DOMAIN dets
    /\ stage' = "cascade"
    /\ UNCHANGED <<frames, dets, nextIdx, matches>>

\* (mutant) all confirmed tracks choose at once.
MatchingCascadeFlat ==
    /\ At("cascade")
    /\ \E ms \in MinCostMatchings(Confirmed, free) :
          /\ matches' = matches \union ms
          /\ free' = free \ Taken(ms)
    /\ stage' = "rest"
    /\ UNCHANGED <<frames, dets, tracks, nextIdx, level>>

\* (mutant) a level is shown all detections again.
MatchingCascadeAll ==
    /\ At("cascade")
    /\ \E ms \in MinCostMatchings({t \in Confirmed : tracks[t].since = level},
                                  DOMAIN dets) :
          /\ matches' = matches \union ms
          /\ free' = free \ Taken(ms)
    /\ IF level < MaxAge THEN level' = level + 1 /\ stage' = stage
                         ELSE level' = level /\ stage' = "rest"
    /\ UNCHANGED <<frames, dets, tracks, nextIdx>>

\* A level of matching_cascade: the confirmed tracks seen that many frames ago.
MatchingCascade ==
    /\ At("cascade")
    /\ \E ms \in MinCostMatchings({t \in Confirmed : tracks[t].since = level},
                                  free) :
          /\ matches' = matches \union ms
          /\ free' = free \ Taken(ms)
    /\ IF level < MaxAge THEN level' = level + 1 /\ stage' = stage
                         ELSE level' = level /\ stage' = "rest"
    /\ UNCHANGED <<frames, dets, tracks, nextIdx>>

\* iou_track_candidates: those on trial, and those left over that were seen in
\* the last frame.
Candidates ==
    {t \in DOMAIN tracks \ Chosen(matches) :
        ~tracks[t].confirmed \/ tracks[t].since = 1}

\* The rest of _match.
MatchRest ==
    /\ At("rest")
    /\ \E ms \in MinCostMatchings(Candidates, free) :
          /\ matches' = matches \union ms
          /\ free' = free \ Taken(ms)
    /\ stage' = "update"
    /\ UNCHANGED <<frames, dets, tracks, nextIdx, level>>
-----------------------------------------------------------------------------
(* tracker::update                                                         *)

\* Track::update.
Updated(track, place) ==
    [track EXCEPT !.location = place, !.since = 0, !.hits = @ + 1,
                  !.confirmed = @ \/ track.hits + 1 >= NInit]

\* (mutant) a confirmed track lasts a frame longer than it can be matched.
MissedOneMore(track) == ~track.confirmed \/ track.since > MaxAge + 1

\* (mutant) a track on trial may be missed as often as a confirmed one.
MissedLate(track) == track.since > MaxAge

\* Track::mark_missed deletes it.
Missed(track) == ~track.confirmed \/ track.since > MaxAge

\* Track::Track.
NewTrack(place) ==
    [location |-> place, hits |-> 1, age |-> 1, since |-> 0,
     confirmed |-> FALSE]

\* Matched tracks are updated, unmatched ones marked, and those deleted are
\* erased; _initiate_track makes tracks of the detections left over, in an
\* order that comes from the pairing.
Update ==
    /\ At("update")
    /\ LET kept == {t \in DOMAIN tracks :
                       t \in Chosen(matches) \/ ~Missed(tracks[t])}
           born == nextIdx..nextIdx + Cardinality(free) - 1
       IN \E order \in SetToSeqs(free) :
             tracks' =
                [t \in kept \union born |->
                    IF t \in born
                      THEN NewTrack(dets[order[t - nextIdx + 1]])
                      ELSE IF t \notin Chosen(matches) THEN tracks[t]
                      ELSE LET m == CHOOSE m \in matches : m[1] = t
                           IN Updated(tracks[t], dets[m[2]])]
    /\ nextIdx' = nextIdx + Cardinality(free)
    /\ dets' = <<>> /\ level' = 0 /\ matches' = {} /\ free' = {}
    /\ stage' = "wait"
    /\ UNCHANGED frames
-----------------------------------------------------------------------------
TrackerNext == Preprocess \/ Predict \/ MatchingCascade \/ MatchRest \/ Update

TrackerSpec == TrackerInit /\ [][TrackerNext]_trackerVars
-----------------------------------------------------------------------------
(* Properties                                                              *)

Tracks ==
    [location : Places, hits : 1..MaxFrames, age : 1..MaxFrames,
     since : 0..MaxAge + 1, confirmed : BOOLEAN]

\* The types of the variables; between frames no track has gone unseen for
\* more than MaxAge frames.
TrackerTypeOK ==
    /\ stage \in {"wait", "predict", "cascade", "rest", "update"}
    /\ frames \in 0..MaxFrames
    /\ dets \in Seq(Places) /\ Len(dets) <= MaxDetections
    /\ nextIdx \in 1..MaxFrames * MaxDetections + 1
    /\ DOMAIN tracks \subseteq 1..nextIdx - 1
    /\ \A t \in DOMAIN tracks : tracks[t] \in Tracks
    /\ level \in 0..MaxAge
    /\ matches \subseteq (DOMAIN tracks) \X (DOMAIN dets)
    /\ free \subseteq DOMAIN dets
    /\ At("wait") => \A t \in DOMAIN tracks : tracks[t].since <= MaxAge

\* Every detection goes to one track or makes one, and no track gets two.
\* (min_cost_matching's two lists, handed from level to level.)
DetectionsUsedOnce ==
    /\ \A m, n \in matches : m[1] = n[1] \/ m[2] = n[2] => m = n
    /\ stage \in {"cascade", "rest", "update"} =>
          /\ free \intersect Taken(matches) = {}
          /\ free \union Taken(matches) = DOMAIN dets

\* A confirmed track goes without a detection in its reach only if a confirmed
\* one seen no longer ago got it; and a detection within reach of a track that
\* is left unmatched goes to another track, so it makes no new one.  (One in
\* reach of a matched track only does make a new one.)  A track in the last
\* frame of its life is not asked: the cascade is as deep as MaxAge, and it is
\* one frame older.
\* (matching_cascade, the second matching in _match, and the cut of the costs.)
FreshestFirst ==
    At("update") =>
        \A t \in DOMAIN tracks \ Chosen(matches) : \A d \in DOMAIN dets :
            InReach(tracks[t].location, dets[d]) /\ tracks[t].since <= MaxAge
                => \E m \in matches :
                      /\ m[2] = d
                      /\ tracks[t].confirmed =>
                            /\ tracks[m[1]].confirmed
                            /\ tracks[m[1]].since <= tracks[t].since

\* The detections are dealt out once each and to the freshest tracks first.
DealtFairly == DetectionsUsedOnce /\ FreshestFirst

\* A track is on trial as long as it has been seen in every frame since it was
\* made, NInit of them; a confirmed one was, and stays confirmed; what is
\* confirmed is missed for less than MaxAge frames before it is seen again; a
\* track ends on trial when it is missed once, confirmed when it is missed for
\* more than MaxAge frames.  Ids are not used twice.
\* (Track::update, mark_missed and the comment on n_init and max_age.)
LifeCycle ==
    /\ [][\A t \in DOMAIN tracks : At("update") =>
            LET old == tracks[t] IN
            IF t \in DOMAIN tracks'
              THEN LET new == tracks'[t] IN
                   /\ old.confirmed => new.confirmed
                   /\ new.since = 0 => old.since <= MaxAge
                   /\ ~new.confirmed => new.hits = new.age /\ new.hits < NInit
                   /\ new.confirmed /\ ~old.confirmed =>
                         new.hits = new.age /\ new.hits = NInit
              ELSE old.since > (IF old.confirmed THEN MaxAge ELSE 0)
                   /\ (~old.confirmed => old.since = 1)]_trackerVars
    /\ [][\A t \in DOMAIN tracks' \ DOMAIN tracks : t >= nextIdx]_trackerVars

\* No two detections that are left overlap more than max_bbox_overlap.
\* (dataPreprocessing: "delete from detections".)
Thinned ==
    At("predict") =>
        \A i, j \in DOMAIN dets :
            i # j => Overlap(dets[i], dets[j]) <= MaxOverlap
=============================================================================
