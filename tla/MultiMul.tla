-------------------------------- MODULE MultiMul --------------------------------
(***************************************************************************)
(* The sum of a multiple of G and of many multiples of points              *)
(* (secp256k1_ecmult_multi_var) in batches that fit a scratch space        *)
(* (scratch_impl.h): how large the batches are, which algorithm each call  *)
(* takes, and the memory each batch takes and gives back.  What a batch    *)
(* sums up is Strauss's or Pippenger's own matter: here a sum is the       *)
(* points that went into it.  Sizes are the bytes of a 64-bit build.       *)
(***************************************************************************)
EXTENDS Integers, Sequences, SequencesExt, FiniteSetsExt

CONSTANTS
    Null,           \* no scratch space, no memory
    MaxSizes,       \* bound: of the scratch space
    Outers,         \* bound: bytes the caller has in a frame of its own
    Counts,         \* bound: points of a call
    Fails           \* bound: the point at which the callback gives up

\* A frame for no bytes fits even a space that is full, and takes it past its size: with
\* one the differences in secp256k1_scratch_max_allocation would wrap round.
SizesAssumption ==
    MaxSizes \subseteq Nat /\ Outers \subseteq Nat \ {0} /\ Counts \cup Fails \subseteq Nat

ge_size == 84
gej_size == 124
fe_size == 40
scalar_size == 32
int_size == 4
pippenger_ps_size == 16
pippenger_state_size == 16
strauss_ps_size == 1040

ALIGNMENT == 16
OBJECTS == 6
PIPPENGER_MAX_BUCKET_WINDOW == 12
ECMULT_PIPPENGER_THRESHOLD == 160
ECMULT_MAX_POINTS_PER_BATCH == 10000000
SIZE_MAX == 2000000000

Least(a, b) == IF a < b THEN a ELSE b
WNAF_SIZE(w) == (256 + w - 1) \div w

-----------------------------------------------------------------------------
\* The scratch space: frames, one on the other, each with its size and how much of
\* it is given out.

Allocated(frames) == FoldLeft(LAMBDA s, f : s + f.size, 0, frames)

max_allocation(max_size, frames) ==
    LET left == max_size - Allocated(frames)
    IN  IF left <= OBJECTS * ALIGNMENT THEN 0 ELSE left - OBJECTS * ALIGNMENT

FrameFits(max_size, frames, n) == n <= max_allocation(max_size, frames)

Frame(n) == [size |-> n + OBJECTS * ALIGNMENT, offset |-> 0, nulls |-> 0]

\* An object goes into the last frame, or nowhere.
alloc(frame, size) ==
    LET whole == ((size + ALIGNMENT - 1) \div ALIGNMENT) * ALIGNMENT
    IN  IF whole + frame.offset > frame.size THEN [frame EXCEPT !.nulls = @ + 1]
        ELSE [frame EXCEPT !.offset = @ + whole]

-----------------------------------------------------------------------------
\* The two algorithms' needs.

strauss_point_size ==
    (ge_size + gej_size + fe_size) * 8 + strauss_ps_size + gej_size + scalar_size

strauss_max_points(max_size, frames) == max_allocation(max_size, frames) \div strauss_point_size

strauss_objects(n) ==
    <<n * gej_size, n * scalar_size, n * 8 * gej_size, n * 8 * fe_size, n * 8 * ge_size,
      n * strauss_ps_size>>

\* The most points for which a window is the best.
bucket_window_inv ==
    <<1, 11, 45, 100, 275, 625, 1850, 3400, 9630, 17900, 32800, SIZE_MAX>>

bucket_window(n) == CHOOSE w \in 1 .. PIPPENGER_MAX_BUCKET_WINDOW :
    n <= bucket_window_inv[w] /\ \A v \in 1 .. w - 1 : n > bucket_window_inv[v]

entry_size(w) ==
    ge_size + scalar_size + pippenger_ps_size + (WNAF_SIZE(w + 1) + 1) * int_size

\* One more, for G.
entries(n) == n + 1

pippenger_scratch_size(n, w) ==
    gej_size * 2^w + pippenger_state_size + entries(n) * entry_size(w)

pippenger_objects(n, w) ==
    <<entries(n) * ge_size, entries(n) * scalar_size, pippenger_state_size,
      entries(n) * pippenger_ps_size, entries(n) * WNAF_SIZE(w + 1) * int_size, gej_size * 2^w>>

\* The points there is space for with window w.
Room(max_alloc, w) ==
    LET overhead == gej_size * 2^w + entry_size(w) + pippenger_state_size
    IN  IF overhead > max_alloc THEN 0
        ELSE Least((max_alloc - overhead) \div entry_size(w), bucket_window_inv[w])

\* Mutant: a larger window is tried even when a smaller one is not filled.
WindowTried_Any(max_alloc, w) == TRUE

\* Only when the smaller ones are filled: fewer points have to fit as well.
WindowTried(max_alloc, w) == \A v \in 1 .. w - 1 : Room(max_alloc, v) = bucket_window_inv[v]

pippenger_max_points(max_size, frames) ==
    LET max_alloc == max_allocation(max_size, frames)
    IN  Max({0} \cup {Room(max_alloc, w) :
                 w \in {v \in 1 .. PIPPENGER_MAX_BUCKET_WINDOW : WindowTried(max_alloc, v)}})

batch_size_helper(max_points, n) ==
    LET most == Least(max_points, ECMULT_MAX_POINTS_PER_BATCH)
        batches == 1 + ((n - 1) \div most)
    IN  [batches |-> batches, points |-> 1 + ((n - 1) \div batches)]

-----------------------------------------------------------------------------

VARIABLES
    max_size, frames,       \* the scratch space, Null: none
    outer,                  \* its frames that the caller holds
    call,                   \* the points, G or not, and where the callback fails
    pc,                     \* "idle", "batches": between two, "batch": in one
    f, n_batches, n_batch_points,
    n, i,                   \* points that are left, batches that are done
    summed,                 \* what r is: the ranges of points, and how many times G
    result                  \* "ok", or why it is 0: "callback", "memory", "refused"

vars == <<max_size, frames, outer, call, pc, f, n_batches, n_batch_points, n, i, summed,
          result>>

Init ==
    /\ max_size \in MaxSizes \cup {Null}
    /\ frames \in {<<>>} \cup (IF max_size = Null THEN {}
                               ELSE {<<Frame(o)>> : o \in {b \in Outers : FrameFits(max_size, <<>>, b)}})
    /\ outer = frames
    /\ call = [n |-> 0, g |-> 0, fail |-> 0] /\ pc = "idle"
    /\ f = "none" /\ n_batches = 0 /\ n_batch_points = 0 /\ n = 0 /\ i = 0
    /\ summed = [points |-> <<>>, g |-> 0] /\ result = "ok"

\* What is local to a call is gone with it.
Return(value) ==
    /\ pc' = "idle" /\ result' = value
    /\ f' = "none" /\ n_batches' = 0 /\ n_batch_points' = 0 /\ n' = 0 /\ i' = 0


\* secp256k1_ecmult_multi_simple_var, or one point after the other with no memory: up
\* to the point at which the callback fails.
Simple(c) ==
    /\ Return(IF c.fail < c.n THEN "callback" ELSE "ok")
    /\ summed' = [points |-> IF c.fail > 0 /\ c.n > 0 THEN <<<<0, Least(c.fail, c.n)>>>> ELSE <<>>,
                  g |-> c.g]

InBatches(c, pippenger, strauss) ==
    LET large == pippenger > 0
                 /\ batch_size_helper(pippenger, c.n).points >= ECMULT_PIPPENGER_THRESHOLD
        most == IF large THEN pippenger ELSE strauss
    IN  /\ summed' = [points |-> <<>>, g |-> 0]
        /\ IF pippenger = 0 \/ most = 0
           THEN Return("refused")
           ELSE /\ pc' = "batches" /\ UNCHANGED result
                /\ f' = IF large THEN "pippenger" ELSE "strauss"
                /\ n_batches' = batch_size_helper(most, c.n).batches
                /\ n_batch_points' = batch_size_helper(most, c.n).points
                /\ n' = c.n /\ i' = 0

\* A call, one after the other.
Call ==
    /\ pc = "idle"
    /\ LET pippenger == pippenger_max_points(max_size, frames)
           strauss == strauss_max_points(max_size, frames)
       IN  \E c \in [n : Counts, g : {0, 1}, fail : Fails] :
             /\ call' = c
             /\ IF c.n = 0 \/ max_size = Null THEN Simple(c)
                ELSE InBatches(c, pippenger, strauss)
    /\ UNCHANGED <<max_size, frames, outer>>

nbp == Least(n, n_batch_points)
offset == n_batch_points * i

\* Only the first batch has G.
GOfBatch == IF i = 0 THEN call.g ELSE 0

\* The frame of the batch, and what is put into it.
Needed ==
    IF f = "strauss" THEN nbp * strauss_point_size
    ELSE pippenger_scratch_size(nbp, bucket_window(nbp))
Objects ==
    IF f = "strauss" THEN strauss_objects(nbp) ELSE pippenger_objects(nbp, bucket_window(nbp))

OpenBatch ==
    /\ pc = "batches" /\ i < n_batches
    /\ \/ /\ FrameFits(max_size, frames, Needed)
          /\ frames' = Append(frames, FoldLeft(alloc, Frame(Needed), Objects))
          /\ pc' = "batch" /\ UNCHANGED <<result, f, n_batches, n_batch_points, n, i>>
       \/ /\ Return(IF FrameFits(max_size, frames, Needed) THEN "memory" ELSE "refused")
          /\ UNCHANGED frames                         \* no room, or malloc has none
    /\ UNCHANGED <<max_size, outer, call, summed>>

AfterFailure == Front(frames)

CallbackFails ==
    /\ pc = "batch" /\ call.fail \in offset .. offset + nbp - 1
    /\ frames' = AfterFailure /\ Return("callback")
    /\ UNCHANGED <<max_size, outer, call, summed>>

CloseBatch ==
    /\ pc = "batch" /\ call.fail \notin offset .. offset + nbp - 1
    /\ frames' = Front(frames) /\ pc' = "batches"
    /\ summed' = [points |-> Append(summed.points, <<offset, offset + nbp>>),
                  g |-> summed.g + GOfBatch]
    /\ n' = n - nbp /\ i' = i + 1
    /\ UNCHANGED <<max_size, outer, call, f, n_batches, n_batch_points, result>>

Done ==
    /\ pc = "batches" /\ i = n_batches /\ Return("ok")
    /\ UNCHANGED <<max_size, frames, outer, call, summed>>

Next == Call \/ OpenBatch \/ CallbackFails \/ CloseBatch \/ Done

Spec == Init /\ [][Next]_vars

-----------------------------------------------------------------------------

\* Up to where the ranges go on where the one before ends.
Covered(ranges) ==
    FoldLeft(LAMBDA upto, range : IF range[1] = upto THEN range[2] ELSE -1, 0, ranges)

\* A batch is never empty, and a call that succeeds has put every point into the sum
\* once, in whatever batches, and G once if it was asked for (ecmult_impl.h:1168).
SumIsWhole ==
    /\ pc = "batches" /\ i < n_batches => n > 0
    /\ pc = "idle" /\ result = "ok" => summed.g = call.g /\ Covered(summed.points) = call.n

\* Every batch fits, the last one with fewer points and another window too
\* (ecmult_impl.h:1048), and no call is refused when one point fits (ecmult.h:42).
RoomForEveryBatch ==
    /\ pc = "batches" /\ i < n_batches => FrameFits(max_size, frames, Needed)
    /\ pc = "idle" /\ result = "refused" => strauss_max_points(max_size, frames) = 0

\* In a batch's frame no object is NULL, and what is written has its place, G's entry
\* too: the calls of scratch_alloc are not checked (ecmult_impl.h:994).
ObjectsHaveRoom ==
    pc = "batch" =>
        /\ Last(frames).nulls = 0
        /\ f = "pippenger" => nbp + GOfBatch <= entries(nbp)

\* The frames never take more than the scratch space was created with (secp256k1.h:270).
WithinMaxSize == max_size # Null => Allocated(frames) <= max_size

\* A call gives back its frames, the callback failing or memory lacking in any batch
\* (ecmult_impl.h:657, :1012).
FramesGivenBack == pc = "idle" => frames = outer
=============================================================================
