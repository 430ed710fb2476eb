---------------------------- MODULE CachedFind ----------------------------
(***************************************************************************)
(* An overlapping set's find with an answer cache (compile/set_batch.go      *)
(* emitSetFindWrapperBody, compile/set_overlap_dp.go): the caller brings a    *)
(* region of memory, the walk is charged to it, and once it has cost more     *)
(* than a sweep the rest of the text is swept and every later call is         *)
(* answered from what is kept.                                                *)
(*                                                                          *)
(* The buckets' walk is SetFind's; a set without a sweep, or a caller without *)
(* a region, is SetFind.                                                     *)
(***************************************************************************)
EXTENDS SetFind, OverlapSweep

CONSTANTS
    Offers,      \* what a caller brings: [stride, short], or no region at stride 0
    TriggerDiv,  \* the trigger is one 16th of what a sweep costs
    SetupBytes   \* and a sweep costs 8 bytes more than the text has

\* set.sweep: << >>, or the set's one sweep.

ASSUME CachedAssumption ==
    /\ \A s \in Sets : s.sweep # << >> => IsSweep(s.sweep[1], Ids)
    /\ \A offer \in Offers : offer.stride \in Nat /\ offer.short \in Nat
    /\ TriggerDiv \in Nat \ {0} /\ SetupBytes \in Nat

VARIABLES
    cache,   \* the caller's region
    look,    \* the block a call looks for its answer in, or NoBlock
    meter,   \* [walkEnd, counter, budget]: the module's globals; dear: it bailed
    spent    \* what the drive has cost: [walked, swept, retries]

cacheVars == <<cache, look, meter, spent>>

NoBlock == -1
NoBudget == -1
Swept == set.sweep # << >>
S == set.sweep[1]
Counted == Swept /\ S.counted
Idle == pc = "host" /\ status = "driving"
Live == cache.ready = 1
-----------------------------------------------------------------------------
(* The trigger. *)

\* emitSweepThreshold
Threshold ==
    LenOf(text) * Max({1, S.cells \div TriggerDiv}) + SetupBytes * Max({1, S.cells})

\* emitWorkExceedsSweep, and the call whose own walks were too dear.
Due == cache.ready = 0 /\ (cache.work > Threshold \/ meter.dear)
Deciding == Idle /\ look = NoBlock

\* emitEntrySweep: a region that is too small is not tried again.
Sweeps ==
    /\ Deciding /\ Due
    /\ cache' = Pass(S, text, host.from, cache)
    /\ meter' = [meter EXCEPT !.dear = FALSE]
    /\ spent' = [spent EXCEPT !.swept = @ + (IF cache'.ready = 1
                                             THEN LenOf(text) + 1 - cache'.floor ELSE 0)]
    /\ UNCHANGED <<vars, look>>

\* What a call may still walk before a sweep is the cheaper: none without the
\* counter.  Mutant: no call has one.
Unbounded == NoBudget
Budget == IF Counted /\ cache.ready = 0 THEN Threshold - cache.work ELSE NoBudget

WalksOn ==
    /\ Deciding /\ ~Live /\ ~Due
    /\ Find
    /\ meter' = [walkEnd |-> IF Swept THEN host.from ELSE 0, counter |-> 0,
                 budget |-> Budget, dear |-> FALSE]
    /\ UNCHANGED <<cache, look, spent>>

\* The body's stamp, the farthest byte of a call's walks; with the counter, of
\* this walk's (emitSuffixCall).
WalkedTo == Max({IF Counted THEN scan.pos ELSE meter.walkEnd, walk.pos})
Charge == IF Counted THEN meter.counter + WalkedTo - scan.pos ELSE 0
TooDear == Counted /\ meter.budget # NoBudget /\ Charge > meter.budget
WalkOver == pc = "walk" /\ IF B[Turn.b].wide THEN SparseOver(Call(Turn.b), walk)
                           ELSE DenseOver(Call(Turn.b), walk)
Charged(dear) ==
    /\ meter' = IF Swept THEN [meter EXCEPT !.walkEnd = WalkedTo, !.counter = Charge, !.dear = dear]
                ELSE meter
    /\ spent' = IF Swept THEN [spent EXCEPT !.walked = @ + walk.pos - walk.from] ELSE spent

WalkReturns ==
    /\ DenseReturns \/ SparseReturns
    /\ ~TooDear
    /\ Charged(FALSE)
    /\ UNCHANGED <<cache, look>>

\* The body has returned; the call is left, and answered again.
Bails ==
    /\ WalkOver /\ TooDear
    /\ scratch' = IF B[Turn.b].wide
                  THEN [scratch EXCEPT ![Turn.b] =
                            SparseEnd(Call(Turn.b), walk, scratch[Turn.b]).scratch]
                  ELSE scratch
    /\ Charged(TRUE)
    /\ pc' = "host" /\ scan' = NoScan /\ walk' = NoWalk
    /\ UNCHANGED <<fixed, gate, host, out, status, cache, look>>

\* emitAccumulateWork, emitChargeWalkExtent, emitStoreWork: the bytes of what
\* was written, and what was walked.
Delivered == IF scan.total \in 1..host.cap
             THEN Cardinality(UNION {{i} \X (scan.buf[i].start..(scan.buf[i].end - 1)) :
                                     i \in 1..scan.total})
             ELSE 0
Extent == IF Counted THEN meter.counter ELSE meter.walkEnd - host.from

CallReturns ==
    /\ FindReturns
    /\ cache' = IF cache.ready = 0 THEN [cache EXCEPT !.work = @ + Delivered + Extent] ELSE cache
    /\ UNCHANGED <<look, meter, spent>>
-----------------------------------------------------------------------------
(* An answer from the cache. *)

Answers(total, buf) ==
    /\ scan' = [NoScan EXCEPT !.total = total, !.buf = buf]
    /\ pc' = "answered" /\ look' = NoBlock
    /\ UNCHANGED <<fixed, gate, host, out, status, walk, scratch, cache, meter, spent>>

\* emitPastEndCheck
PastEnd ==
    /\ Deciding /\ Live
    /\ host.from > LenOf(text)
    /\ Answers(0, << >>)

\* emitLocateBlock
Locates ==
    /\ Deciding /\ Live
    /\ host.from <= LenOf(text)
    /\ look' = Max({host.from - cache.floor, 0}) \div cache.stride
    /\ UNCHANGED <<vars, cache, meter, spent>>

Looking == Idle /\ look # NoBlock
AtBlock == Looking /\ look < cache.nb /\ cache.cum[look + 1] # cache.cum[look]

OutOfBlocks == Looking /\ look >= cache.nb /\ Answers(0, << >>)

NextBlock == look' = look + 1 /\ UNCHANGED <<vars, cache, meter, spent>>

\* emitBlockIsEmpty
SkipsBlock == Looking /\ look < cache.nb /\ ~AtBlock /\ NextBlock

\* emitEnsureBlock.  Mutant: row 0's position is not written again.
BlockMisplaced(c) == [Block(S, text, c, look) EXCEPT !.base = c.base]
Made(c) == Block(S, text, c, look)
Materialises ==
    /\ AtBlock /\ cache.cur # look + 1
    /\ cache' = Made(cache)
    /\ spent' = [spent EXCEPT !.swept = @ + BlockHigh(text, cache, look) + 1
                                          - BlockLow(cache, look)]
    /\ UNCHANGED <<vars, look, meter>>

\* emitBlockRowCount: the last block is partial, what is past it is of another.
RowCount == Min({cache.stride, LenOf(text) - cache.base + 1})
Matching == {r \in Max({host.from - cache.base, 0})..(RowCount - 1) : Hits(cache.rows[r]) # {}}

BlockBarren == AtBlock /\ cache.cur = look + 1 /\ Matching = {} /\ NextBlock

\* A position that does not fit is counted and nothing is written.
RowTuples(r) ==
    LET order == Ascending(Hits(cache.rows[r]))
    IN  [i \in DOMAIN order |->
            [id |-> S.ids[order[i]], start |-> cache.base + r, end |-> cache.rows[r][order[i]]]]
ServesRow ==
    /\ AtBlock /\ cache.cur = look + 1 /\ Matching # {}
    /\ LET r == Min(Matching)
           total == Cardinality(Hits(cache.rows[r]))
       IN  Answers(total, IF total <= host.cap THEN RowTuples(r) ELSE << >>)
-----------------------------------------------------------------------------
Retries ==
    /\ Overflows
    /\ spent' = IF Live THEN [spent EXCEPT !.retries = @ + 1] ELSE spent
    /\ UNCHANGED <<cache, look, meter>>

Walking ==
    /\ \/ Visit \/ NextPosition \/ SkipGroup \/ EnterDense \/ EnterSparse
       \/ DenseWalks \/ SparseWalks \/ FindEnds \/ Reports
    /\ UNCHANGED cacheVars

Brought(offer) ==
    IF ~Swept \/ offer.stride = 0 THEN Unoffered
    ELSE Zeroed(OfferedBytes(S, text, offer.stride) - offer.short,
                Min({offer.stride, LenOf(text) + 1}))

CachedInit ==
    /\ Init
    /\ cache \in {Brought(offer) : offer \in Offers}
    /\ look = NoBlock
    /\ meter = [walkEnd |-> 0, counter |-> 0, budget |-> NoBudget, dear |-> FALSE]
    /\ spent = [walked |-> 0, swept |-> 0, retries |-> 0]

CachedNext ==
    \/ Sweeps \/ WalksOn \/ WalkReturns \/ Bails \/ CallReturns \/ Walking \/ Retries
    \/ PastEnd \/ Locates \/ OutOfBlocks \/ SkipsBlock \/ Materialises \/ BlockBarren \/ ServesRow

CachedSpec == CachedInit /\ [][CachedNext]_<<vars, cacheVars>>
-----------------------------------------------------------------------------
(* Properties. *)

\* What serving checks on every call (set_overlap_dp.go emitValidateHeader,
\* emitOutOfOrderCheck): a drive never meets its refusals.
HeaderSound ==
    Live => /\ cache.stride >= 1 /\ cache.floor \in 0..(LenOf(text) + 1)
            /\ cache.nb = IF cache.floor > LenOf(text) THEN 1
                          ELSE BlockCount(LenOf(text) + 1 - cache.floor, cache.stride)
            /\ RegionBytes(S, cache.nb, cache.stride) <= cache.size
            /\ host.from >= cache.floor
            /\ cache.cur \in 1..cache.nb /\ cache.base = BlockLow(cache, cache.cur - 1)

\* The walk's variables and the cache's: a live header describes a region that
\* fits and a drive that has not gone back; a block is looked for only between
\* the calls, in a live cache, and never one below the position asked for.
CachedTypeOK ==
    /\ TypeOK
    /\ cache.ready \in {-1, 0, 1} /\ cache.work \in Nat
    /\ look # NoBlock => pc = "host" /\ Live /\ look \in 0..cache.nb
    /\ meter.dear => pc = "host" /\ cache.ready = 0
    /\ HeaderSound

\* A drive with a region of the right size costs a constant number of passes
\* over the text, whatever it matches (set_overlap_ckpt.go, "Each position is
\* swept at most twice per drive"): its walks end where a sweep is cheaper, one
\* walk over; and a block is swept again only for a call that did not fit.
DriveLinear ==
    cache.ready # -1 =>
        /\ Counted => spent.walked <= Threshold + LenOf(text)
        /\ spent.swept <= 2 * (LenOf(text) + 1) + 2 * spent.retries * cache.stride
=============================================================================
