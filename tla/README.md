# A verification project for regexped

regexped compiles regular expressions to WebAssembly modules and generates stubs
that drive them from JavaScript, Rust, Go, C and AssemblyScript. This directory
holds TLA+ models of its core, TLC instances that check them, and TLAPS proofs.
Paths below are relative to the repository, those under `compile/`, `generate/`
and `docs/` to `src/`.

## 1. The system

A compiled pattern is a WebAssembly function: a text and a start position in, the
next match out. A *drive* (a stub's iterator) calls it until the text is
exhausted. A *set* is many patterns behind one function that answers the matches
of the next position. Calls are pure except for what the caller keeps for them in
memory: the search block, the notes, the memo, the gate array of a set. Nearly
everything that is hard at run time is the same thing: **a fact learnt in one
call is used in a later one**, to keep a drive linear, and must still be true
there. What is hard in the compiler is the other half: an automaton is built
once, with assertions resolved a byte late, and bodies derived from it skip and
stop early where the automaton says it is safe.

| Component | Source | State it keeps | Operations |
|---|---|---|---|
| DFA find, two copies | `compile/search_notes.go`, `engine_dfa.go`, `find_from.go` | search block fields, notes bitmap | entry, text check, clear, walk, record, judge, return |
| DFA construction and tables | `compile/engine_dfa.go`, `set.go`, `liveness.go`, `dominant_walk.go` | the automaton under construction | closure, state reuse, minimisation, layout, skip and stride analyses |
| Backtracking find | `compile/engine_backtrack.go`, `bt_search.go`, `bt_scratch.go` | state, budget and memo of the block; frame stack per call | entry, attempt, instructions, push, pop, trip, fallback, return |
| Stubs, block layout | `generate/*_stub.go`, `search_stub.go`, `internal/searchblock`, `internal/abi` | the block, one per iterator; the arena; the `regexped:search` global; the scratch base | open, call, deliver, allocate, close |
| Backtracking scratch of a set's members | `compile/bt_scratch.go` | epoch, budgets, regions, cleared watermark | host call, member call, fallback, match |
| Default block | `compile/default_search.go`, wrappers in `find_from.go`, `compile.go` | per export: block, window and text of the last call, kept regions; the search global; the scratch floor | enter (grow, reset, hand regions over), find, window |
| Start-anywhere | `compile/start_anywhere.go` | switch counter, find-from global | classification, forward and backward pass, handover |
| Literal-anchored finds | `lit_anchor.go`, `alt_lit_anchor.go`, `mandatory_lit.go` | their walkers' notes | literal scan, verify |
| Candidate scans | `prefix_scan.go`, `class_chain_prefix.go` | locals | SIMD scan, scalar tail, dense switch |
| Tagged DFA | `engine_tdfa.go`, `tdfa_bulk_skip.go` | capture registers | transition with register copies |
| Selection | `selector.go` | none | choose an engine |
| Set bodies | `set_emit.go`, `set_find.go`, `set_sparse.go`, `aho_corasick.go` | gate array, sparse flags | find, batch, anchored, count |
| Split sets, answer caches | `set_split.go`, `set_batch.go`, `set_overlap_*.go`, `program_sweep.go` | lower bounds, answer cache, checkpoints | merge, sweep, materialise, serve |
| UTF-8 lowering | `utf8_lower.go` | none | class to byte program, and reversed |
| Assembly and components | `compile.go`, `wasm.go`, `component*.go` | none at run time | lay out a module |
| Configuration | `config/` | none | parse, validate, expand references |
| Command line, merge, wrapping | `main.go`, `merge/`, `component/`, `internal/ownership` | files | compile, merge, wrap, chown |

How they interact: the stub owns the block and names it in the module's
`regexped:search` global before each call. The find body reads and writes it, and
asks for memory through it (`armed`, `tripped`). The stub looks at it after a
match and allocates in its arena, below which the module's tables lie and above
which a Backtracking call takes its scratch. The two copies of a DFA find, the two
bodies of a Backtracking find, and today's find and the passes tail-call each
other. A set's find enters the bodies of its buckets, asks its split members, and
merges.

What is hard: facts kept between calls going stale (a later accept, another text,
a cleared or shorter buffer); two copies that hand a call to each other; memory
refused half-way through; start positions inside a multi-byte character; budgets
and counters at zero; an early exit that is not as safe as the automaton was
thought to make it. Execution is single-threaded, but iterators interleave
between calls. Nothing persists, so there is no crash recovery.

What makes each correct:

- all finds: the drive reports the leftmost match at or after its position, with
  the end the pattern's priorities give, and ends only when there is none;
- sets: every member's matches, in the order of their positions, once;
- notes, memo, gates, flags: they hold only facts of the text and call in use;
- memory: regions of different owners never meet, also when memory is refused;
- cost: an armed, tripped or switched search is linear over the drive;
- progress: every search ends.

## 2. Modules

| Module | What it is |
|---|---|
| `MatchDrive` | the abstract drive: report the leftmost match, move past it, end, or give up for want of memory |
| `Programs` | a compiled pattern's program and what it means: the reference |
| `FindAutomaton` | the automaton a find body walks, and what the compiler derives from it |
| `SearchNotes` | DFA find body in both copies, block, notes, stub |
| `BTSearch` | Backtracking find in both bodies, budget, memo, stub |
| `DefaultSearch` | the search state a standalone module keeps of its own, several drives interleaved over it, and the memory it grows |
| `StubMemory` | the memory of a JavaScript stub: the arena, several iterators interleaved, the view each reads through |
| `SetScratch` | `StubMemory` with the scratch of a set's Backtracking members in it |
| `DFAConstruction` | from programs to the deterministic automaton |
| `DFATables` | from the automaton to the tables a body walks |
| `SetDrive` | the abstract drive of a set: every member's matches, position by position |
| `SetBodies` | the dense and the sparse body of a bucket |
| `SetFind` | a set's find over its buckets' bodies, with its caller |
| `OverlapSweep` | the sweep, the kept columns and the blocks of an overlapping set's answer cache |
| `CachedFind` | `SetFind` with the answer cache: the trigger, the counter in a call, serving |
| `SetMerge` | find and find_batch of a split set: the merge, the gate array, the caller |
| `PatternTrees` | parsed patterns, their programs, and what is derived from the tree |
| `StartAnywhere` | the classification, today's body behind the switch counter, the two passes |
| `MC...` | instances for TLC, one for each of `SearchNotes`, `BTSearch`, `DefaultSearch`, `SetScratch`, `CachedFind`, `SetMerge`, `StartAnywhere` |
| `FindAutomatonProofs` | what holds of the operators of `FindAutomaton`: walks, skips, start rules |
| `SearchNotesProofs` | proofs about `SearchNotes`, and that it implements `MatchDrive` |
| `BTSearchProofs` | proofs about `BTSearch` |
| `DefaultSearchProofs` | proofs about `DefaultSearch` |
| `SetScratchProofs` | proofs about `StubMemory` and `SetScratch` |
| `SetMergeProofs` | proofs about `SetMerge`, and that it implements `SetDrive` |
| `SetFindProofs`, `StartAnywhereProofs` | proofs about `SetFind` with `CachedFind`, and `StartAnywhere` |

`SearchNotes`, `BTSearch`, `DefaultSearch` and `StartAnywhere` instantiate
`MatchDrive` with their host's state and check `DrivesLeftmost` (`Drive!Spec`; in
`DefaultSearch`, the same of every drive): whatever notes, budgets, trips,
handovers and resets do, the reported matches are those of the pattern alone.
What the pattern alone says is the ghost `table`, read by no step of the find but
`Backtracks`, which stands for the other engine's whole search. `SetMerge`
implements `SetDrive` (`DrivesSet`), and `SetFind` compares every answer with it, as
does `CachedFind`, whichever way the answer was come by.

In `StartAnywhere` and `CachedFind` the tables are not given: TLC builds them, from
the pattern's tree or program, with `DFAConstruction` and `DFATables`, and the
answers are compared with `Programs`, which knows nothing of automata. So these
two runs check the construction, the minimisation and the skip analyses together
with the bodies that rely on them.

### SearchNotes

A step is one byte of a walk, one point of a recording re-walk, or one decision of
an entry or return.

| In the model | In the code |
|---|---|
| `dfa` | `dfaTable` and its accept channels: mid, end of text, immediate, boundary (`pre`), dominant |
| `plan` | what the compiler derives: cycle states with rows (`dfaCycleStates`), first bytes, `detectSkipSafeOnDead`, `detectEOFSkipSafe` |
| `blk` | the search block of `internal/abi/abi.go`, field for field; `cap` counts positions, not bytes |
| `notes` | the bitmap: a set of (state, position) |
| `w`, `pc` | the body's locals and its place in the emitted code |
| `EnterMarked`, `EnterOrdinary`, `CheckFirst`, `CheckSame`, `CheckOther` | `emitEntry`, `emitTextCheck`, `emitClear` |
| `Attempt`, `NoMoreStarts`, `AtEnd`, `DominantAccept`, `Dies`, `Stops`, `Moves` | outer prologue, candidate scan, and the scan loop with its dead and end handlers |
| `StartRecord`, `RecordStep`, `RecordStops` | `emitRecord` |
| `SettleFound`, `SettleFailed`, `Found`, `None` | `emitJudge`, `emitFailHook`, `emitReturnHook`, the packed return and the iterator |
| `Allocate`, `AllocationFails`, `NothingToAllocate` | `jsAfterCall`, `jsNotesHelper` and their Rust counterparts |

`proved`, `trail`, `fresh` and `reads` are ghosts: the points of the tails
recorded for this text, the points this walk passed since its last accept, whether
the notes describe this text, and the bytes the marked copy read in a state with a
row. No guard reads them.

The automaton is any table that satisfies `AutomataAssumption`: immediate accepts
accept, accepts also accept at the end of the text, the dead state is absorbing,
and without a boundary nothing accepts by the byte that follows and every entry in
the middle of the text is the one entry `midStart`. `SeedAssumption` says what the
compiler requires before it puts a pattern under the seed rule: a walk begun on a
continuation byte dies there and accepts nothing, or the pattern matches the empty
word before every character (`find_from.go`).

### BTSearch

A step is one instruction or one decision. `prog` is a `syntax.Prog` with captures
as no-ops. `plan` is what `planBT`, `progHasZeroWidthCycle`, `btStartAnchored` and
`nfaFirstBytes` derive. `blk` is the block's Backtracking fields, `memo` the set of
(Alt, position) marks kept for the search, `own` the marks of a call without a
search memo. The ordinary body charges a pop (`Pop`, `BudgetSpent`), an overflow
arms the trip or trips at once (`AltOverflows`), and the fallback guards
each Alt (`AltVisited`, `AltMarks`) and clears the marks of a matching attempt's span
(`MemoAfterMatch`). Memory may be refused at each place the code can meet it: the
frame stack, a push, the memo, the fallback's own region. `Rate` stands for k
times the instruction count of `emitBTWorkInit`.

### DefaultSearch

A step is one decision of `emitEnter`, one find, or one window. Two drives, each of
an export and a text, call in any order between calls; a buffer is rewritten only
when no drive over it is under way. The module composes with the two finds through
what they check: a find that reads marks which are failures of its text answers
right and adds such marks only; on others it may answer anything that matches, or
none. `Read` is what is left to read after the find's own text check.

| In the model | In the code |
|---|---|
| `area`, `blk`, `rec`, `region` | the area of an export: its search block, the module's record, the notes or memo region |
| `EnterNamed`, `EnterDefault`, `GrowArea`, `AreaRefused` | `emitEnter` up to the area |
| `Continue` | the continuation test and `emitResetBlock` |
| `GetRegion`, `HandOver` | `emitNotesAndMemo`, `emitRegion` |
| `Grow`, `FloorRaised` | `emitGrow` |
| `PlaceStack` | `emitBTScratchBaseFree`, the stack's first size |
| `NextFind`, `Find`, `FindNone`, `FindUnknown` | the call of the find body, and the loop of the batch wrapper |
| `Leave`, `Return` | `emitWindow` with the windows of find and batch; the batch wrapper's early return |
| `AnswerAtOnce` | the find wrapper's returns before `emitEnter` |

The caller is the raw one the docs describe: it drives as the stub's loop does
(`js_stub.go:655`) and hands 0, nothing at all, or a block of its own (`Mode`).
Bytes and pages are counted, so that regions, areas and stacks can collide.
`asked`, `largest` and `last` are ghosts. A groups export is a find export here:
its window is read from the match's slots.

### StubMemory and SetScratch

`heap` is the linear memory word by word, with its size, the size of the view
`_mem`, the bump and the number of live iterators (`_bump`, `_live`) and the
scratch base of the module. `Open`, `Close`, `FindMatches`, `FindEnds`, `Yields` and
`OneShot` are the generated functions' steps between two yields; each allocates,
grows, stages, names its block, calls and reads. `Open` grows a second time for an
answer cache (`Cached`), which a refused grow only declines. A word stands for the
unit its data needs: a byte of input, a block, a frame.

A view is the size of the memory it was made over; once the memory is larger it is
`Detached`, reads `Undefined` and writes nothing, and only `Att` makes it again.
`_mem` is taken again by the stub's own `_grow` alone; the module grows memory
without telling the stub. Every iterator has a view of its own results besides
(`reader`: `buf`, `slots`), which nobody else attaches: `Tuple` attaches it at each
tuple of a set, after a call and after each yield, where another iterator may have
run; `Slots` attaches a find's before its call, after it and after the notes. `got`
is the word last read. The finds that keep no view between two yields, or make one
after each grow, are covered by those that do.

`SetScratch` adds the set iterators. `SetBegins` bumps the epoch of the host call;
`OrdinaryRuns` is a member's ordinary body at one candidate, under the shared budget
(`Ordinary`), which answers or trips. A tripped member goes to the fallback:
`FallbackBegins` places its region unless it has one (`Regioned`) and makes room for
a frame, or refuses (`Refused`); `FallbackWalks` is one position of it, the marks
zeroed a chunk ahead (`ClearEnd`), the mark met or set, the instruction, the push.
Every outcome goes through `Answers`, where a match takes marks back (`Matched`),
and `Onward`, the next member, candidate or yield of the call's first tuple; the
others are `Yields`. `call.pos` is where a walk is.
What a member matches is its text's `world`. `spent` counts pops, fallback steps and
fills; `said` is the last answer beside the true one.

### SetBodies and SetFind

A set is a sequence of buckets, each with its table, its literal, the distances its
patterns start before the literal (`groups`), the anchors taken off and the
prefixes to be checked. `Work` is what a position's buckets have to do
(`emitFallbackBuckets`, `emitLiteralBucketsHoisted`), `Turn` the next of it in the
order the code emits them (`Precedes`, `litOrderFor`), `Mask` the patterns wanted
(`emitGroupMask`, `emitStartableMask`, `emitGateMask`, `emitPrefixChecks`),
`Drained` the early end of the scan (`emitDrainCheck`), `WrittenBack` the gates.
A walk of either body is one action per byte: `DenseStep` with the word and line
checks, the liveness exit, the two strides and the writing of tuples;
`SparseStep` with its flags, stale states and verdict. `Chunk` is the bytes of a
vector; `Period` and `Reprobe` are the retry intervals of the sparse strides. The
tuples of one check are written together (`DeliverAll`, `SparseDeliver`): the code
writes them in a row, and nothing reads the buffer in between.

A set and its tables are values of the constant `Sets`; `SetAssumption` and
`IsTable` say of them what the layout gives: every state has a row, what ends at
once ends on arrival (`reorderAcceptFirst`), a pattern is in one bucket and in one
group of it (`buildPrefixLenGroups`), more patterns than a mask has bits have no
literal distance. `CachedAssumption` says of a sweep that its cells are states of
its table. TLC evaluates both for every set it builds.

### OverlapSweep and CachedFind

The caller of an overlapping set may bring a region of memory. `cache` is its
header with what lies behind it: `ckpts` the columns kept, `cum` the counts, `rows`
the block of answers, `cur` and `base` which block that is. `look` is the block a
call is looking in, `meter` the globals the bodies stamp and count in, `spent` a
ghost: the bytes walked, the positions swept and the overflows of the drive.

| In the model | In the code |
|---|---|
| `Projected`, `SweepOf` (`DFATables`) | `buildOverlapProj`, `vetSweep`: one automaton for the set, a column's cells |
| `EOFColumn`, `Advance`, `Columns`, `RowAt` | `emitEOFColumn`, `emitAdvance` (and `Proj`), the sweep loops, `emitAtPosition` |
| `Pass`, `PassOver`, `PassPastEnd`, `Refused` | `emitCkptPassPrologue`, `emitCkptPassBody`, `emitFitsOrRefuse` |
| `Block` | `emitCkptBlockBody` |
| `Threshold`, `Due`, `Sweeps` | `emitSweepThreshold`, `emitWorkExceedsSweep`, `emitEntrySweep` |
| `WalksOn`, `WalkReturns`, `CallReturns`, `Delivered`, `Extent` | the wrapper's call of the inner find, `emitSuffixCall`, `emitAccumulateWork`, `emitChargeWalkExtent`, `emitStoreWork` |
| `Budget`, `TooDear`, `Bails` | the counter in a call, its budget, and the return with the sentinel |
| `PastEnd`, `Locates`, `SkipsBlock`, `Materialises`, `BlockBarren`, `OutOfBlocks`, `ServesRow` | the answer from a live cache (`emitSetFindWrapperBody`) |

A set's buckets are `SetFind`'s; a set without a sweep or a caller without a region
takes `SetFind`'s steps only. Cells are counted as the code counts them, since the
trigger and the size of the region depend on the count. What a sweep answers is not
taken from the walk: it is computed from the table and the kept columns, and
`AnswersOwed` compares both with the patterns.

The refusals of a header that does not fit its region (`emitValidateHeader`) or of a
drive that went back (`emitOutOfOrderCheck`) are not actions: `HeaderSound`, a part
of `CachedTypeOK`, says that a caller who leaves the header alone never meets them.

One observation. `set_overlap_ckpt.go:11-22` counts two sweeps of a position for a
drive. A call that overflows may have materialised a block, and one that is asked
again starts from the block of its position: where the answer was found blocks
further on they are skipped by their counts or are still there, but an answer past
a block whose rows lie all before the position may have materialised two, and the
second call makes both again. `DriveLinear` grants two strides for each overflow.

### SetMerge

A step asks one candidate of a merge, or is one decision of the call around it.
The kept members are one candidate, `KeptBody`; each split member is another. What
a member matches is the constant-per-behaviour table `ends`, so the finds
themselves are those of the modules above.

| In the model | In the code |
|---|---|
| `gate`, `Reported`, `LowerBound`, `Dead`, `Lets` | the caller's gate array and its encoding (`set_split.go`, header; `emitGateMask`) |
| `Bound`, `Turns`, `IsTurn` | the selection loop of the merge (`$next`): smallest bound first, nobody who cannot beat the best start |
| `AskKept`, `KeptList`, `Preflight`, `Gated` | the call of the worker of the kept set: which members it reports, retires and gates |
| `AskMember`, `SearchFrom` | a split member's search |
| `GivesUp`, `MemberGivesUp`, `KeptGivesUp` | a search answers below -1 and the call passes it on: the member's (`compile/set_split.go:1600`), or the kept body's (`:1562`), one of whose buckets is Backtracking because `max_fallback_states` put a linear member there (`:541-545`) |
| `KeptSettled`, `OverflowUndone`, `GatesSettled`, `MergeReturns` | the settlement after the loop: undo the report gates of a beaten kept body, write those of the position, or take them back when it does not fit |
| `Find`, `FindOverflows`, `FindReports`, `FindEnds`, `FindPastEnd` | find, and its caller: ask again with the room the count named, or resume at the start plus one |
| `FindBatch`, `AskWorker`, `BatchSplits`, `BatchReports`, `BatchFull`, `BatchEnds`, `BatchPastEnd` | the loop of `find_batch` over the worker |

`shape` says which of the code's variants runs: gated (`find`'s default) or
overlapping, through find or find_batch, with or without the preflight, and whether
memory refused once may be had later (`recovers`). The kept body returns from inside
its scan (`compile/set_find.go:448-450`), before it writes any gate, so what stays of
`KeptGivesUp` is the preflight's verdict. A gated batch is modelled with
`recovers` FALSE. There a member that gives up returns through the merge at once
(`compile/set_split.go:1600`), after the kept body has written the report gates of
its matches and before the settlement that would undo or deliver them; a caller
that stops at the -2 loses nothing it knew of, and one that calls again with the
same array, on a host that gives the memory after all, is not given those
matches. Beside it, `set_batch.go:1045-1047` speaks of "untouched gates". That is an
observation of the model, not a run.

`reached`, `offered` and `refused` are ghosts: where a member's last search ended,
the position that did not fit, and the candidates that were refused memory. No guard
reads them but the one that `recovers` lifts: a candidate once refused is refused
again.

### DFAConstruction and DFATables

`Automaton` grows the table state by state as `newDFAImpl` does: a state is the
list of program counters in priority order with what the byte before was; the
assertions that need the next byte are resolved when it is read (`Before`, `Step`);
`AtMidStart...` and `SharesStart` build or reuse the entry states; `Shared` is
`getOrAddState` with its check of what a shared state has recorded. `wide` is the
construction for more patterns than a mask holds, whose accepts are lists beside a
single bit. `Ambiguous` is the boundary target the code refuses. `Minimized`
refines, `FutureAccepts` and `LivenessCanFire` are `liveness.go`, `Strides` the
two stride analyses, `FindLayout` the table as `FindAutomaton` has it.

### StartAnywhere

`Plan` is `ClassifyFind` with the two linearity proofs (`AttemptsLinear`, `ByLead`
with `FailedWalkBound`) and the refusals: leave today's body, put the passes in its
place, or put them behind the counter. `Attempt` to `FailsSkipping` are today's
body, `FailsCharged` and `HandsOver` the charge and the switch
(`emitFindSwitchCharge`), `StartsForward`, `Forwards`, `Turns`, `Backwards` and
`Meets` the passes, with and without assertions (`ctx`), `Backtracks` the handover
to the other engine where a pass was refused. `work` counts the bytes read since
the find began.

### Abstractions common to the finds

- A character is at most two bytes (`Lead`, `Cont` in `SearchNotes`).
- The candidate scan is "the next position whose byte the first-byte flags admit";
  the SIMD strategies are taken to compute that.
- The JavaScript stub throws an allocation failure at the *next* call, after the
  match was delivered. The model ends the iterator at once, as "unknown".
- A batch call is modelled as its finds, with the notes handed over up front.
- In `SearchNotes` and `BTSearch` a block has no address; a text has a `ptr`
  because the text checks compare it. Addresses are the business of
  `DefaultSearch`, `StubMemory` and `SetScratch`.

## 3. Runs

| Run | Instance | Question |
|---|---|---|
| `patterns` | ten patterns and every automaton with two live states over two bytes that keeps notes; texts up to 5 bytes and long ones up to 16; `Mult = Slack = 1`, `ShortWalk = 2` | are recorded tails closed and completely noted, are they kept, is an armed search linear, is no answer changed? |
| `reuse` | four patterns, eight texts searched one after another on one block; `Mult = Slack = 0`, `ShortWalk = 1` | do stale notes ever serve, does a clear reach every note, does dropping them end? |
| `backtracking` | 8 programs, all texts up to 3 bytes and long ones up to 20; `Rate = 2`; a host short of memory, and one that reuses its block | are marks failures, is the budget per search, is a tripped search linear, are answers right, does it end? |
| `default` | 4 exports (find and batch, notes and memo), 2 drives, 2 buffers, 4 texts of 2 and 3 bytes; 7 hosts; pages of 2 bytes, a memory of 20 pages | are the marks a find reads of its text, is a drive left alone ever reset, does anything overlap, what is held, are all answers right? |
| `iterators` | 2 interchangeable iterators, 2 Backtracking members, 3 opens, a memory of 17 words in pages of 3, answer caches of no or 2 words, one-shot calls between | is any region overwritten, does an iterator read anything but its own, is any mark kept past its host call; are members linear? |
| `sets` | 2 kept and 2 split members, one of each Backtracking; all assignments of 3 tables over 4 positions; the 8 shapes; drives from 0 and 1; buffers of up to 2 matches | are every member's matches given, in order and once; do gates owe what is owed; is a retry answered the same; is no member searched twice over the same bytes; does a drive end? |
| `bodies` | twelve sets, six of them overlapping; texts up to 3 bytes over two letters, a dash and a line end, up to 4 without the line end, up to 5 of letters, and some of up to 7; regions of strides 2, 3 and the whole text, too small, or none; vectors of 2 bytes, retries after 2 | are the answers those of the patterns, walked or from the cache; is a sparse body's memory clean; is nothing of a bucket left behind; does a drive with a cache pay a constant number of passes? |
| `anywhere` | 23 patterns under three hints, texts up to 3 bytes, 84 of medium length and six of up to 22; `SwitchN = Slack = ShortWalk = 1` | do today's body, the passes and the one behind the other give the leftmost matches; is no find quadratic? |
| `characters` | one pattern under the seed rule | violation, finding 2 |
| `overflow`, `rewrite` | one host of `default` each; `rewrite` on five bytes with minimal length 3 | violations, findings 3 and 4 |
| `skipped` | one set, two texts | violation, finding 1 |

Why the bounds are enough. `Mult`, `Slack`, `ShortWalk`, `Rate`, `Charge`,
`SwitchN`, `Chunk`, `Period` and `Reprobe` are large in the code, where they tune
when something switches, and small here, so that a search arms, trips, hands over,
or leaves a vector after a few bytes and then runs on for many calls. Two live
states are enough for an accepting state and a cycling one to follow each other in
either order; the named patterns add what two states cannot express. Text lengths
of 16 to 22 let an armed, tripped or switched search make several calls, and let a
quadratic one pass the linear bound. `MaxWasted` stops a host that reuses its
block once the waste counter has passed it, so that the state space is finite;
`MaxOpens` and `MaxEpoch` do the same for iterators and host calls. `Upfront` is TRUE in
every run: both the block with notes handed over at the start and the one that
gets them when armed are initial states.

In `default`, memory runs out inside the run (`MaxPages`) and the floor saturates
(`EndPages` is one page below it, as `defMaxGrowEnd` is below the address space).
A batch buffer of two matches makes a drive of three answers take two calls. The
hosts of that run leave out the two combinations of findings 3 and 4: two drives on
one batch export that keeps a memo while memory is refused, and a find export with
a memo and a minimal length.

In `iterators`, two iterators and a one-shot call are enough for a region to be
freed below a live one, for memory to grow under a suspended drive, and for a host
call's epoch to end between two calls of another; three opens let a region be
reused. In `sets` two members on each side let the kept body and a member, or two
members, tie, beat and follow one another, and a position hold up to four matches:
more than the largest buffer a caller starts with, so that positions overflow in
find and split in a batch. Four positions hold an empty match, one that overlaps
it, and one at the end of the text.

The sets of `bodies` and the patterns of `anywhere` are chosen one per feature:
each kind of assertion, literal and fallback buckets, dense and sparse, both
strides, a drained end, gates; each verdict of the classification, seed and scan
rules, an ambiguous forward and an ambiguous backward pass. `TriggerDiv` is the
code's 16; `SetupBytes` is 0 where the code has 8, so that on a text of two bytes a
call can already cost more than a sweep: seven bytes are then enough for a drive
that walks, is charged, bails, sweeps, and is served from several blocks, the last
of them partial. A region four bytes short is refused. That the runs fire
every action and disjunct shows that each feature is met.

### The properties

- `NotesClosed`, `NotesTrue`: what is noted stands. The first says it of recorded
  tails, step by step; the second of the automaton alone, to the end of the text.
- `NotesComplete`: "already noted: so is everything after it" (`emitRecord`).
- `NotesInBuffer`: a clear covers every note, inside the buffer the stub sized.
- `NotesKept`: one search never takes a note back.
- `MarkedLinear`: in the states of its rows the marked copy reads each byte of the
  text once, each row's points once, and one byte more for each answer.
- `MarksFail`: between the calls of a search no marked instruction leads to a match.
- `SearchLinear`: all calls of a search together pop at most its budget, a counting
  search always has some left (`SearchBudget`), and Alts entered by the fallback are
  bounded by a constant per Alt and position, whatever the number of calls
  (`GuardsBounded`). The constant covers a first call without a memo and, after each
  match, marking again the span it cleared. A memo too small for the text, which a
  host that keeps its block for a longer text leaves the search with
  (`docs/wasm.md:193`), bounds nothing and is exempt.
- `MarksOfThisText`: after any drives over any texts, a find reads only marks that
  are failures of the text it searches.
- `DriveKept`: a drive that has the default to itself is never taken for a new one,
  an empty match included: what keeps a raw caller's drive linear.
- `MemoryApart`: no frame stack runs over a default's area or region wherever the
  host's scratch base lies, and no two defaults share memory.
- `HeldFourTimes`: the regions ever grown for a default stay under four times the
  largest one a call needed.
- `RegionsIntact`: what an iterator put into its region is there at its next call,
  whatever other iterators, one-shot calls and scratch did between.
- `ReadsItsOwn`: an iterator's input is staged whole, and every word it reads through
  its own view is a tuple of its call or a slot of its search, although any call of
  another iterator between its yields, its own call and the notes may detach the view.
- `MarksAreFailures`, `SaidTrue`: what a set's Backtracking members keep holds for
  exactly one host call, and a member's answer is its text's.
- `MembersLinear`: all candidates of one host call share one budget of pops, and a
  region is zeroed once, and again only for what a match takes back.
- `GatesHonest`: between positions the gate array and the cursor say exactly which
  matches each member still owes.
- `RetryAnswersTheSame`: a position that did not fit is answered the same again.
- `NoGroundTwice`: a member is never searched from before where its last search
  ended but by the call that reports it.
- `DrivesSet`: whatever the merge left unasked and wherever a batch stopped, the
  caller is given every member's matches, in the order of `SetDrive`.
- `ScratchClear`: between calls a sparse body's flags and starts are clear,
  whichever exit the last call took.
- `AnswersOwed`: an answer of a set's find is what its patterns mean there, and
  what the gates of the call let through.
- `NothingLeftBehind`: a walk that is left before the text ends leaves no pattern
  behind that it was asked for and that has a match ending later.
- `DriveLinear`: until the sweep, the walks of a set with the counter cost at most a
  sweep and one walk more; the sweep and the blocks at most two passes over the text,
  but for calls that overflow. For a set without the counter, whose walks the
  compiler takes to be linear, only the second part is stated.
- `FindLinear`: the bytes one find reads are bounded by a constant for each byte it
  is given: twice for the passes, a fixed factor behind the switch counter, and
  the bound the classification proved for a body it left alone.
- `DrivesLeftmost`, `SearchEnds`, `DriveEnds`: as their names say.

### Fairness and deadlock

Fairness is weak fairness of `Host \/ Call`, in `SetMerge` of `Next`: a WebAssembly
call runs to its end, and an iterator that is being driven is driven on.
`ReuseBlock` has none: nobody owes a search another text. `DefaultSearch`,
`SetScratch`, `CachedFind` and `StartAnywhere` are checked for safety only.
`DefaultSearch` and `StartAnywhere` are checked for deadlock too (the ended drive of
`StartAnywhere` stutters by `Ended`); elsewhere deadlock is not checked, because an
iterator that has ended stops.

## 4. Proofs

Proved for every automaton, text and threshold, or every module, host, design,
pattern and text, under the assumptions the modules name:

| Module | Theorem | Says |
|---|---|---|
| `SearchNotesProofs` | `TypeCorrect` | `TypeOK` |
| | `BodiesPlaced` | the locals of a running body lie inside the text and in step with each other |
| | `NotesSound` | `NotesClosed` |
| | `NotesBarren` | `NotesTrue` |
| | `NotesBounded` | `NotesInBuffer` |
| | `KeptOutsideSeedRule` | `NotesKept`, if no pattern is under the seed rule and blocks are not reused |
| | `NotesLeaveNoGap` | `NotesComplete` |
| | `ArmedSearchLinear` | `MarkedLinear`, if no pattern is under the seed rule |
| | `SearchRefinesDrive` | `DrivesLeftmost`: the find with its notes implements `MatchDrive` |
| `BTSearchProofs` | `TypeCorrect` | `TypeOK` |
| | `BudgetPerSearch` | `SearchBudget`, a part of `SearchLinear` |
| | `MarksAreFailures` | `MarksFail`, if a search that was told of refused memory is not searched on (`StopsWhenRefused`) |
| | `SearchStaysLinear` | `SearchLinear` |
| `DefaultSearchProofs` | `TypeCorrect` | `TypeOK` |
| | `HeldBounded` | `HeldFourTimes` |
| | `MemoryKeptApart` | `MemoryApart` |
| | `OwnMarksRead` | `MarksOfThisText`, outside the two findings (`ShortMatches`, `CutShortAlone`) |
| | `DriveGoesOn` | `DriveKept`, under the same hypotheses |
| | `DrivesRefine` | `DrivesLeftmost`: every drive implements `MatchDrive`, under the same hypotheses |
| `SetScratchProofs` | `HeldIsUntouched` | `RegionsIntact` |
| | `OwnWordsAreRead` | `ReadsItsOwn` |
| | `ArenaKept` | `TypeOK` |
| | `MarksAreTrue` | `MarksAreFailures` |
| | `AnswersAreTrue` | `SaidTrue` |
| | `MembersStayLinear` | `MembersLinear` |
| | `BelowSign` | the hypothesis of these six, `ArenaBelowSign`, of a memory whose ceiling is low enough |
| `SetMergeProofs` | `GatesStayHonest` | `GatesHonest` |
| | `RetriesAnswerTheSame` | `RetryAnswersTheSame` |
| | `TypesHold`, `GroundCoveredOnce` | `TypeOK`, `NoGroundTwice`, under `StaysRefused` |
| | `ImplementsDrive` | `DrivesSet`: the merge implements `SetDrive`, under `StaysRefused` |
| `SetFindProofs` | `ScratchAlwaysClear` | `ScratchClear` |
| | `CachedScratchClear` | `ScratchClear`, with a cache: a call may be left in the middle |
| | `TypeCorrect` | `SetFind`'s `TypeOK`, a part of `CachedTypeOK` |
| | `CachedTypeCorrect` | `CachedTypeOK`, and with it `HeaderSound` |
| | `CachedDriveLinear` | `DriveLinear` |
| `StartAnywhereProofs` | `TypeCorrect` | `TypeOK` |
| | `SwitchBounded` | the part of `FindLinear` about a find behind the switch counter |
| | `PassesBounded` | the part of `FindLinear` about a find that is the two passes |
| | `BodyBounded` | the part of `FindLinear` about a body left alone |
| | `FindsLinear` | `FindLinear` |

`NotesClosed` is not inductive: that a tail about to be recorded is closed depends
on what the walk has passed, and that an arriving walk may stop depends on the
notes being this text's. The inductive invariant `IInv` adds:

- `TrailHolds`: the points passed since the last accept lead to each other and to
  the point the walk is at, and none accepts;
- `AnchorHolds`: the recorded start of the tail (`lAcc`, `last` or `lStart`) is
  where the trail starts;
- `RecordHolds`: a recording re-walk is on the tail just added to `proved`;
- `MarkedFresh`, `SeenArmed`, `StaleBetrayed`: a marked walk past its text check
  runs on notes of this text; a stale block shows itself in pointer, length or
  resume point, unless it is the one undetectable reuse `docs/wasm.md` names;
- `NotesHold`, `NotesPlaced`: the notes are points of `proved`, and lie under the
  high-water mark.

`NotesBarren` follows from a closed set by taking the least position at which a
run would accept. `KeptOutsideSeedRule` adds to `IInv` that the stored resume
point is where the host calls next, once the block is known to be this text's
(`OneSearch`); the seed rule's rounding is exactly what breaks that.

`NotesLeaveNoGap` needs to know why the re-walk may stop early. `CInv` says that the
points a walk has passed are a path, each the successor of one before it back to
the anchor, and that a marked walk stands on no noted point behind its anchor, or
it would have stopped (`PathHolds`). So while a tail is re-walked, what it still owes
lies in a set of points of which none is noted and each but the first has its
predecessor in the set (`RecordOwes`): if the re-walk meets a note, the set is
empty, because its least point would be the one the re-walk stands on.

`ArmedSearchLinear` is a ledger over the same path. What was read is at most the
points recorded that have a row (`Kept`), the bytes behind the place the search goes
on from, and the answers given. A byte read with no accept behind it is paid for by
the point it is read from, which is new, because everything kept is noted and the
walk stands on nothing noted (`TailNew`, `ReadOn`); the point goes into the ledger
when the walk is recorded (`KeptGains`). The first byte of a tail is paid for by its
position, and a match pays with its answer for the byte its last state was left by.
A walk that is not recorded is one no later walk can read again. Under the seed
rule a call may begin before the resume point; there TLC checks the bound.

`SearchRefinesDrive` is the refinement: a call that reports a match is a step of
`MatchDrive`, one that ends the drive is its end, everything else stutters. The
abstract drive speaks of `table`, the end of the match at each position, which
`FindAutomaton` defines by a recursion over the text (`WalkEnd`). `DriveHolds` adds
to the invariant of the notes, for each place in the body, that

- nothing matches between where the call was asked to begin and the start the search
  is at (`Searched`);
- the match the walk under way will find, from its state, position and last accept,
  is the one the table has for its start (`WalkTrue`): one step of the walk is one
  unfolding of the recursion;
- a walk that stops on a note has nothing to find, because a noted point runs to the
  end without an accept (`Fruitless`, from `NotesBarren`'s invariant) and `WalkEnd`
  then keeps the last accept;
- where a body moves its start past more than one position, none of them matches.
  There are four places: the scan for a first byte (`ScanSkipsNothing`), the start
  after a dead walk (`SkipHolds`, from `SkipShape`: after one byte of the class every
  walk is in the same state, and one begun within the bytes read so far finds what
  the walk under way finds, or nothing), the exit at the end of the text (`EofHolds`,
  from `ChainShape`), and the rounding up of a start under the seed rule (`Rounded`,
  `SeedRuled`). The two shapes say what the
  compiler's analyses `detectSkipSafeOnDead` and `detectEOFSkipSafe` establish of an
  automaton. The second closes the middle entry under the class bytes in as many rounds
  as there are states; that this many are enough is `ChainStops`.

`FindAutomatonProofs` holds what this rests on. The recursion of `WalkEnd` is over
positions, states and the last accept; that it is defined at each of them is
`WalkDefined`, by a function built from the end of the text backwards. Proofs by
induction there take the least position where a statement fails (`LeastNat`), since
the library's induction theorems cannot be instantiated.

For `DefaultSearch`, `HeldInv` says that a region is under twice the largest need
and that all regions grown so far are at most twice the current one. `LayoutInv`
says that everything kept ends inside memory, and below the floor unless the floor
is at its maximum, where no stack fits any more (`ScratchFits`); that is the case a
run with a small memory only samples. `PagesHold` is the arithmetic: a growth of
whole pages holds the bytes asked for.

Whether a default may be gone on with is the hard part, because what it keeps is
checked by an address, a length and a window of positions, none of which names a
text or a drive. `KeptInv` says, of a default no call has in its hands, what makes
that check enough (`ReadyAt`):

- `LastKept`: the drive whose call used it last lies in its window, so it is taken
  to continue (`DriveGoesOn`);
- `DriveReady`: any other drive that would be taken to continue reads marks of its
  own text, or notes that name another position than the one it asks at, which the
  marked copy sees. That a drive holds its buffer's text while it is under way
  (`TextsHeld`) is what makes this last;
- `StartReady`: a drive that begins, over a text that may be new, is at 0. A window
  that reaches 0 belongs to notes that go on later, to the empty text, or to a drive
  that is still under way, whose buffer is then not rewritten. This is the part the
  findings are about: an early -1 (`rewrite`) ends a drive and leaves such a window
  behind. So the theorems are about exports that do not do that (`ShortMatches`: one
  that keeps a memo has matches of length 0 or 1, and then its early -1 comes past
  the end of the text only, outside every window from 0).

Inside a call `CallReads` says that what is in hand is this text's, or is about to be
reset, or notes about to be seen to be another's; it may be false once the call has
given up, until the window is closed. A batch call that gives up leaves without
closing it (`overflow`); `CutShortAlone` says of such a call that its caller writes 0
before the next one and that no other drive leaves the choice to the module. Where
memory is never short it holds of every step, and the instance of run `default`
meets both hypotheses. `FitsAt` ties block,
record and region together, a window left by a caller's own block (`Lost`) cannot
matter because the module's is not named again. That a find with no match before its
position answers -1 rightly takes the least match of the rest (`AnswersLeftmost`).

For `BTSearch` there are three arguments, each on top of the types.

*One budget.* `BudgetInv`: what the calls have popped and what the block has left
are together at most the budget the search was opened with, the call under way
holding its part in a local; the budget of a live block is never 0, or the trip
would not be seen.

*Marks.* A mark is set when an Alt is entered, before anything has failed.
`MarksInv` says of every mark of the memo in use that it is a failure, or that
something pending (the configuration under way or a frame), at its position or
later, still leads to a match and is *nearer* to one. "Leads" is `Ends`, the meaning
of the program, which a recursive function computes and no prover here can unfold;
`Distance` counts how many rounds of instructions separate a configuration from
its match, and `MeaningAssumption` states what the argument needs of the two: the
recursion is well founded, so a configuration that leads to a match has a successor
that does and is nearer. TLC evaluates the assumption for every program and text
of the run. An Alt that is found marked is skipped, and then what vouched for the
marks above it need not be pending any more, but then the mark it met is itself
vouched for, by something still pending and nearer yet. When a call ends without a match
nothing is pending, so every mark is a failure; after a match what lies at or
behind its start is taken back. Refused memory ends a call with things pending,
and the marks of such a block mean nothing: iterators throw there and the block is
dropped, which is the hypothesis `StopsWhenRefused`, that a host of `Modes` that can
refuse does not search on. `DefaultSearch`'s finding `overflow` is what happens
where a caller does.

*The ledger.* `LedgerInv` bounds the entries. Every mark pays for the entry that set
it and for the branch opened there; a branch that meets a marked Alt ends. So
entries and open branches (`Threads`) are at most twice the marks that exist or
were taken back, and one per start. A match takes back only marks of the ground the
search has just moved over, at most twice its length, so those add up to the text;
a first call that places a memo of its own can do that once (`FirstOwn`).

For `StubMemory` and `SetScratch`, `Inv` has two parts. *The memory.* `Sound` says
of a heap and its iterators that what each live one holds (input, out words, block,
notes) lies between the tables and the bump (`Lies`), meets nothing another one
holds (`Distinct`) and is what was written there (`HeldIntact`), and that while
anything is live the scratch base is at or above the bump (`Arena`). That last part
is what keeps a module's scratch off the regions. `Spares` is the other half of the argument: every
store and every growth changes nothing below some address, and `SoundSpared` says
that a heap spared from the bump on stays sound. A step that writes inside a region
(a note, an armed block, the notes carved after a call) has a lemma of its own.
`Reads` adds to it what goes through the views: a view is made over a memory that
once was, so `Att` leaves it as large as the memory is now (`Attached`), and a word
read so, at an address `Lies` puts below the bump, is what `HeldIntact` says is
there (`OwnRead`).

*The scratch of a host call.* `MemberInv` says of each member: without a region in
this host call its fallback has spent nothing; with one, it has tripped, and the region lies
above the bump, below the top, sized from its first candidate (`Placement`); a mark
below the watermark is a failure or one of the walk under way (`Marked`); and the
fills are paid for (`Paid`): rows that were walked pay for themselves, a match pays
a chunk, and the watermark is less than a chunk past what was paid. The second clear
of a row after a match is the hard case: `Paid` keeps the rows from the candidate
on that are paid for marked, so the next walk stops at the first of them and pays
for none twice. `RegionsApart` says that regions of two members do not meet; frames go above the
top of all of them. When a walk fails, the positions it passed are failures too
because each only goes on to the next (`TruthPassed`), so its marks become true.

The hypothesis `ArenaBelowSign` says that a region is reserved below 2 GiB.
`_align` is `(x + 7) & ~7` (`generate/js_stub.go:452`) and gives a signed number, so
from there on `_open` gets a negative address for its block and lowers the bump
below the tables; TLC finds `TypeOK` violated at once in the instance of `iterators`
with `Half = 6`. The stub meets this only with inputs of that size: a string is
reserved three bytes for a code unit. `_grow` takes the same range into account
where it reads the scratch base unsigned (`generate/js_stub.go:569`). `BelowSign`
discharges the hypothesis for a memory with a ceiling below it.

For `SetMerge`, what the drive still owes (`Owing`: the matches the gates and the
cursor let through) is compared with what the caller has been given. `Inv` has, for
every step of a call: `PendingInv`, `SetDrive`'s pending matches are the owing ones,
but for those of the position a batch is in the middle of; `AnswerInv`, a candidate
that was asked has answered with the earliest it owes, and the answer as a whole is
everything owed at the earliest position; `GateInv`, the gates of the matches a call
has recorded are the report gates, and every other member's gate is exact; and
`ReachInv`, a gate is never below where the member's last search ended, from which
`NoGroundTwice` follows. A candidate not asked has a bound past the winner's start,
which is why it may be left out. A batch of a gated set that was refused memory is
different: a candidate that gives up leaves without settling, so the gates are not
honest any more, and `StuckInv` says instead that the call can never get past that
candidate: its bound stays within the text, no gate lets a match before that bound
through, and no candidate asked before it answered with an earlier start. This holds while the memory stays refused, and the same three facts do not
when it is had after all: `StaysRefused` excludes that one host, on which the
observation under `SetMerge` shows matches lost. `GatesHonest` and `RetryAnswersTheSame` need no
hypothesis, because they speak of other modes.

For `SetFind`, that no more is counted than there are patterns needs to know where
each count comes from. `FindInv` says that what is counted belongs to patterns of
groups that were served for the start now held (`ServedIds`), and that a group is
served for a start at one position only, so no id is counted twice (`ScanInv`); that
the body's locals are of the group whose turn it is, its ends inside the text, its
count no more than what it has written off (`IsDense`, `IsSparse`); and that the
buffer has what is counted, as far as there is room (`Fits`). The flags that are set
are at every step of a walk exactly those of the patterns in the walk's list of what
has fired (`ScratchClear` in the middle of a walk), and each exit clears exactly that
list. The counter's bail is one more exit of the walk, and what the cache does
between walks touches no bucket.

`CachedInv` adds four parts for the answer cache.

- `HeaderInv`: the region keeps its shape and fits; no bucket is walked once the
  cache is live, so a call can only be answered from it; and such an answer lies at
  or after the position the sweep began at, so the drive does not go back behind it.
- `ContentInv`: the region holds this text (`Stored`): the kept columns are every
  stride-th of the columns of one sweep from the text's end, a block made again from
  the column above it has the rows the sweep would have had (`ColumnsMeet`), and
  the counts are the answers below each block.
- `MeterInv`: with the counter, every byte walked is in what is charged, so the walks
  stay under the threshold until the call that bails, whose last walk is at most
  the text.
- `SweptInv`: how the sweeps are paid for. Between calls either no block past the
  position asked for was made (`Owing`), and each block so far was made once; or the
  next answer's block was, and its call is being answered (`Serving`). A call that
  did not fit is asked again: it has two blocks to spare (`Again`), and one once it
  has made the block of its position again (`Returning`). That a call goes straight
  to the next answer's block (`OnTheWay`) is what the counts are for: a block is
  skipped just where its count says it is empty, and by `ContentInv` it is.

The same invariant gives `CachedTypeOK`, `HeaderSound` with it, without a hypothesis.

For `StartAnywhere`, the cost of a find is a ledger. `Placed` says where the
attempt, the two passes and the iterator stand. `CostOfBody` says that the bytes
read are those the counter was charged with, at most `ShortWalk` for each attempt
that was too short to be charged, and the attempt under way; `CostOfPasses` that the
forward pass has read from where it was started to where it is, and the backward
pass as far back. The charge stops at its threshold, which itself grows with the
position, so what was read before the handover is `(SwitchN + ShortWalk + 3)` for
each byte given, and a constant, wherever the handover happens; the passes add
twice the bytes given. The attempts themselves need no linearity proof behind the
counter: it is the counter that bounds them.

A body left alone has no counter. `AsToday` says what it was classified by, and what
each attempt has cost. Either the failed walks are bounded: then a walk that has
accepted nothing is a path through states from which an accept can still be reached
and that are not accepting yet (`Follows`), a path of as many steps as there are
such states does not exist (`PathBound`: the sets `longestPaths` computes fall until
they are empty), so it has died before `plan.bound`, and each start costs at most
one byte more. Or both skips are safe: then a failed attempt moves the start past all
it has read, and each byte is paid for by its own position. The sets the
classification iterates (`Reach`, `Live`) are fixed points after as many rounds as
there are states (`ReachClosed`, `LiveClosed`).

Only model-checked:

- `DrivesLeftmost` of `BTSearch` and `StartAnywhere`: `Programs`,
  which they compare with, orders alternatives by priority, and `StartAnywhere` reads
  automata whose relation to a program is `DFAConstruction`'s alone;
- `AnswersOwed`, `NothingLeftBehind`: the same relation, for a set's tables;
- `MarkedLinear` under the seed rule;
- what is left of `DefaultSearch`'s `MarksOfThisText` outside `ShortMatches` and
  `CutShortAlone`: there the runs `overflow` and `rewrite` show it violated;
- `StubMemory` and `SetScratch` where a region is reserved past the sign bit of an
  address;
- liveness (`SearchEnds`, `DriveEnds`), which needs fairness;
- `PatternTrees`, `DFAConstruction` and `DFATables` use RECURSIVE operators, which
  the prover cannot reason about: no proof is about what they compute. The modules
  proved about take an automaton, a table or a plan as a constant, whatever it was
  built by.

## 5. Not modelled

The components of `PROJECT.json` give each part and the reason. In short:

- *Finds*: the literal-anchored and alternation bodies and their walkers' notes;
  the tagged DFA; the match and groups bodies beside the find; UTF-8 lowering, whose
  start rule alone is in `SearchNotes`. A pattern with more rows than the notes have
  cells.
- *Construction*: the caps on states and memory, row and class compression, hybrid
  dispatch.
- *Sets*: a set's default block; `find_batch` with an answer cache, the companion a
  set is split into when no region is brought, a header its caller damaged or a drive
  that goes back, the counter's saturation, row tables of 16 bits, and the analysis
  of which walks nest (`dfaWalksNest`; which patterns are counted is given); the
  program sweep; the batch skip over gated positions, the Teddy, union-scan, anchored
  and counting frontends, the sparse counters'
  hand-over. In `SetMerge`: the kept set's own buckets (`SetFind` has them), the
  rounding of bounds to characters, a batch buffer of no room.
- *Stubs*: what the Rust, Go, C and AssemblyScript stubs allocate, and batch
  buffers. Their drives are the JavaScript one's. A set's members whose search blocks
  the iterator carries keep their budget for the whole drive
  (`compile/bt_scratch.go:827-866`); in `SetScratch` no member has a block, and a
  budget lasts one host call.
- Selection, assembly, configuration, the command line and the harnesses are
  sequential generation and file work, or tests.
- Abstracted: SIMD, table encodings, and the addresses where a module says so.

## 6. Findings

1. **A skip over a run of member bytes passes matches by** (run `skipped`).
   `memberWalkStates` (`compile/dominant_walk.go:177-216`) picks the accepting states
   a few bytes lead back to, and does not look at their accepts before a certain
   byte; the stride it feeds (`compile/engine_dfa.go:6268-6334`) has no word boundary
   or line end check for the positions it passes. A pattern whose match ends inside
   such a run because of the byte that follows is not reported. In the run, with
   vectors of two bytes, the set `[ab]+`, `[ab]+\B` on `aaa--` loses the match of the
   second; in the build a run of eighteen bytes does.
   `compile/dominant_walk.go:175` says "the emitted skip re-derives soundness from
   the self-loop property itself". The other stride takes the line end out of its
   class. `bodies` leaves that set out on the texts long enough.
2. **A drive under the Unicode seed rule drops its notes** (run `characters`).
   The marked copy rounds its start up to a character boundary before comparing it
   with the stored resume point, which was not rounded. After an empty match
   before a multi-byte character the two differ, and the search is taken for one
   on another text (`compile/engine_dfa.go:11343`, `search_notes.go:575-598`).
   `search_notes.go:647` says "Within one search that never happens". Answers stay
   right; the search pays for its notes again. The walkers compare the unrounded
   position.
3. **After a batch call's -2 the default's memo is another drive's** (run
   `overflow`). The fallback marks an Alt before a push that may be refused
   (`compile/engine_backtrack.go:744`), so a call that gives up leaves marks that are
   not failures. The batch wrapper returns before `emitWindow`
   (`compile/compile.go:4745`), and the search global stays set. The next call over
   the same address and length, of a drive that knows of no -2, reads the marks. The
   comment at `default_search.go:386-390` promises "the right answers".
4. **An early -1 leaves the window live** (run `rewrite`). The find wrapper's
   returns for "nothing left" and "less than `minLen` left" come before `emitEnter`,
   so the window of the last match stays. A caller that rewrites its buffer and
   starts again inside that window continues the finished drive, memo and all.
   `default_search.go:408` says "or no drive when r is negative". Notes are safe:
   the marked copy compares its resume point too.

## 7. Plan

Done: the two finds and their drive; the default block of pattern exports; the
split merge; iterators over one memory and the scratch of a set's members; a set's
find over its bodies and its answer cache, from programs to answers; start-anywhere,
from trees to answers.

Left, in order of worth: `find_batch` from the answer cache; the literal-anchored
walkers over `SearchNotes`' block; a set's default block; pure algorithms against
reference definitions: UTF-8 lowering, register copy ordering, the program sweep's
column recurrence.
