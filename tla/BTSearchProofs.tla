--------------------------- MODULE BTSearchProofs ---------------------------
(***************************************************************************)
(* A search by the Backtracking engine spends one budget, enters each Alt a  *)
(* fixed number of times at each position once it is tripped, and keeps in   *)
(* its memo failures only, for every program, text, rate and host.           *)
(***************************************************************************)
EXTENDS BTSearch, TLAPS, FiniteSetTheorems

Body == {"outer", "place", "run", "fail"}
Calling == Body \union {"forced", "anchor", "entry", "none", "unknown"}

\* Where a running call stands.
Placed ==
    /\ host.from <= n + 1
    /\ pc \in Calling => host.status = "driving" /\ host.from <= n /\ host.from <= w.start
    /\ pc = "after" => host.status = "driving"
    /\ pc \in {"host", "after"} => ~w.kept
    /\ pc \in {"forced", "anchor", "entry"} => ~w.ready /\ ~w.kept /\ w.start = host.from
    /\ pc = "forced" => plan.force /\ ~w.fallback
    /\ pc = "entry" => ~w.fallback
    /\ plan.force /\ pc \in Body \union {"anchor", "entry"} => w.fallback
    /\ pc = "place" => ~w.ready /\ ~w.kept /\ w.stack = << >>
    /\ pc \in {"run", "fail"} => w.ready
    /\ w.kept => w.ready /\ w.fallback
    /\ pc \in {"place", "run", "fail"} => w.start <= n
    /\ pc \in Body \union {"none", "unknown"} => w.start <= n + 1

\* The frames of an attempt, oldest first, lie between its start and where it is.
FramesPlaced ==
    pc \in {"place", "run", "fail"} =>
        /\ w.start <= w.pos /\ w.pos <= n
        /\ \A i \in 1..Len(w.stack) : w.start <= w.stack[i][1] /\ w.stack[i][1] <= w.pos
        /\ \A i, j \in 1..Len(w.stack) : i < j => w.stack[i][1] <= w.stack[j][1]

Typed == TypeOK /\ Placed /\ FramesPlaced
-----------------------------------------------------------------------------
(* Types. *)

LEMMA TextTyped ==
    ASSUME TypeOK
    PROVE  /\ n \in Nat /\ text \in Text /\ prog \in Program
           /\ prog.start \in Pcs
           /\ \A p \in Pcs : prog.inst[p] \in Inst
  BY TextAssumption, ProgramAssumption DEF TypeOK, n, LenOf, Text, Program

LEMMA EndsTyped ==
    ASSUME NEW d \in Programs, NEW t \in Texts
    PROVE  /\ LenOf(t) \in Nat
           /\ Ends(d, t) \in [0..LenOf(t) -> [Pcs -> (0..LenOf(t)) \union {NoMatch}]]
           /\ Explained(d, t, Ends(d, t), Distances(d, t, Ends(d, t)))
  <1>1. LenOf(t) \in Nat
    BY TextAssumption DEF Text, LenOf
  <1>2. Explained(d, t, Ends(d, t), Distances(d, t, Ends(d, t)))
    BY MeaningAssumption
  <1> QED BY <1>1, <1>2 DEF Explained

LEMMA NothingTyped ==
    ASSUME TypeOK
    PROVE  /\ NoLocals \in Locals
           /\ NoLocals.start = 0 /\ ~NoLocals.fallback /\ ~NoLocals.kept /\ ~NoLocals.ready
           /\ NoLocals.stack = << >>
  BY TextTyped DEF NoLocals, Locals

\* A frame comes off the stack.
LEMMA ShorterStack ==
    ASSUME NEW S, NEW stack \in Seq(S), stack # << >>
    PROVE  /\ Len(stack) \in Nat \ {0} /\ stack[Len(stack)] \in S
           /\ SubSeq(stack, 1, Len(stack) - 1) \in Seq(S)
           /\ Len(SubSeq(stack, 1, Len(stack) - 1)) = Len(stack) - 1
           /\ \A i \in 1..(Len(stack) - 1) :
                 SubSeq(stack, 1, Len(stack) - 1)[i] = stack[i]
  OBVIOUS

LEMMA LongerStack ==
    ASSUME NEW S, NEW stack \in Seq(S), NEW e \in S
    PROVE  /\ Append(stack, e) \in Seq(S)
           /\ Len(Append(stack, e)) = Len(stack) + 1
           /\ \A i \in 1..Len(stack) : Append(stack, e)[i] = stack[i]
           /\ Append(stack, e)[Len(stack) + 1] = e
  OBVIOUS
-----------------------------------------------------------------------------
(* The budget of a search. *)

Counting == pc \in Body /\ ~w.fallback
Budget == Rate * (LenOf(opened) + 1)

BudgetInv ==
    /\ pops <= Budget
    /\ blk.state = "new" =>
          /\ pops = 0
          /\ ~plan.force => /\ text = opened /\ host.from = 0 /\ host.status = "driving"
                            /\ pc \in {"host", "anchor", "entry"} /\ ~w.fallback
    /\ blk.state = "live" => blk.budget > 0
    /\ blk.state = "live" /\ ~Counting => pops + blk.budget <= Budget
    /\ w.fallback /\ pc \in Body \union {"anchor"} =>
          /\ blk.state = "tripped" \/ plan.force
          /\ blk.state = "tripped" \/ plan.anchored
    /\ Counting => blk.state = "live" /\ w.work > 0 /\ pops + w.work <= Budget

Inv == Typed /\ BudgetInv

LEMMA BudgetTyped == TypeOK => Budget \in Nat
  <1> SUFFICES ASSUME TypeOK PROVE Budget \in Nat
    OBVIOUS
  <1>1. LenOf(opened) \in Nat
    BY TextAssumption DEF TypeOK, LenOf, Text
  <1> QED BY <1>1, RateAssumption DEF Budget

LEMMA PlanTyped ==
    ASSUME TypeOK
    PROVE  plan.force \in BOOLEAN /\ plan.anchored \in BOOLEAN
  <1>1. Plan(prog).force \in BOOLEAN /\ Plan(prog).anchored \in BOOLEAN
    BY DEF Plan, ZeroWidthCycle, StartAnchored
  <1> QED BY <1>1 DEF TypeOK

\* The fields of the host, the block and the locals.
LEMMA HostAre ==
    ASSUME host \in Hosts
    PROVE  /\ host = [from |-> host.from, prevEnd |-> host.prevEnd,
                      answers |-> host.answers, status |-> host.status]
           /\ host.from \in Nat /\ host.prevEnd \in Nat \union {NoMatch}
           /\ host.answers \in Seq(Nat \X Nat)
           /\ host.status \in {"driving", "done", "unknown"}
  BY DEF Hosts

LEMMA BlockAre ==
    ASSUME blk \in Block
    PROVE  /\ blk = [state |-> blk.state, budget |-> blk.budget, memo |-> blk.memo,
                     cap |-> blk.cap, ptr |-> blk.ptr, len |-> blk.len]
           /\ blk.state \in {"new", "live", "tripped"} /\ blk.budget \in Nat
           /\ blk.memo \in BOOLEAN /\ blk.cap \in Nat /\ blk.ptr \in Nat /\ blk.len \in Nat
  BY DEF Block

LEMMA LocalsAre ==
    ASSUME w \in Locals
    PROVE  /\ w = [start |-> w.start, pos |-> w.pos, at |-> w.at, stack |-> w.stack,
                   work |-> w.work, fallback |-> w.fallback, kept |-> w.kept,
                   ready |-> w.ready]
           /\ w.start \in Nat /\ w.pos \in Nat /\ w.at \in Pcs
           /\ w.stack \in Seq(Nat \X Pcs) /\ w.work \in Nat
           /\ w.fallback \in BOOLEAN /\ w.kept \in BOOLEAN /\ w.ready \in BOOLEAN
  BY DEF Locals

LEMMA Begins == Init => Inv
  <1> SUFFICES ASSUME Init PROVE Inv
    OBVIOUS
  <1>1. text \in Texts /\ prog \in Programs /\ mode \in Modes
    BY ModeAssumption DEF Init, Mode
  <1>2. n \in Nat /\ ends \in [0..n -> [Pcs -> (0..n) \union {NoMatch}]]
    BY <1>1, EndsTyped DEF Init, n
  <1>3. NoLocals \in Locals /\ ~NoLocals.fallback /\ ~NoLocals.kept
    BY <1>1, ProgramAssumption DEF NoLocals, Locals, Program
  <1>4. host \in Hosts /\ host.from = 0 /\ host.status = "driving"
    BY DEF Init, HostAt, Hosts
  <1>5. blk \in Block /\ blk.state = "new"
    BY DEF Init, ZeroBlock, Block
  <1>6. TypeOK
    BY <1>1, <1>2, <1>3, <1>4, <1>5 DEF Init, TypeOK
  <1>7. Budget \in Nat
    BY <1>6, BudgetTyped
  <1> QED BY <1>2, <1>3, <1>4, <1>5, <1>6, <1>7
      DEF Init, Inv, Typed, Placed, FramesPlaced, BudgetInv, Counting, Body, Calling
-----------------------------------------------------------------------------
(* The kinds of step a call takes. *)

LEMMA Unfold ==
    ASSUME Inv
    PROVE  /\ TypeOK /\ Placed /\ FramesPlaced /\ BudgetInv
           /\ w \in Locals /\ blk \in Block /\ host \in Hosts
           /\ n \in Nat /\ Budget \in Nat /\ pops \in Nat
           /\ plan.force \in BOOLEAN /\ plan.anchored \in BOOLEAN
  BY TextTyped, BudgetTyped, PlanTyped DEF Inv, Typed, TypeOK

\* Most steps change the block and the locals only.
LEMMA StepTyped ==
    ASSUME TypeOK, UNCHANGED <<fixed, text, ends, host, memo, own, opened, owner>>,
           w' \in Locals, blk' \in Block, pops' \in Nat, guards' \in Nat,
           pc' \in Calling
    PROVE  TypeOK' /\ n' = n /\ Budget' = Budget
  BY DEF TypeOK, fixed, n, Calling, Body, Budget

\* A call starts over on the fallback body, the search being tripped.
LEMMA StartsOver ==
    ASSUME Inv, pc \in Calling, ToFallback, blk' \in Block, blk'.state = "tripped"
    PROVE  Inv'
  <1>1. /\ w' \in Locals /\ w'.start = host.from /\ w'.fallback /\ ~w'.kept /\ ~w'.ready
        /\ pc' = "anchor"
    BY Unfold, HostAre, NothingTyped DEF ToFallback, Handed, Goto, Locals
  <1>2. UNCHANGED <<fixed, text, ends, host, memo, own, ghosts>>
    BY DEF ToFallback, Goto
  <1>3. TypeOK' /\ n' = n /\ Budget' = Budget
    <2>1. /\ UNCHANGED <<fixed, text, ends, host, memo, own, opened, owner>>
          /\ pops' \in Nat /\ guards' \in Nat /\ pc' \in Calling
      BY <1>1, <1>2, Unfold DEF ghosts, Calling, TypeOK
    <2> QED BY <1>1, <2>1, Unfold, StepTyped
  <1>4. Placed' /\ FramesPlaced'
    <2>1. plan' = plan /\ host' = host /\ host.from <= n /\ host.status = "driving"
          /\ host.from <= n + 1
      BY <1>2, Unfold DEF Placed, fixed
    <2>2. Placed'
      BY <1>1, <1>3, <2>1, Unfold, HostAre DEF Placed, Body, Calling
    <2> QED BY <1>1, <2>2 DEF FramesPlaced
  <1>5. BudgetInv'
    BY <1>1, <1>2, <1>3, Unfold DEF BudgetInv, Counting, ghosts, Body, Calling
  <1> QED BY <1>3, <1>4, <1>5 DEF Inv, Typed

\* A step inside the body that counts nothing.
LEMMA BodyStep ==
    ASSUME Inv, pc \in Body, pc' \in Body, blk' = blk, w' \in Locals,
           w'.fallback = w.fallback, w'.work = w.work, pops' = pops, guards' \in Nat,
           UNCHANGED <<fixed, text, ends, host, opened, owner>>,
           memo' \subseteq Marks, own' \subseteq Marks
    PROVE  TypeOK' /\ n' = n /\ BudgetInv'
  <1>1. TypeOK' /\ n' = n /\ Budget' = Budget
    BY Unfold DEF TypeOK, fixed, n, Body, Budget
  <1> QED BY <1>1, Unfold DEF BudgetInv, Counting, fixed, Body

\* The attempt goes on from a position inside the text, its frames as they are,
\* or fails.
LEMMA AttemptMoves ==
    ASSUME Inv, pc = "run", NEW pos \in w.pos..n, NEW at \in Pcs,
           \/ w' = [w EXCEPT !.pos = pos, !.at = at] /\ Goto("run")
           \/ w' = w /\ Goto("fail"),
           blk' = blk
    PROVE  Inv'
  <1>1. /\ w' \in Locals /\ w'.start = w.start /\ w'.fallback = w.fallback
        /\ w'.kept = w.kept /\ w'.ready = w.ready /\ w'.work = w.work
        /\ w'.stack = w.stack /\ w'.pos \in w.pos..n /\ pc' \in {"run", "fail"}
    <2>1. w.pos \in w.pos..n /\ pos \in Nat
      BY Unfold, LocalsAre DEF FramesPlaced
    <2> QED BY <2>1, Unfold, LocalsAre DEF Goto, Locals
  <1>2. UNCHANGED <<fixed, text, ends, host, memo, own, ghosts>>
    BY DEF Goto
  <1>3. TypeOK' /\ n' = n /\ BudgetInv'
    <2>1. pc \in Body /\ pc' \in Body
      BY <1>1 DEF Body
    <2>2. guards' \in Nat /\ memo' \subseteq Marks /\ own' \subseteq Marks
      BY <1>2, Unfold DEF TypeOK, ghosts
    <2> QED BY <1>1, <1>2, <2>1, <2>2, BodyStep DEF ghosts
  <1>4. Placed'
    BY <1>1, <1>2, <1>3, Unfold DEF Placed, fixed, Body, Calling
  <1>5. FramesPlaced'
    <2>1. /\ w.pos \in Nat /\ n \in Nat /\ w.start \in Nat /\ w.start <= w.pos
          /\ \A i \in 1..Len(w.stack) : /\ w.stack[i][1] \in Nat
                                        /\ w.start <= w.stack[i][1]
                                        /\ w.stack[i][1] <= w.pos
          /\ \A i, j \in 1..Len(w.stack) : i < j => w.stack[i][1] <= w.stack[j][1]
      BY Unfold, LocalsAre DEF FramesPlaced
    <2>2. w'.pos \in Nat /\ w.pos <= w'.pos /\ w'.pos <= n
      BY <1>1, <2>1
    <2>3. \A i \in 1..Len(w.stack) : w.stack[i][1] <= w'.pos
      BY <2>1, <2>2
    <2> QED BY <1>1, <1>3, <2>1, <2>2, <2>3 DEF FramesPlaced
  <1> QED BY <1>3, <1>4, <1>5 DEF Inv, Typed

\* What a step that only changes the block, the locals and the counter leaves.
LEMMA Left ==
    ASSUME Inv, UNCHANGED <<fixed, text, ends, host, memo, own, opened, owner, guards>>,
           w' \in Locals, blk' \in Block, pops' \in Nat, pc' \in Calling
    PROVE  /\ TypeOK' /\ n' = n /\ Budget' = Budget
           /\ plan' = plan /\ host' = host /\ text' = text /\ opened' = opened
  <1>1. guards' \in Nat
    BY Unfold DEF TypeOK
  <1> QED BY <1>1, Unfold, StepTyped DEF fixed

LEMMA GotoLeaves ==
    ASSUME Inv, NEW label, Goto(label)
    PROVE  /\ UNCHANGED <<fixed, text, ends, host, memo, own, opened, owner, guards>>
           /\ pops' = pops /\ pops' \in Nat /\ pc' = label
  BY Unfold DEF Goto, ghosts
-----------------------------------------------------------------------------
(* Entering a call. *)

LEMMA EnterForcedStep ==
    ASSUME Inv, EnterForced
    PROVE  Inv'
  <1>1. /\ w' \in Locals /\ w'.start = w.start /\ w'.fallback /\ w'.kept = w.kept
        /\ w'.ready = w.ready
    BY Unfold, LocalsAre DEF EnterForced, Locals
  <1>2. /\ blk' \in Block
        /\ plan.anchored => blk' = blk
        /\ ~plan.anchored => blk'.state = "tripped"
    BY Unfold, BlockAre DEF EnterForced, Block, Trip
  <1>3. pc = "forced" /\ pc' = "anchor" /\ Goto("anchor")
    BY DEF EnterForced, Goto
  <1>4. /\ TypeOK' /\ n' = n /\ Budget' = Budget /\ pops' = pops
        /\ plan' = plan /\ host' = host /\ text' = text /\ opened' = opened
    <2>1. pc' \in Calling
      BY <1>3 DEF Calling
    <2> QED BY <1>1, <1>2, <1>3, <2>1, Left, GotoLeaves
  <1>5. Placed' /\ FramesPlaced'
    BY <1>1, <1>3, <1>4, Unfold DEF Placed, FramesPlaced, Body, Calling
  <1>6. BudgetInv'
    <2>1. plan.force /\ ~Counting /\ ~Counting'
      BY <1>3, Unfold DEF Placed, Counting, Body
    <2>2. CASE plan.anchored
      <3>1. blk' = blk /\ plan'.anchored
        BY <1>2, <1>4, <2>2, Unfold
      <3> QED BY <1>3, <1>4, <2>1, <3>1, Unfold DEF BudgetInv
    <2>3. CASE ~plan.anchored
      BY <1>2, <1>4, <2>1, <2>3, Unfold DEF BudgetInv
    <2> QED BY <2>2, <2>3
  <1> QED BY <1>4, <1>5, <1>6 DEF Inv, Typed

LEMMA CheckAnchorStep ==
    ASSUME Inv, CheckAnchor
    PROVE  Inv'
  <1>1. w' = w /\ blk' = blk /\ w' \in Locals /\ blk' \in Block
    BY Unfold DEF CheckAnchor
  <1>2. /\ pc = "anchor" /\ pc' \in {"none", "outer", "entry"}
        /\ pc' = "outer" => w.fallback
        /\ pc' = "entry" => ~w.fallback /\ ~plan.force
        /\ pc' = "none" => plan.anchored /\ w.start # 0
    BY Unfold DEF CheckAnchor, Goto, Placed, Body
  <1>3. /\ TypeOK' /\ n' = n /\ Budget' = Budget /\ pops' = pops
        /\ plan' = plan /\ host' = host /\ text' = text /\ opened' = opened
    <2>1. pc' \in Calling
      BY <1>2 DEF Calling, Body
    <2> QED BY <1>1, <2>1, Left, GotoLeaves DEF CheckAnchor
  <1>4. Placed' /\ FramesPlaced'
    BY <1>1, <1>2, <1>3, Unfold, LocalsAre, HostAre
    DEF Placed, FramesPlaced, Body, Calling
  <1>5. BudgetInv'
    BY <1>1, <1>2, <1>3, Unfold DEF BudgetInv, Counting, Body, Calling, Placed
  <1> QED BY <1>3, <1>4, <1>5 DEF Inv, Typed

LEMMA EnterTrippedStep ==
    ASSUME Inv, EnterTripped
    PROVE  Inv'
  BY Unfold, StartsOver DEF EnterTripped, Calling

LEMMA EnterNewStep ==
    ASSUME Inv, EnterNew
    PROVE  Inv'
  <1>1. Rate * (n + 1) \in Nat \ {0}
    BY Unfold, RateAssumption
  <1>2. pc = "entry" /\ pc' = "outer" /\ blk.state = "new"
    BY DEF EnterNew, Goto
  <1>3. ~plan.force /\ text = opened /\ pops = 0 /\ Rate * (n + 1) = Budget
    BY <1>2, Unfold DEF Placed, BudgetInv, Budget, n, Body
  <1>4. /\ w' \in Locals /\ w'.start = w.start /\ w'.fallback = w.fallback
        /\ w'.kept = w.kept /\ w'.ready = w.ready /\ w'.work = Budget
    BY <1>1, <1>3, Unfold, LocalsAre DEF EnterNew, Locals
  <1>5. blk' \in Block /\ blk'.state = "live" /\ blk'.budget = Budget
    BY <1>1, <1>3, Unfold, BlockAre DEF EnterNew, Block, Opened
  <1>6. /\ TypeOK' /\ n' = n /\ Budget' = Budget /\ pops' = pops
        /\ plan' = plan /\ host' = host /\ text' = text /\ opened' = opened
    <2>1. pc' \in Calling
      BY <1>2 DEF Calling, Body
    <2> QED BY <1>4, <1>5, <2>1, Left, GotoLeaves DEF EnterNew
  <1>7. Placed' /\ FramesPlaced'
    BY <1>2, <1>3, <1>4, <1>6, Unfold, LocalsAre, HostAre
    DEF Placed, FramesPlaced, Body, Calling
  <1>8. BudgetInv'
    BY <1>1, <1>2, <1>3, <1>4, <1>5, <1>6, Unfold
    DEF BudgetInv, Counting, Body, Calling, Placed
  <1> QED BY <1>6, <1>7, <1>8 DEF Inv, Typed

LEMMA EnterLiveStep ==
    ASSUME Inv, EnterLive
    PROVE  Inv'
  <1>1. pc = "entry" /\ pc' = "outer" /\ blk.state = "live" /\ blk' = blk
    BY DEF EnterLive, Goto
  <1>2. /\ w' \in Locals /\ w'.start = w.start /\ w'.fallback = w.fallback
        /\ w'.kept = w.kept /\ w'.ready = w.ready /\ w'.work = blk.budget
    BY Unfold, LocalsAre, BlockAre DEF EnterLive, Locals, BudgetLeft
  <1>3. /\ TypeOK' /\ n' = n /\ Budget' = Budget /\ pops' = pops
        /\ plan' = plan /\ host' = host /\ text' = text /\ opened' = opened
    <2>1. pc' \in Calling
      BY <1>1 DEF Calling, Body
    <2> QED BY <1>1, <1>2, <2>1, Unfold, Left, GotoLeaves DEF EnterLive
  <1>4. Placed' /\ FramesPlaced'
    BY <1>1, <1>2, <1>3, Unfold, LocalsAre, HostAre
    DEF Placed, FramesPlaced, Body, Calling
  <1>5. BudgetInv'
    BY <1>1, <1>2, <1>3, Unfold, BlockAre
    DEF BudgetInv, Counting, Body, Calling, Placed
  <1> QED BY <1>3, <1>4, <1>5 DEF Inv, Typed
-----------------------------------------------------------------------------
(* The attempts. *)

LEMMA AttemptStep ==
    ASSUME Inv, Attempt
    PROVE  Inv'
  <1>1. PICK s \in w.start..n :
           w' = [w EXCEPT !.start = s, !.pos = s, !.at = prog.start, !.stack = << >>]
    BY DEF Attempt
  <1>2. s \in Nat /\ w.start <= s /\ s <= n
    BY Unfold, LocalsAre
  <1>3. /\ w' \in Locals /\ w'.start = s /\ w'.pos = s /\ w'.fallback = w.fallback
        /\ w'.kept = w.kept /\ w'.ready = w.ready /\ w'.work = w.work
        /\ w'.stack = << >> /\ Len(w'.stack) = 0
    <2>1. w' = [start |-> s, pos |-> s, at |-> prog.start, stack |-> << >>,
                work |-> w.work, fallback |-> w.fallback, kept |-> w.kept,
                ready |-> w.ready]
      BY <1>1, Unfold, LocalsAre
    <2>2. << >> \in Seq(Nat \X Pcs) /\ prog.start \in Pcs
      BY Unfold, TextTyped
    <2> QED BY <1>2, <2>1, <2>2, Unfold, LocalsAre DEF Locals
  <1>4. /\ pc = "outer" /\ blk' = blk
        /\ pc' = IF w.ready THEN "run" ELSE "place"
    BY DEF Attempt, Goto
  <1>5. UNCHANGED <<fixed, text, ends, host, memo, own, opened, owner, guards, pops>>
    BY DEF Attempt, Goto, ghosts
  <1>6. TypeOK' /\ n' = n /\ BudgetInv'
    BY <1>3, <1>4, <1>5, Unfold, BodyStep DEF Body, TypeOK
  <1>7. Placed'
    <2>1. plan' = plan /\ host' = host
      BY <1>5 DEF fixed
    <2>2. CASE w.ready
      BY <1>2, <1>3, <1>4, <1>6, <2>1, <2>2, Unfold, LocalsAre, HostAre
      DEF Placed, Body, Calling
    <2>3. CASE ~w.ready
      BY <1>2, <1>3, <1>4, <1>6, <2>1, <2>3, Unfold, LocalsAre, HostAre
      DEF Placed, Body, Calling
    <2> QED BY <2>2, <2>3
  <1>8. FramesPlaced'
    BY <1>2, <1>3, <1>6 DEF FramesPlaced
  <1> QED BY <1>6, <1>7, <1>8 DEF Inv, Typed

LEMMA NoMoreStartsStep ==
    ASSUME Inv, NoMoreStarts
    PROVE  Inv'
  <1>1. pc = "outer" /\ pc' = "none" /\ w' = w /\ w' \in Locals /\ Goto("none")
    BY Unfold DEF NoMoreStarts, Goto
  <1>2. /\ blk' \in Block /\ blk'.state = blk.state
        /\ w.fallback => blk' = blk
        /\ ~w.fallback => blk'.budget = w.work
    BY Unfold, BlockAre, LocalsAre DEF NoMoreStarts, Saved, Block
  <1>3. /\ TypeOK' /\ n' = n /\ Budget' = Budget /\ pops' = pops
        /\ plan' = plan /\ host' = host /\ text' = text /\ opened' = opened
    <2>1. pc' \in Calling
      BY <1>1 DEF Calling
    <2> QED BY <1>1, <1>2, <2>1, Left, GotoLeaves
  <1>4. Placed' /\ FramesPlaced'
    BY <1>1, <1>3, Unfold, LocalsAre, HostAre DEF Placed, FramesPlaced, Body, Calling
  <1>5. BudgetInv'
    BY <1>1, <1>2, <1>3, Unfold, BlockAre, LocalsAre DEF BudgetInv, Counting, Body, Calling
  <1> QED BY <1>3, <1>4, <1>5 DEF Inv, Typed

\* The call has its memory, or none is to be had.
LEMMA ScratchPlaced ==
    ASSUME Inv, pc = "place", pc' \in {"run", "unknown"},
           w' \in Locals, w'.start = w.start, w'.pos = w.pos, w'.stack = w.stack,
           w'.fallback = w.fallback, w'.work = w.work, w'.ready,
           w'.kept => w.fallback, pc' = "unknown" => w.fallback,
           blk' \in Block, blk'.state = blk.state, blk'.budget = blk.budget,
           UNCHANGED <<fixed, text, ends, host, opened, pops, guards>>,
           owner' \in Texts, memo' \subseteq Marks, own' \subseteq Marks
    PROVE  Inv'
  <1>1. TypeOK' /\ n' = n /\ Budget' = Budget
    BY Unfold DEF TypeOK, fixed, n, Budget
  <1>2. plan' = plan /\ host' = host
    BY DEF fixed
  <1>3. Placed'
    BY <1>1, <1>2, Unfold, LocalsAre, HostAre DEF Placed, Body, Calling
  <1>4. FramesPlaced'
    BY <1>1, <1>2, Unfold, LocalsAre DEF FramesPlaced, Placed
  <1>5. BudgetInv'
    BY <1>1, <1>2, Unfold DEF BudgetInv, Counting, Body
  <1> QED BY <1>1, <1>3, <1>4, <1>5 DEF Inv, Typed

LEMMA PlaceStackStep ==
    ASSUME Inv, PlaceStack
    PROVE  Inv'
  <1>1. /\ w' \in Locals /\ w'.start = w.start /\ w'.pos = w.pos /\ w'.stack = w.stack
        /\ w'.fallback = w.fallback /\ w'.work = w.work /\ w'.ready /\ w'.kept = w.kept
    BY Unfold, LocalsAre DEF PlaceStack, Locals
  <1>2. /\ pc = "place" /\ pc' = "run" /\ blk' = blk
        /\ UNCHANGED <<fixed, text, ends, host, memo, own, opened, owner, pops, guards>>
    BY DEF PlaceStack, Goto, ghosts
  <1>3. w'.kept => w.fallback
    BY <1>1, Unfold DEF Placed
  <1> QED BY <1>1, <1>2, <1>3, Unfold, ScratchPlaced DEF TypeOK

LEMMA StackRefusedStep ==
    ASSUME Inv, StackRefused
    PROVE  Inv'
  <1>1. blk' \in Block /\ blk'.state = "tripped"
    BY Unfold, BlockAre DEF StackRefused, Trip, Block
  <1> QED BY <1>1, StartsOver DEF StackRefused, Calling, Body

LEMMA PlaceSearchMemoStep ==
    ASSUME Inv, PlaceSearchMemo
    PROVE  Inv'
  <1>1. /\ w' \in Locals /\ w'.start = w.start /\ w'.pos = w.pos /\ w'.stack = w.stack
        /\ w'.fallback = w.fallback /\ w'.work = w.work /\ w'.ready /\ w'.kept
        /\ w.fallback
    BY Unfold, LocalsAre DEF PlaceSearchMemo, Locals
  <1>2. blk' \in Block /\ blk'.state = blk.state /\ blk'.budget = blk.budget
    <2>1. text.ptr \in Nat
      BY Unfold, TextTyped DEF Text
    <2>2. blk' = [state |-> blk.state, budget |-> blk.budget, memo |-> blk.memo,
                  cap |-> blk.cap, ptr |-> text.ptr, len |-> n + 1]
      BY Unfold, BlockAre DEF PlaceSearchMemo
    <2>3. n + 1 \in Nat
      BY Unfold
    <2> QED BY <2>1, <2>2, <2>3, Unfold, BlockAre DEF Block
  <1>3. /\ pc = "place" /\ pc' \in {"run", "unknown"}
        /\ UNCHANGED <<fixed, text, ends, host, own, opened, pops, guards>>
        /\ owner' \in Texts /\ memo' \subseteq Marks /\ own' \subseteq Marks
    BY Unfold DEF PlaceSearchMemo, TypeOK
  <1> QED BY <1>1, <1>2, <1>3, ScratchPlaced

LEMMA PlaceOwnMemoStep ==
    ASSUME Inv, PlaceOwnMemo
    PROVE  Inv'
  <1>1. /\ w' \in Locals /\ w'.start = w.start /\ w'.pos = w.pos /\ w'.stack = w.stack
        /\ w'.fallback = w.fallback /\ w'.work = w.work /\ w'.ready /\ w'.kept = w.kept
        /\ w.fallback
    BY Unfold, LocalsAre DEF PlaceOwnMemo, Locals
  <1>2. /\ pc = "place" /\ pc' \in {"run", "unknown"} /\ blk' = blk
        /\ UNCHANGED <<fixed, text, ends, host, memo, opened, owner, pops, guards>>
        /\ own' \subseteq Marks
    BY DEF PlaceOwnMemo, ghosts
  <1> QED BY <1>1, <1>2, Unfold, ScratchPlaced DEF TypeOK
-----------------------------------------------------------------------------
(* The instructions. *)

LEMMA HereTyped ==
    ASSUME Inv
    PROVE  Here.out \in Pcs /\ Here.arg \in Pcs
  BY Unfold, TextTyped, LocalsAre DEF Here, Inst

LEMMA FailsStep ==
    ASSUME Inv, pc = "run", Fails
    PROVE  Inv'
  <1>1. w.pos \in w.pos..n /\ w.at \in Pcs
    BY Unfold, LocalsAre DEF FramesPlaced
  <1> QED BY <1>1, AttemptMoves DEF Fails

LEMMA ReadByteStep ==
    ASSUME Inv, ReadByte
    PROVE  Inv'
  <1>1. CASE w.pos < n /\ GoesOn(w.pos + 1, Here.out) /\ UNCHANGED blk /\ Goto("run")
    <2>1. w.pos + 1 \in w.pos..n
      BY <1>1, Unfold, LocalsAre
    <2> QED BY <1>1, <2>1, HereTyped, AttemptMoves DEF ReadByte, GoesOn
  <1>2. CASE Fails
    BY <1>2, FailsStep DEF ReadByte
  <1> QED BY <1>1, <1>2 DEF ReadByte

LEMMA EmptyWidthStep ==
    ASSUME Inv, EmptyWidth
    PROVE  Inv'
  <1>1. CASE GoesOn(w.pos, Here.out) /\ UNCHANGED blk /\ Goto("run")
    <2>1. pc = "run" /\ w.pos \in w.pos..n
      BY Unfold, LocalsAre DEF EmptyWidth, FramesPlaced
    <2> QED BY <1>1, <2>1, HereTyped, AttemptMoves DEF GoesOn
  <1>2. CASE Fails
    BY <1>2, FailsStep DEF EmptyWidth
  <1> QED BY <1>1, <1>2 DEF EmptyWidth

LEMMA FailStep ==
    ASSUME Inv, Fail
    PROVE  Inv'
  BY FailsStep DEF Fail

\* A frame is pushed: what the stack then holds.
LEMMA PushIs ==
    ASSUME Inv, pc = "run", Push
    PROVE  /\ w' \in Locals /\ w'.start = w.start /\ w'.pos = w.pos
           /\ w'.fallback = w.fallback /\ w'.kept = w.kept /\ w'.ready = w.ready
           /\ w'.work = w.work /\ w'.at = Here.out
           /\ Len(w'.stack) = Len(w.stack) + 1
           /\ \A i \in 1..Len(w.stack) : w'.stack[i] = w.stack[i]
           /\ w'.stack[Len(w.stack) + 1] = <<w.pos, Here.arg>>
           /\ w'.stack = Append(w.stack, <<w.pos, Here.arg>>)
  <1>1. /\ w' = [start |-> w.start, pos |-> w.pos, at |-> Here.out,
                 stack |-> Append(w.stack, <<w.pos, Here.arg>>), work |-> w.work,
                 fallback |-> w.fallback, kept |-> w.kept, ready |-> w.ready]
    BY Unfold, LocalsAre DEF Push
  <1>2. w.stack \in Seq(Nat \X Pcs) /\ <<w.pos, Here.arg>> \in Nat \X Pcs
    BY Unfold, LocalsAre, HereTyped
  <1> HIDE DEF Here
  <1>3. /\ Append(w.stack, <<w.pos, Here.arg>>) \in Seq(Nat \X Pcs)
        /\ Len(Append(w.stack, <<w.pos, Here.arg>>)) = Len(w.stack) + 1
        /\ \A i \in 1..Len(w.stack) :
              Append(w.stack, <<w.pos, Here.arg>>)[i] = w.stack[i]
        /\ Append(w.stack, <<w.pos, Here.arg>>)[Len(w.stack) + 1] = <<w.pos, Here.arg>>
    BY <1>2, LongerStack
  <1>4. w' \in Locals
    BY <1>1, <1>3, Unfold, LocalsAre, HereTyped DEF Locals
  <1> QED BY <1>1, <1>3, <1>4

LEMMA PushPlaced ==
    ASSUME Inv, pc = "run", pc' = "run", Push, blk' = blk, guards' \in Nat,
           UNCHANGED <<fixed, text, ends, host, opened, owner, pops>>,
           memo' \subseteq Marks, own' \subseteq Marks
    PROVE  Inv'
  <1>1. TypeOK' /\ n' = n /\ BudgetInv'
    BY PushIs, BodyStep DEF Body
  <1>2. Placed'
    BY <1>1, PushIs, Unfold DEF Placed, fixed, Body, Calling
  <1>3. FramesPlaced'
    <2>1. /\ w.pos \in Nat /\ w.start <= w.pos /\ w.pos <= n /\ Len(w.stack) \in Nat
          /\ w.start \in Nat
          /\ \A i \in 1..Len(w.stack) : /\ w.stack[i][1] \in Nat
                                        /\ w.start <= w.stack[i][1]
                                        /\ w.stack[i][1] <= w.pos
          /\ \A i, j \in 1..Len(w.stack) : i < j => w.stack[i][1] <= w.stack[j][1]
      BY Unfold, LocalsAre DEF FramesPlaced
    <2>2. w'.stack[Len(w.stack) + 1][1] = w.pos
      BY PushIs
    <2>3. \A i \in 1..Len(w'.stack) :
             \/ i \in 1..Len(w.stack) /\ w'.stack[i] = w.stack[i]
             \/ i = Len(w.stack) + 1 /\ w'.stack[i][1] = w.pos
      BY <2>1, <2>2, PushIs
    <2>4. /\ w'.start <= w'.pos /\ w'.pos <= n'
          /\ \A i \in 1..Len(w'.stack) :
                w'.start <= w'.stack[i][1] /\ w'.stack[i][1] <= w'.pos
      <3>1. w'.start = w.start /\ w'.pos = w.pos
        BY PushIs
      <3>2. \A i \in 1..Len(w'.stack) :
               w.start <= w'.stack[i][1] /\ w'.stack[i][1] <= w.pos
        BY <2>1, <2>3
      <3> QED BY <1>1, <2>1, <3>1, <3>2
    <2>5. \A i, j \in 1..Len(w'.stack) : i < j => w'.stack[i][1] <= w'.stack[j][1]
      <3> SUFFICES ASSUME NEW i \in 1..Len(w'.stack), NEW j \in 1..Len(w'.stack), i < j
                   PROVE  w'.stack[i][1] <= w'.stack[j][1]
        OBVIOUS
      <3>1. i \in 1..Len(w.stack) /\ w'.stack[i] = w.stack[i]
        BY <2>1, <2>3, PushIs
      <3>2. CASE j \in 1..Len(w.stack) /\ w'.stack[j] = w.stack[j]
        BY <2>1, <3>1, <3>2
      <3>3. CASE j = Len(w.stack) + 1 /\ w'.stack[j][1] = w.pos
        BY <2>1, <3>1, <3>3
      <3> QED BY <2>3, <3>2, <3>3
    <2> QED BY <2>4, <2>5 DEF FramesPlaced
  <1> QED BY <1>1, <1>2, <1>3 DEF Inv, Typed

LEMMA AltStep ==
    ASSUME Inv, Alt
    PROVE  Inv'
  BY Unfold, PushPlaced DEF Alt, Goto, ghosts, TypeOK

LEMMA AltOverflowsStep ==
    ASSUME Inv, AltOverflows
    PROVE  Inv'
  <1>1. CASE w' = [w EXCEPT !.work = 1] /\ UNCHANGED blk /\ Goto("fail")
    <2>1. /\ w' \in Locals /\ w'.start = w.start /\ w'.pos = w.pos
          /\ w'.fallback = w.fallback /\ w'.kept = w.kept /\ w'.ready = w.ready
          /\ w'.work = 1 /\ w'.stack = w.stack
      BY <1>1, Unfold, LocalsAre DEF Locals
    <2>2. pc = "run" /\ pc' = "fail" /\ blk' = blk /\ ~w.fallback
      BY <1>1 DEF AltOverflows, Goto
    <2>3. /\ TypeOK' /\ n' = n /\ Budget' = Budget /\ pops' = pops
          /\ plan' = plan /\ host' = host /\ text' = text /\ opened' = opened
      BY <1>1, <2>1, <2>2, Unfold, Left, GotoLeaves DEF Calling, Body
    <2>4. Placed'
      BY <2>1, <2>2, <2>3, Unfold DEF Placed, Body, Calling
    <2>5. FramesPlaced'
      BY <2>1, <2>2, <2>3, Unfold DEF FramesPlaced
    <2>6. BudgetInv'
      BY <2>1, <2>2, <2>3, Unfold, LocalsAre DEF BudgetInv, Counting, Body
    <2> QED BY <2>3, <2>4, <2>5, <2>6 DEF Inv, Typed
  <1>2. CASE blk' = Trip(blk) /\ ToFallback
    <2>1. blk' \in Block /\ blk'.state = "tripped"
      BY <1>2, Unfold, BlockAre DEF Trip, Block
    <2> QED BY <1>2, <2>1, StartsOver DEF AltOverflows, Calling, Body
  <1> QED BY <1>1, <1>2 DEF AltOverflows

LEMMA AltVisitedStep ==
    ASSUME Inv, AltVisited
    PROVE  Inv'
  <1>1. /\ pc = "run" /\ pc' = "fail" /\ w' = w /\ blk' = blk /\ guards' = guards + 1
        /\ UNCHANGED <<fixed, text, ends, host, memo, own, opened, owner, pops>>
    BY DEF AltVisited
  <1>2. TypeOK' /\ n' = n /\ BudgetInv'
    <2>1. /\ guards' \in Nat /\ memo' \subseteq Marks /\ own' \subseteq Marks
          /\ pc \in Body /\ pc' \in Body
      BY <1>1, Unfold DEF TypeOK, Body
    <2> QED BY <1>1, <2>1, Unfold, BodyStep
  <1>3. Placed' /\ FramesPlaced'
    BY <1>1, <1>2, Unfold DEF Placed, FramesPlaced, fixed, Body, Calling
  <1> QED BY <1>2, <1>3 DEF Inv, Typed

LEMMA AltMarksStep ==
    ASSUME Inv, AltMarks
    PROVE  Inv'
  <1>1. /\ pc = "run" /\ blk' = blk /\ w.fallback
        /\ UNCHANGED <<fixed, text, ends, host, opened, owner, pops>>
    BY DEF AltMarks
  <1>2. guards' \in Nat /\ memo' \subseteq Marks /\ own' \subseteq Marks
    <2>1. Mark \in Marks
      BY Unfold, LocalsAre DEF Mark, Marks
    <2> QED BY <2>1, Unfold DEF AltMarks, TypeOK
  <1>3. CASE Push /\ pc' = "run"
    BY <1>1, <1>2, <1>3, PushPlaced
  <1>4. CASE pc' = "unknown" /\ w' = w
    <2>1. TypeOK' /\ n' = n /\ Budget' = Budget
      BY <1>1, <1>2, <1>4, Unfold DEF TypeOK, fixed, n, Budget
    <2>2. Placed' /\ FramesPlaced'
      BY <1>1, <1>4, <2>1, Unfold DEF Placed, FramesPlaced, fixed, Body, Calling
    <2>3. BudgetInv'
      BY <1>1, <1>4, <2>1, Unfold DEF BudgetInv, Counting, fixed, Body
    <2> QED BY <2>1, <2>2, <2>3 DEF Inv, Typed
  <1> QED BY <1>3, <1>4 DEF AltMarks

LEMMA FailEmptyStep ==
    ASSUME Inv, FailEmpty
    PROVE  Inv'
  <1>1. /\ w' \in Locals /\ w'.start = w.start + 1
        /\ w'.fallback = w.fallback /\ w'.kept = w.kept /\ w'.ready = w.ready
        /\ w'.work = w.work
    BY Unfold, LocalsAre DEF FailEmpty, Locals
  <1>2. /\ pc = "fail" /\ pc' = "outer" /\ blk' = blk
        /\ UNCHANGED <<fixed, text, ends, host, memo, own, opened, owner, guards, pops>>
    BY DEF FailEmpty, Goto, ghosts
  <1>3. TypeOK' /\ n' = n /\ BudgetInv'
    <2>1. /\ guards' \in Nat /\ memo' \subseteq Marks /\ own' \subseteq Marks
          /\ pc \in Body /\ pc' \in Body
      BY <1>2, Unfold DEF TypeOK, Body
    <2> QED BY <1>1, <1>2, <2>1, BodyStep
  <1>4. Placed' /\ FramesPlaced'
    BY <1>1, <1>2, <1>3, Unfold, LocalsAre, HostAre
    DEF Placed, FramesPlaced, fixed, Body, Calling
  <1> QED BY <1>3, <1>4 DEF Inv, Typed

\* The youngest frame comes off, and the attempt goes on from it.
LEMMA PoppedIs ==
    ASSUME Inv, pc = "fail", w.stack # << >>
    PROVE  /\ Popped \in Locals /\ Popped.start = w.start
           /\ Popped.fallback = w.fallback /\ Popped.kept = w.kept
           /\ Popped.ready = w.ready /\ Popped.work = w.work
           /\ Popped.pos = Top[1] /\ Popped.at = Top[2]
           /\ Len(w.stack) \in Nat \ {0} /\ Top = w.stack[Len(w.stack)]
           /\ Len(Popped.stack) = Len(w.stack) - 1
           /\ \A i \in 1..(Len(w.stack) - 1) : Popped.stack[i] = w.stack[i]
           /\ w.start <= Popped.pos /\ Popped.pos <= n
           /\ \A i \in 1..Len(Popped.stack) :
                 w.start <= Popped.stack[i][1] /\ Popped.stack[i][1] <= Popped.pos
           /\ \A i, j \in 1..Len(Popped.stack) :
                 i < j => Popped.stack[i][1] <= Popped.stack[j][1]
  <1> DEFINE rest == SubSeq(w.stack, 1, Len(w.stack) - 1)
  <1>1. w.stack \in Seq(Nat \X Pcs)
    BY Unfold, LocalsAre
  <1>2. /\ Len(w.stack) \in Nat \ {0} /\ Top = w.stack[Len(w.stack)]
        /\ Top \in Nat \X Pcs
        /\ rest \in Seq(Nat \X Pcs) /\ Len(rest) = Len(w.stack) - 1
        /\ \A i \in 1..(Len(w.stack) - 1) : rest[i] = w.stack[i]
    BY <1>1, ShorterStack DEF Top
  <1>3. Popped = [w EXCEPT !.pos = Top[1], !.at = Top[2], !.stack = rest]
    BY DEF Popped
  <1> HIDE DEF rest
  <1>4. /\ Popped \in Locals
        /\ Popped.stack = rest /\ Popped.pos = Top[1]
        /\ Popped.at = Top[2] /\ Popped.start = w.start /\ Popped.work = w.work
        /\ Popped.fallback = w.fallback /\ Popped.kept = w.kept /\ Popped.ready = w.ready
    BY <1>2, <1>3, Unfold DEF Locals
  <1>5. /\ \A i \in 1..Len(w.stack) : w.start <= w.stack[i][1] /\ w.stack[i][1] <= w.pos
        /\ \A i, j \in 1..Len(w.stack) : i < j => w.stack[i][1] <= w.stack[j][1]
        /\ w.pos <= n /\ w.start \in Nat /\ w.pos \in Nat /\ n \in Nat
        /\ \A i \in 1..Len(w.stack) : w.stack[i][1] \in Nat
    BY <1>1, Unfold, LocalsAre DEF FramesPlaced
  <1>6. Len(w.stack) \in 1..Len(w.stack)
    BY <1>2
  <1>7. w.start <= Top[1] /\ Top[1] <= n /\ Top[1] \in Nat
    BY <1>2, <1>5, <1>6
  <1>8. \A i \in 1..Len(rest) : i \in 1..Len(w.stack) /\ i < Len(w.stack)
                                /\ rest[i] = w.stack[i]
    BY <1>2
  <1>9. \A i \in 1..Len(rest) : w.start <= rest[i][1] /\ rest[i][1] <= Top[1]
    BY <1>2, <1>5, <1>6, <1>8
  <1>10. \A i, j \in 1..Len(rest) : i < j => rest[i][1] <= rest[j][1]
    BY <1>5, <1>8
  <1> QED BY <1>2, <1>4, <1>7, <1>8, <1>9, <1>10

LEMMA PopFallbackStep ==
    ASSUME Inv, PopFallback
    PROVE  Inv'
  <1>1. /\ pc = "fail" /\ pc' = "run" /\ w.stack # << >> /\ blk' = blk /\ w' = Popped
        /\ UNCHANGED <<fixed, text, ends, host, memo, own, opened, owner, guards, pops>>
    BY DEF PopFallback, Goto, ghosts
  <1>2. TypeOK' /\ n' = n /\ BudgetInv'
    <2>1. /\ guards' \in Nat /\ memo' \subseteq Marks /\ own' \subseteq Marks
          /\ pc \in Body /\ pc' \in Body
      BY <1>1, Unfold DEF TypeOK, Body
    <2> QED BY <1>1, <2>1, PoppedIs, BodyStep
  <1>3. Placed'
    BY <1>1, <1>2, PoppedIs, Unfold DEF Placed, fixed, Body, Calling
  <1>4. FramesPlaced'
    BY <1>1, <1>2, PoppedIs DEF FramesPlaced
  <1> QED BY <1>2, <1>3, <1>4 DEF Inv, Typed

LEMMA PopStep ==
    ASSUME Inv, Pop
    PROVE  Inv'
  <1>1. /\ pc = "fail" /\ pc' = "run" /\ w.stack # << >> /\ blk' = blk /\ ~w.fallback
        /\ w' = [Popped EXCEPT !.work = Charged] /\ pops' = pops + 1 /\ w.work - 1 # 0
        /\ UNCHANGED <<fixed, text, ends, host, memo, own, opened, owner, guards>>
    BY DEF Pop, Charged
  <1>2. w.work - 1 > 0 /\ w.work - 1 \in Nat
    BY <1>1, Unfold, LocalsAre DEF BudgetInv, Counting, Body
  <1>3. /\ w' \in Locals /\ w'.start = Popped.start /\ w'.pos = Popped.pos
        /\ w'.fallback = w.fallback /\ w'.kept = w.kept /\ w'.ready = w.ready
        /\ w'.work = w.work - 1 /\ w'.stack = Popped.stack
    BY <1>1, <1>2, PoppedIs DEF Charged, Locals
  <1>4. /\ TypeOK' /\ n' = n /\ Budget' = Budget
        /\ plan' = plan /\ host' = host /\ text' = text /\ opened' = opened
    <2>1. pops' \in Nat /\ pc' \in Calling
      BY <1>1, Unfold DEF Calling, Body
    <2> QED BY <1>1, <1>3, <2>1, Unfold, Left
  <1>5. Placed'
    BY <1>1, <1>3, <1>4, PoppedIs, Unfold DEF Placed, Body, Calling
  <1>6. FramesPlaced'
    BY <1>1, <1>3, <1>4, PoppedIs DEF FramesPlaced
  <1>7. BudgetInv'
    BY <1>1, <1>2, <1>3, <1>4, Unfold, LocalsAre DEF BudgetInv, Counting, Body
  <1> QED BY <1>4, <1>5, <1>6, <1>7 DEF Inv, Typed

LEMMA BudgetSpentStep ==
    ASSUME Inv, BudgetSpent
    PROVE  Inv'
  <1>1. blk' \in Block /\ blk'.state = "tripped"
    BY Unfold, BlockAre DEF BudgetSpent, Trip, Block
  <1> QED BY <1>1, StartsOver DEF BudgetSpent, Calling, Body
-----------------------------------------------------------------------------
(* How a call ends, and the host. *)

\* A step after which no call runs.
LEMMA NoCall ==
    ASSUME Inv, pc' \in {"host", "after"}, UNCHANGED <<fixed, text, ends, opened, owner, pops>>,
           host' \in Hosts, host'.from <= n + 1, pc' = "after" => host'.status = "driving",
           w' \in Locals, ~w'.kept, ~w'.fallback, blk' \in Block, guards' \in Nat,
           memo' \subseteq Marks, own' \subseteq Marks
    PROVE  TypeOK' /\ n' = n /\ Budget' = Budget /\ Placed' /\ FramesPlaced'
  <1>1. TypeOK' /\ n' = n /\ Budget' = Budget
    BY Unfold DEF TypeOK, fixed, n, Budget
  <1> QED BY <1>1, Unfold DEF Placed, FramesPlaced, Body, Calling

LEMMA MatchStep ==
    ASSUME Inv, Match
    PROVE  Inv'
  <1>1. /\ pc = "run" /\ pc' = "after" /\ w' = NoLocals /\ own' = {} /\ blk' = Saved(blk)
        /\ memo' = IF w.kept THEN MemoAfterMatch ELSE memo
        /\ UNCHANGED <<fixed, text, ends, opened, owner, pops, guards>>
    BY DEF Match, ghosts
  <1>2. /\ w.start \in Nat /\ w.pos \in Nat /\ w.start <= w.pos /\ w.pos <= n
        /\ w.start <= n /\ n \in Nat
    BY <1>1, Unfold, LocalsAre DEF FramesPlaced, Placed
  <1>3. /\ ResumeAfter(w.start, w.pos) \in Nat
        /\ ResumeAfter(w.start, w.pos) <= n + 1
    BY <1>2 DEF ResumeAfter
  <1>4. PICK list \in Seq(Nat \X Nat) :
           host' = [host EXCEPT !.from = ResumeAfter(w.start, w.pos), !.prevEnd = w.pos,
                                !.answers = list]
    <2>1. host.answers \in Seq(Nat \X Nat) /\ <<w.start, w.pos>> \in Nat \X Nat
      BY <1>2, Unfold, HostAre
    <2>2. Append(host.answers, <<w.start, w.pos>>) \in Seq(Nat \X Nat)
      BY <2>1
    <2> QED BY <2>1, <2>2, Unfold, HostAre DEF Match
  <1>5. /\ host' \in Hosts /\ host'.from = ResumeAfter(w.start, w.pos)
        /\ host'.status = host.status
    BY <1>2, <1>3, <1>4, Unfold DEF Hosts
  <1>6. host.status = "driving"
    BY <1>1, Unfold DEF Placed, Calling, Body
  <1>7. w' \in Locals /\ ~w'.kept /\ ~w'.fallback
    BY <1>1, Unfold, NothingTyped
  <1>8. /\ blk' \in Block /\ blk'.state = blk.state
        /\ w.fallback => blk' = blk
        /\ ~w.fallback => blk'.budget = w.work
    BY <1>1, Unfold, BlockAre, LocalsAre DEF Saved, Block
  <1>9. memo' \subseteq Marks /\ own' \subseteq Marks /\ guards' \in Nat
    BY <1>1, Unfold DEF TypeOK, MemoAfterMatch
  <1>10. TypeOK' /\ n' = n /\ Budget' = Budget /\ Placed' /\ FramesPlaced'
    BY <1>1, <1>3, <1>5, <1>6, <1>7, <1>8, <1>9, NoCall
  <1>11. BudgetInv'
    BY <1>1, <1>7, <1>8, <1>10, Unfold, BlockAre, LocalsAre
    DEF BudgetInv, Counting, Body, fixed
  <1> QED BY <1>10, <1>11 DEF Inv, Typed

\* The call ends without a match.
LEMMA CallEnds ==
    ASSUME Inv, pc \in {"none", "unknown"}, pc' = "host", NEW status \in {"done", "unknown"},
           host' = [host EXCEPT !.status = status], w' = NoLocals, own' = {},
           UNCHANGED <<fixed, text, ends, blk, memo, ghosts>>
    PROVE  Inv'
  <1>1. host' \in Hosts /\ host'.from = host.from /\ host'.status = status
    BY Unfold DEF Hosts
  <1>2. w' \in Locals /\ ~w'.kept /\ ~w'.fallback
    BY Unfold, NothingTyped
  <1>3. /\ UNCHANGED <<fixed, text, ends, opened, owner, pops>> /\ guards' \in Nat
        /\ memo' \subseteq Marks /\ own' \subseteq Marks /\ blk' = blk
    BY Unfold DEF TypeOK, ghosts
  <1>4. TypeOK' /\ n' = n /\ Budget' = Budget /\ Placed' /\ FramesPlaced'
    BY <1>1, <1>2, <1>3, Unfold, NoCall DEF Placed
  <1>5. BudgetInv'
    BY <1>1, <1>2, <1>3, <1>4, Unfold DEF BudgetInv, Counting, Body, fixed
  <1> QED BY <1>4, <1>5 DEF Inv, Typed

LEMMA HostStep ==
    ASSUME Inv, Host
    PROVE  Inv'
  <1>1. CASE CallFind
    <2>1. /\ w' \in Locals /\ w'.start = host.from /\ ~w'.fallback /\ ~w'.kept
          /\ ~w'.ready
      BY <1>1, Unfold, HostAre, NothingTyped DEF CallFind, Locals
    <2>2. /\ pc = "host" /\ host.status = "driving" /\ host.from <= n
          /\ pc' = IF plan.force THEN "forced" ELSE "anchor"
          /\ blk' = blk
          /\ UNCHANGED <<fixed, text, ends, host, memo, own, opened, owner, pops, guards>>
      BY <1>1 DEF CallFind, ghosts
    <2>3. /\ TypeOK' /\ n' = n /\ Budget' = Budget
          /\ plan' = plan /\ host' = host /\ text' = text /\ opened' = opened
      <3>1. pc' \in Calling
        BY <2>2 DEF Calling
      <3>2. blk' \in Block /\ pops' \in Nat
        BY <2>2, Unfold
      <3> QED BY <2>1, <2>2, <3>1, <3>2, Left
    <2>4. Placed' /\ FramesPlaced'
      <3>1. CASE plan.force
        BY <2>1, <2>2, <2>3, <3>1, Unfold, HostAre DEF Placed, FramesPlaced, Body, Calling
      <3>2. CASE ~plan.force
        BY <2>1, <2>2, <2>3, <3>2, Unfold, HostAre DEF Placed, FramesPlaced, Body, Calling
      <3> QED BY <3>1, <3>2
    <2>5. BudgetInv'
      BY <2>1, <2>2, <2>3, Unfold DEF BudgetInv, Counting, Body, Calling
    <2> QED BY <2>3, <2>4, <2>5 DEF Inv, Typed
  <1>2. CASE PastTheEnd
    <2>1. /\ host' \in Hosts /\ host'.from = host.from /\ host'.status = "done"
      BY <1>2, Unfold DEF PastTheEnd, Hosts
    <2>2. /\ pc = "host" /\ pc' = pc /\ w' = w /\ blk' = blk /\ host.from > n
          /\ UNCHANGED <<fixed, text, ends, opened, owner, pops, memo, own, guards>>
      BY <1>2 DEF PastTheEnd, ghosts
    <2>3. TypeOK' /\ n' = n /\ Budget' = Budget
      BY <2>1, <2>2, Unfold DEF TypeOK, fixed, n, Budget
    <2>4. Placed' /\ FramesPlaced'
      BY <2>1, <2>2, <2>3, Unfold DEF Placed, FramesPlaced, Body, Calling
    <2>5. BudgetInv'
      BY <2>1, <2>2, <2>3, Unfold DEF BudgetInv, Counting, Body, Calling, fixed
    <2> QED BY <2>3, <2>4, <2>5 DEF Inv, Typed
  <1>3. CASE GiveMemo \/ MemoRefused \/ NothingToGive
    <2>1. /\ host' \in Hosts /\ host'.from = host.from
          /\ host' # host => blk.state = "tripped"
      BY <1>3, Unfold DEF GiveMemo, MemoRefused, NothingToGive, Hosts, WantsMemo
    <2>2. blk' \in Block /\ blk'.state = blk.state /\ blk'.budget = blk.budget
      <3>1. n + 1 \in Nat
        BY Unfold
      <3> QED BY <1>3, <3>1, Unfold DEF GiveMemo, MemoRefused, NothingToGive, Block
    <2>3. /\ pc = "after" /\ pc' = "host" /\ w' = w
          /\ UNCHANGED <<fixed, text, ends, opened, owner, pops, own, guards>>
          /\ memo' \subseteq Marks
      BY <1>3, Unfold DEF GiveMemo, MemoRefused, NothingToGive, ghosts, TypeOK
    <2>4. TypeOK' /\ n' = n /\ Budget' = Budget
      BY <2>1, <2>2, <2>3, Unfold DEF TypeOK, fixed, n, Budget
    <2>5. Placed' /\ FramesPlaced'
      BY <2>1, <2>2, <2>3, <2>4, Unfold DEF Placed, FramesPlaced, Body, Calling
    <2>6. BudgetInv'
      BY <2>1, <2>2, <2>3, <2>4, Unfold DEF BudgetInv, Counting, Body, Calling, fixed
    <2> QED BY <2>4, <2>5, <2>6 DEF Inv, Typed
  <1> QED BY <1>1, <1>2, <1>3 DEF Host

\* Another search on the same block.
LEMMA ReuseStep ==
    ASSUME Inv, ReuseBlock
    PROVE  Inv'
  <1>0. PICK t \in mode.again : \E offset \in 0..LenOf(t) :
           /\ text' = t /\ ends' = Ends(prog, t) /\ host' = HostAt(offset)
    BY DEF ReuseBlock
  <1>1. PICK offset \in 0..LenOf(t) :
           /\ text' = t /\ ends' = Ends(prog, t) /\ host' = HostAt(offset)
    BY <1>0
  <1>2. t \in Texts /\ LenOf(t) \in Nat
    BY Unfold, ModeAssumption, TextAssumption DEF TypeOK, Mode, Text, LenOf
  <1>3. /\ host' \in Hosts /\ host'.from = offset /\ offset \in Nat
        /\ n' = LenOf(t)
    BY <1>1, <1>2 DEF HostAt, Hosts, n
  <1>4. /\ pc = "host" /\ pc' = pc /\ w' = w /\ blk' = blk /\ guards' = 0
        /\ UNCHANGED <<fixed, memo, own, opened, owner, pops>>
        /\ host.status # "driving"
    BY DEF ReuseBlock
  <1>5. ends' \in [0..LenOf(t) -> [Pcs -> (0..LenOf(t)) \union {NoMatch}]]
    BY <1>1, <1>2, Unfold, EndsTyped DEF TypeOK
  <1>6. TypeOK' /\ Budget' = Budget
    <2>1. TypeOK'
      BY <1>1, <1>2, <1>3, <1>4, <1>5, Unfold DEF TypeOK, fixed
    <2> QED BY <1>4, <2>1 DEF Budget
  <1>7. Placed' /\ FramesPlaced'
    BY <1>2, <1>3, <1>4, Unfold DEF Placed, FramesPlaced, Body, Calling
  <1>8. BudgetInv'
    BY <1>3, <1>4, <1>6, Unfold DEF BudgetInv, Counting, Body, Calling, fixed
  <1> QED BY <1>6, <1>7, <1>8 DEF Inv, Typed

LEMMA Stutters == Inv /\ UNCHANGED vars => Inv'
  BY DEF Inv, Typed, TypeOK, Placed, FramesPlaced, BudgetInv, Counting, Budget, n, vars

LEMMA InvStep ==
    ASSUME Inv, [Next]_vars
    PROVE  Inv'
  <1>1. CASE Call
    <2>1. CASE EnterForced \/ CheckAnchor \/ EnterTripped \/ EnterNew \/ EnterLive
      BY <2>1, EnterForcedStep, CheckAnchorStep, EnterTrippedStep, EnterNewStep,
         EnterLiveStep
    <2>2. CASE Attempt \/ NoMoreStarts \/ PlaceStack \/ StackRefused
               \/ PlaceSearchMemo \/ PlaceOwnMemo
      BY <2>2, AttemptStep, NoMoreStartsStep, PlaceStackStep, StackRefusedStep,
         PlaceSearchMemoStep, PlaceOwnMemoStep
    <2>3. CASE ReadByte \/ EmptyWidth \/ Fail \/ Alt \/ AltOverflows \/ AltVisited
               \/ AltMarks
      BY <2>3, ReadByteStep, EmptyWidthStep, FailStep, AltStep, AltOverflowsStep,
         AltVisitedStep, AltMarksStep
    <2>4. CASE FailEmpty \/ PopFallback \/ Pop \/ BudgetSpent
      BY <2>4, FailEmptyStep, PopFallbackStep, PopStep, BudgetSpentStep
    <2>5. CASE Match
      BY <2>5, MatchStep
    <2>6. CASE None \/ Unknown
      BY <2>6, CallEnds DEF None, Unknown
    <2> QED BY <1>1, <2>1, <2>2, <2>3, <2>4, <2>5, <2>6 DEF Call
  <1>2. CASE Host
    BY <1>2, HostStep
  <1>3. CASE ReuseBlock
    BY <1>3, ReuseStep
  <1>4. CASE UNCHANGED vars
    BY <1>4, Stutters
  <1> QED BY <1>1, <1>2, <1>3, <1>4 DEF Next

LEMMA Invariant == Spec => []Inv
  <1>1. Inv /\ [Next]_vars => Inv'
    BY InvStep
  <1> QED BY <1>1, Begins, PTL DEF Spec

\* The types hold; that a count of the work left never goes below zero is what
\* takes the budget's invariant.
THEOREM TypeCorrect == Spec => []TypeOK
  <1>1. Inv => TypeOK
    BY DEF Inv, Typed
  <1> QED BY <1>1, Invariant, PTL

\* All the calls of a search together pop at most the one budget it was given,
\* and a counter that is tested for having reached zero always comes to it:
\* emitFindEntry, emitFindSave and emitBTWorkCharge.
THEOREM BudgetPerSearch == Spec => []SearchBudget
  <1>1. Inv => SearchBudget
    BY DEF Inv, BudgetInv, SearchBudget, Counting, Body, Budget
  <1> QED BY <1>1, Invariant, PTL
-----------------------------------------------------------------------------
(* Whose marks the memo holds. *)

MemoInv ==
    /\ blk.len # 0 => blk.memo /\ blk.ptr = owner.ptr /\ blk.len = LenOf(owner) + 1
    /\ blk.len = 0 => memo = {}
    /\ Recorded => owner = text
    /\ w.kept => Recorded

LEMMA MemoLeft ==
    ASSUME MemoInv, UNCHANGED <<text, owner>>, memo' \subseteq memo,
           blk'.len = blk.len, blk'.ptr = blk.ptr, blk'.memo = blk.memo,
           w'.kept => w.kept
    PROVE  MemoInv'
  BY DEF MemoInv, Recorded, n

\* The fields of the block a call's bookkeeping leaves alone.
LEMMA BookkeepingLeaves ==
    ASSUME blk \in Block, NEW budget
    PROVE  /\ Trip(blk).len = blk.len /\ Trip(blk).ptr = blk.ptr /\ Trip(blk).memo = blk.memo
           /\ Trip(blk).cap = blk.cap
           /\ Opened(blk, budget).len = blk.len /\ Opened(blk, budget).ptr = blk.ptr
           /\ Opened(blk, budget).memo = blk.memo /\ Opened(blk, budget).cap = blk.cap
           /\ Saved(blk).len = blk.len /\ Saved(blk).ptr = blk.ptr
           /\ Saved(blk).memo = blk.memo /\ Saved(blk).cap = blk.cap
  BY BlockAre DEF Trip, Opened, Saved

LEMMA MemoCall ==
    ASSUME Inv, MemoInv, Call
    PROVE  MemoInv'
  <1> USE Unfold
  <1>0. TypeOK /\ w \in Locals /\ blk \in Block
    OBVIOUS
  <1>1. ~NoLocals.kept /\ ~Handed.kept
    BY <1>0, NothingTyped, LocalsAre DEF Handed, Locals
  <1>2. CASE EnterForced \/ CheckAnchor \/ EnterTripped \/ EnterNew \/ EnterLive
    <2>1. /\ UNCHANGED <<text, owner, memo>>
          /\ blk' = blk \/ blk' = Trip(blk) \/ blk' = Opened(blk, Rate * (n + 1))
      BY <1>2 DEF EnterForced, CheckAnchor, EnterTripped, EnterNew, EnterLive, ToFallback,
                  Goto, ghosts
    <2>2. w'.kept => w.kept
      BY <1>0, <1>1, <1>2, LocalsAre
      DEF EnterForced, CheckAnchor, EnterTripped, EnterNew, EnterLive, ToFallback
    <2> QED BY <2>1, <2>2, BookkeepingLeaves, MemoLeft
  <1>3. CASE Attempt \/ NoMoreStarts \/ PlaceStack \/ StackRefused \/ PlaceOwnMemo
    <2>1. /\ UNCHANGED <<text, owner, memo>>
          /\ blk' = blk \/ blk' = Trip(blk) \/ blk' = Saved(blk)
      BY <1>3 DEF Attempt, NoMoreStarts, PlaceStack, StackRefused, PlaceOwnMemo, ToFallback,
                  Goto, ghosts
    <2>2. w'.kept => w.kept
      BY <1>0, <1>1, <1>3, LocalsAre
      DEF Attempt, NoMoreStarts, PlaceStack, StackRefused, PlaceOwnMemo, ToFallback
    <2> QED BY <2>1, <2>2, BookkeepingLeaves, MemoLeft
  <1>4. CASE PlaceSearchMemo
    <2>1. /\ text' = text /\ owner' = text /\ blk.memo
          /\ blk' = [blk EXCEPT !.ptr = text.ptr, !.len = n + 1]
          /\ memo' = IF blk.len = 0 \/ Recorded THEN memo
                     ELSE {mark \in memo : mark[2] > n}
      BY <1>4 DEF PlaceSearchMemo, Serves
    <2>2. blk'.ptr = text.ptr /\ blk'.len = n + 1 /\ blk'.memo
      BY <2>1, BlockAre
    <2> QED BY <2>1, <2>2 DEF MemoInv, Recorded, n
  <1>5. CASE ReadByte \/ EmptyWidth \/ Fail \/ Alt \/ AltOverflows \/ AltVisited
    <2>1. /\ UNCHANGED <<text, owner, memo>>
          /\ blk' = blk \/ blk' = Trip(blk)
      BY <1>5 DEF ReadByte, EmptyWidth, Fail, Fails, Alt, AltOverflows, AltVisited,
                  ToFallback, Goto, ghosts
    <2>2. w'.kept => w.kept
      BY <1>0, <1>1, <1>5, LocalsAre
      DEF ReadByte, EmptyWidth, Fail, Fails, GoesOn, Alt, AltOverflows, AltVisited,
          ToFallback, Push
    <2> QED BY <2>1, <2>2, BookkeepingLeaves, MemoLeft
  <1>6. CASE AltMarks
    <2>1. /\ UNCHANGED <<text, owner, blk>>
          /\ memo' # memo => w.kept
      BY <1>6 DEF AltMarks
    <2>2. w'.kept => w.kept
      BY <1>0, <1>6, LocalsAre DEF AltMarks, Push
    <2>3. memo' # memo => blk.len # 0
      BY <2>1 DEF MemoInv, Recorded
    <2> QED BY <2>1, <2>2, <2>3 DEF MemoInv, Recorded, n
  <1>7. CASE FailEmpty \/ PopFallback \/ Pop \/ BudgetSpent
    <2>1. /\ UNCHANGED <<text, owner, memo>>
          /\ blk' = blk \/ blk' = Trip(blk)
      BY <1>7 DEF FailEmpty, PopFallback, Pop, BudgetSpent, ToFallback, Goto, ghosts
    <2>2. w'.kept => w.kept
      BY <1>0, <1>1, <1>7, LocalsAre DEF FailEmpty, PopFallback, Pop, Popped, BudgetSpent,
                                         ToFallback
    <2> QED BY <2>1, <2>2, BookkeepingLeaves, MemoLeft
  <1>8. CASE Match \/ None \/ Unknown
    <2>1. /\ UNCHANGED <<text, owner>> /\ memo' \subseteq memo
          /\ blk' = blk \/ blk' = Saved(blk)
          /\ ~w'.kept
      BY <1>1, <1>8 DEF Match, None, Unknown, MemoAfterMatch, ghosts
    <2> QED BY <2>1, BookkeepingLeaves, MemoLeft
  <1> QED BY <1>2, <1>3, <1>4, <1>5, <1>6, <1>7, <1>8 DEF Call

LEMMA MemoStep ==
    ASSUME Inv, MemoInv, [Next]_vars
    PROVE  MemoInv'
  <1> USE Unfold
  <1>1. CASE Host
    <2>1. CASE GiveMemo
      <3>1. blk'.len = blk.len /\ blk'.ptr = blk.ptr /\ blk'.memo
        BY <2>1, BlockAre DEF GiveMemo
      <3>2. UNCHANGED <<text, owner, w>> /\ memo' = {}
        BY <2>1 DEF GiveMemo, ghosts
      <3> QED BY <3>1, <3>2 DEF MemoInv, Recorded, n
    <2>2. CASE CallFind \/ PastTheEnd \/ MemoRefused \/ NothingToGive
      <3>1. UNCHANGED <<text, owner, memo, blk>>
        BY <2>2 DEF CallFind, PastTheEnd, MemoRefused, NothingToGive, ghosts
      <3>2. w'.kept => w.kept
        <4>1. ~NoLocals.kept /\ NoLocals \in Locals
          BY NothingTyped
        <4>2. CASE CallFind
          BY <4>1, <4>2 DEF CallFind, Locals
        <4> QED BY <2>2, <4>2 DEF PastTheEnd, MemoRefused, NothingToGive
      <3> QED BY <3>1, <3>2, MemoLeft
    <2> QED BY <1>1, <2>1, <2>2 DEF Host
  <1>2. CASE ReuseBlock
    <2>1. PICK t \in mode.again : text' = t /\ ~Undetectable(t)
      BY <1>2 DEF ReuseBlock
    <2>2. UNCHANGED <<memo, owner, blk, w>> /\ pc = "host"
      BY <1>2 DEF ReuseBlock
    <2>3. ~w.kept
      BY <2>2 DEF Placed
    <2> QED BY <2>1, <2>2, <2>3 DEF MemoInv, Recorded, n, Undetectable
  <1>3. CASE UNCHANGED vars
    BY <1>3 DEF vars, MemoInv, Recorded, n
  <1> QED BY <1>1, <1>2, <1>3, MemoCall DEF Next
-----------------------------------------------------------------------------
(* The marks that are no failures. *)

\* The configurations the running attempt has still to try.
Frames == {w.stack[i] : i \in 1..Len(w.stack)}
Pending == Frames \union (IF pc = "run" THEN {<<w.pos, w.at>>} ELSE {})

Meaning == Ends(prog, owner)
Far == Distances(prog, owner, Meaning)
Leads(c) == Meaning[c[1]][c[2]] # NoMatch
Fruitless(mark) == mark[2] <= LenOf(owner) => Meaning[mark[2]][mark[1]] = NoMatch

\* A mark that is no failure stands for something pending, at its position or
\* later, that leads to a match and is nearer to it.
Vouched(mark) ==
    /\ w.start <= mark[2]
    /\ \E c \in Pending : /\ mark[2] <= c[1] /\ Leads(c)
                          /\ Far[c[1]][c[2]] < Far[mark[2]][mark[1]]

Marking == pc \in {"run", "fail"} /\ w.kept
GaveUp == pc = "unknown" \/ host.status = "unknown"

MarksInv ==
    /\ GaveUp => mode.refuse
    /\ \/ GaveUp
       \/ \A mark \in memo : Fruitless(mark) \/ (Marking /\ Vouched(mark))

All == Inv /\ MemoInv /\ MarksInv

\* A mode that may run out of memory is one whose search, once it could not be
\* told the answer, is not searched again on the same block: the iterators throw.
StopsWhenRefused == \A m \in Modes : m.refuse => m.again = {}

LEMMA Configurations ==
    ASSUME Inv, pc \in {"run", "fail"}
    PROVE  /\ Frames \subseteq (0..n) \X Pcs /\ Pending \subseteq (0..n) \X Pcs
           /\ \A c \in Pending : w.start <= c[1] /\ c[1] <= w.pos
           /\ w.pos \in 0..n /\ w.start \in Nat /\ w.at \in Pcs
  <1>1. /\ w.stack \in Seq(Nat \X Pcs) /\ w.pos \in 0..n /\ w.start \in Nat /\ w.at \in Pcs
        /\ w.start <= w.pos /\ n \in Nat
        /\ \A i \in 1..Len(w.stack) : w.start <= w.stack[i][1] /\ w.stack[i][1] <= w.pos
    BY Unfold, LocalsAre DEF FramesPlaced
  <1>2. \A i \in 1..Len(w.stack) : w.stack[i] \in (0..n) \X Pcs
    BY <1>1
  <1> QED BY <1>1, <1>2 DEF Frames, Pending

\* What an instruction leads to, one instruction on.
LEMMA OneOn ==
    ASSUME Inv, owner = text, NEW s \in 0..n, NEW p \in Pcs
    PROVE  /\ Far[s][p] \in Nat
           /\ Meaning[s][p] # NoMatch =>
                 \/ OpAt(prog, p) = "match"
                 \/ \E c \in Onward(prog, text, s, p) : Leads(c) /\ Far[c[1]][c[2]] < Far[s][p]
  <1>1. prog \in Programs /\ owner \in Texts /\ n = LenOf(owner)
    BY Unfold DEF TypeOK, n
  <1>2. Explained(prog, owner, Meaning, Far)
    BY <1>1, EndsTyped DEF Meaning, Far
  <1> HIDE DEF Meaning, Far
  <1> QED BY <1>1, <1>2 DEF Explained, Leads

\* Where a step leaves something pending that is as near, the mark stands.
LEMMA StillVouched ==
    ASSUME Inv, Marking, owner = text, UNCHANGED <<prog, owner>>, w'.start = w.start,
           NEW mark \in (Pcs \X (0..n)), Vouched(mark),
           \A c \in Pending : Leads(c) =>
              \E d \in Pending' : /\ d \in (0..n) \X Pcs
                                  /\ c[1] <= d[1] /\ Leads(d) /\ Far[d[1]][d[2]] <= Far[c[1]][c[2]]
    PROVE  Vouched(mark)'
  <1>1. Meaning' = Meaning /\ Far' = Far
    BY DEF Meaning, Far
  <1>2. PICK c \in Pending : /\ mark[2] <= c[1] /\ Leads(c)
                             /\ Far[c[1]][c[2]] < Far[mark[2]][mark[1]]
    BY DEF Vouched
  <1>3. PICK d \in Pending' : /\ d \in (0..n) \X Pcs
                              /\ c[1] <= d[1] /\ Leads(d) /\ Far[d[1]][d[2]] <= Far[c[1]][c[2]]
    BY <1>2
  <1>4. c \in (0..n) \X Pcs
    BY Configurations DEF Marking
  <1>5. Far[c[1]][c[2]] \in Nat /\ Far[d[1]][d[2]] \in Nat /\ Far[mark[2]][mark[1]] \in Nat
    BY <1>3, <1>4, OneOn
  <1>6. Leads(d)' /\ Far'[d[1]][d[2]] < Far'[mark[2]][mark[1]]
    BY <1>1, <1>2, <1>3, <1>5 DEF Leads
  <1>7. mark[2] <= d[1]
    BY <1>2, <1>3, <1>4
  <1>8. w'.start <= mark[2]
    BY DEF Vouched
  <1> QED BY <1>3, <1>6, <1>7, <1>8 DEF Vouched

\* The attempt's marks are settled before it goes on, or not at all.
LEMMA Settled ==
    ASSUME MarksInv, ~Marking, ~GaveUp
    PROVE  \A mark \in memo : Fruitless(mark)
  BY DEF MarksInv

LEMMA Quiet ==
    ASSUME MarksInv, ~Marking, ~GaveUp, UNCHANGED <<prog, owner>>, memo' \subseteq memo,
           GaveUp' => mode'.refuse
    PROVE  MarksInv'
  <1>1. \A mark \in memo : Fruitless(mark)
    BY Settled
  <1> QED BY <1>1 DEF MarksInv, Fruitless, Meaning

LEMMA MarkingOn ==
    ASSUME All, Marking
    PROVE  /\ owner = text /\ ~GaveUp /\ w.fallback
           /\ \A mark \in memo :
                 Fruitless(mark) \/ (mark \in Pcs \X (0..n) /\ Vouched(mark))
  <1>1. owner = text
    BY DEF All, MemoInv, Marking
  <1>2. ~GaveUp
    BY Unfold DEF All, Marking, GaveUp, Placed, Calling, Body
  <1>3. w.fallback
    BY Unfold DEF All, Marking, Placed
  <1>4. \A mark \in memo : Fruitless(mark) \/ Vouched(mark)
    BY <1>2 DEF All, MarksInv
  <1>5. \A mark \in memo : ~Fruitless(mark) => mark \in Pcs \X (0..n)
    <2> SUFFICES ASSUME NEW mark \in memo, ~Fruitless(mark)
                 PROVE  mark \in Pcs \X (0..n)
      OBVIOUS
    <2>1. mark \in Pcs \X Nat
      BY Unfold DEF All, TypeOK, Marks
    <2>2. mark[2] <= n
      BY <1>1 DEF Fruitless, n
    <2> QED BY <2>1, <2>2, Unfold DEF All
  <1> QED BY <1>1, <1>2, <1>3, <1>4, <1>5

LEMMA AttemptGoesOn ==
    ASSUME All, Marking, pc' \in {"run", "fail"}, w'.start = w.start, w'.kept,
           UNCHANGED <<prog, mode, host, owner, memo>>,
           \A c \in Pending : Leads(c) =>
              \E d \in Pending' : /\ d \in (0..n) \X Pcs
                                  /\ c[1] <= d[1] /\ Leads(d) /\ Far[d[1]][d[2]] <= Far[c[1]][c[2]]
    PROVE  MarksInv'
  <1>1. ~GaveUp'
    BY MarkingOn DEF GaveUp
  <1>2. Marking'
    BY DEF Marking
  <1> SUFFICES ASSUME NEW mark \in memo
               PROVE  Fruitless(mark)' \/ Vouched(mark)'
    BY <1>1, <1>2 DEF MarksInv
  <1>3. CASE Fruitless(mark)
    BY <1>3 DEF Fruitless, Meaning
  <1>4. CASE mark \in Pcs \X (0..n) /\ Vouched(mark)
    BY <1>4, MarkingOn, StillVouched DEF All
  <1> QED BY <1>3, <1>4, MarkingOn

\* What was pending and still is, is as near as it was.
LEMMA AsNear ==
    ASSUME All, Marking, NEW c \in Pending
    PROVE  c \in (0..n) \X Pcs /\ c[1] <= c[1] /\ Far[c[1]][c[2]] <= Far[c[1]][c[2]]
  <1>1. c \in (0..n) \X Pcs
    BY Configurations DEF All, Marking
  <1>2. Far[c[1]][c[2]] \in Nat
    BY <1>1, MarkingOn, OneOn DEF All
  <1> QED BY <1>1, <1>2

\* The instruction the attempt is at.
LEMMA Current ==
    ASSUME All, Marking, pc = "run"
    PROVE  /\ <<w.pos, w.at>> \in (0..n) \X Pcs /\ <<w.pos, w.at>> \in Pending
           /\ Pending = Frames \union {<<w.pos, w.at>>}
           /\ OpAt(prog, w.at) = Here.op /\ Here = prog.inst[w.at]
           /\ Leads(<<w.pos, w.at>>) =>
                 \/ Here.op = "match"
                 \/ \E c \in Onward(prog, text, w.pos, w.at) :
                       Leads(c) /\ Far[c[1]][c[2]] < Far[w.pos][w.at]
  <1>1. w.pos \in 0..n /\ w.at \in Pcs
    BY Configurations DEF All, Marking
  <1>2. OpAt(prog, w.at) = Here.op /\ Here = prog.inst[w.at]
    BY DEF OpAt, Here
  <1>3. Meaning[w.pos][w.at] # NoMatch =>
           \/ OpAt(prog, w.at) = "match"
           \/ \E c \in Onward(prog, text, w.pos, w.at) :
                 Leads(c) /\ Far[c[1]][c[2]] < Far[w.pos][w.at]
    BY <1>1, MarkingOn, OneOn DEF All
  <1> QED BY <1>1, <1>2, <1>3 DEF Pending, Leads

\* Where control goes from it.
LEMMA OnwardIs ==
    ASSUME All, Marking, pc = "run"
    PROVE  /\ Here.op = "byte" /\ w.pos < n /\ ByteAt(text, w.pos) \in Here.set =>
                 Onward(prog, text, w.pos, w.at) = {<<w.pos + 1, Here.out>>}
           /\ Here.op = "byte" /\ ~(w.pos < n /\ ByteAt(text, w.pos) \in Here.set) =>
                 Onward(prog, text, w.pos, w.at) = {}
           /\ Here.op = "empty" /\ ~Holds(Here.need, text, w.pos) =>
                 Onward(prog, text, w.pos, w.at) = {}
           /\ Here.op = "nop" \/ (Here.op = "empty" /\ Holds(Here.need, text, w.pos)) =>
                 Onward(prog, text, w.pos, w.at) = {<<w.pos, Here.out>>}
           /\ Here.op = "fail" => Onward(prog, text, w.pos, w.at) = {}
           /\ Here.op = "alt" => Onward(prog, text, w.pos, w.at)
                                    = {<<w.pos, Here.out>>, <<w.pos, Here.arg>>}
  <1> DEFINE ahead == Onward(prog, text, w.pos, w.at)
             reads == w.pos < n /\ ByteAt(text, w.pos) \in Here.set
             holds == Holds(Here.need, text, w.pos)
             free == Free(prog, w.at)
  <1>1. ahead = IF Here.op = "byte" THEN IF reads THEN {<<w.pos + 1, Here.out>>} ELSE {}
                ELSE IF Here.op = "empty" /\ ~holds THEN {}
                ELSE {<<w.pos, q>> : q \in free}
    BY DEF Onward, OpAt, Here, n
  <1>2. free = CASE Here.op = "alt" -> {Here.out, Here.arg}
                 [] Here.op \in {"nop", "empty"} -> {Here.out}
                 [] OTHER -> {}
    BY DEF Free, OpAt, Here
  <1> HIDE DEF ahead, reads, holds, free
  <1>3. /\ Here.op = "byte" /\ reads => ahead = {<<w.pos + 1, Here.out>>}
        /\ Here.op = "byte" /\ ~reads => ahead = {}
        /\ Here.op = "empty" /\ ~holds => ahead = {}
    BY <1>1
  <1>4. Here.op = "nop" \/ (Here.op = "empty" /\ holds) => ahead = {<<w.pos, Here.out>>}
    BY <1>1, <1>2
  <1>5. Here.op = "fail" => ahead = {}
    BY <1>1, <1>2
  <1>6. Here.op = "alt" => ahead = {<<w.pos, Here.out>>, <<w.pos, Here.arg>>}
    BY <1>1, <1>2
  <1> QED BY <1>3, <1>4, <1>5, <1>6 DEF ahead, reads, holds, free

\* What the stack holds is pending, wherever the attempt is.
LEMMA FramesPending ==
    ASSUME w'.stack = w.stack
    PROVE  Frames' = Frames /\ Frames' \subseteq Pending'
  BY DEF Frames, Pending

\* The attempt leaves an instruction that leads nowhere.
LEMMA GivesUpNothing ==
    ASSUME All, Marking, pc = "run", pc' = "fail", w' = w, ~Leads(<<w.pos, w.at>>),
           UNCHANGED <<prog, mode, host, owner, memo>>
    PROVE  MarksInv'
  <1>1. \A c \in Pending : Leads(c) => c \in Frames
    BY Current
  <1>2. Frames \subseteq Pending'
    BY FramesPending
  <1>3. \A c \in Pending : Leads(c) =>
           \E d \in Pending' : /\ d \in (0..n) \X Pcs
                               /\ c[1] <= d[1] /\ Leads(d) /\ Far[d[1]][d[2]] <= Far[c[1]][c[2]]
    BY <1>1, <1>2, AsNear
  <1> QED BY <1>3, AttemptGoesOn DEF Marking

LEMMA NowhereOn ==
    ASSUME All, Marking, pc = "run", Here.op # "match",
           Onward(prog, text, w.pos, w.at) = {}
    PROVE  ~Leads(<<w.pos, w.at>>)
  BY Current

\* It goes on to the one instruction it leads to.
LEMMA GoesOnNearer ==
    ASSUME All, Marking, pc = "run", pc' = "run", Here.op # "match",
           NEW pos \in w.pos..n, NEW at \in Pcs,
           Onward(prog, text, w.pos, w.at) = {<<pos, at>>},
           w' = [w EXCEPT !.pos = pos, !.at = at],
           UNCHANGED <<prog, mode, host, owner, memo>>
    PROVE  MarksInv'
  <1>0. /\ w'.start = w.start /\ w'.kept = w.kept /\ w'.stack = w.stack
        /\ w'.pos = pos /\ w'.at = at
    BY Unfold, LocalsAre DEF All
  <1>1. w.pos \in 0..n /\ pos \in 0..n
    BY Configurations DEF All, Marking
  <1>2. Frames \subseteq Pending' /\ <<pos, at>> \in Pending'
    BY <1>0, FramesPending DEF Pending
  <1>3. Leads(<<w.pos, w.at>>) =>
           Leads(<<pos, at>>) /\ Far[pos][at] < Far[w.pos][w.at]
    BY Current
  <1>4. Far[pos][at] \in Nat /\ Far[w.pos][w.at] \in Nat
    BY <1>1, MarkingOn, OneOn, Configurations DEF All, Marking
  <1>5. \A c \in Pending : Leads(c) =>
           \E d \in Pending' : /\ d \in (0..n) \X Pcs
                               /\ c[1] <= d[1] /\ Leads(d) /\ Far[d[1]][d[2]] <= Far[c[1]][c[2]]
    <2> SUFFICES ASSUME NEW c \in Pending, Leads(c)
                 PROVE  \E d \in Pending' : /\ d \in (0..n) \X Pcs
                                            /\ c[1] <= d[1] /\ Leads(d)
                                            /\ Far[d[1]][d[2]] <= Far[c[1]][c[2]]
      OBVIOUS
    <2>1. CASE c \in Frames
      BY <1>2, <2>1, AsNear
    <2>2. CASE c = <<w.pos, w.at>>
      <3> DEFINE d == <<pos, at>>
      <3>1. /\ d \in Pending' /\ d \in (0..n) \X Pcs /\ c[1] <= d[1] /\ Leads(d)
        BY <1>1, <1>2, <1>3, <2>2
      <3>2. Far[d[1]][d[2]] <= Far[c[1]][c[2]]
        BY <1>3, <1>4, <2>2
      <3> QED BY <3>1, <3>2
    <2> QED BY <2>1, <2>2, Current
  <1> QED BY <1>0, <1>5, AttemptGoesOn DEF Marking

LEMMA MarkReadByte ==
    ASSUME All, Marking, ReadByte
    PROVE  MarksInv'
  <1>1. pc = "run" /\ Here.op = "byte" /\ UNCHANGED <<prog, mode, host, owner, memo>>
    BY DEF ReadByte, Fails, Goto, fixed, ghosts
  <1>2. CASE w.pos < n /\ ByteAt(text, w.pos) \in Here.set
    <2>1. /\ Onward(prog, text, w.pos, w.at) = {<<w.pos + 1, Here.out>>}
          /\ w.pos + 1 \in w.pos..n /\ Here.out \in Pcs
      BY <1>1, <1>2, OnwardIs, HereTyped, Configurations, Unfold DEF All, Marking
    <2>2. w' = [w EXCEPT !.pos = w.pos + 1, !.at = Here.out] /\ pc' = "run"
      BY <1>2 DEF ReadByte, GoesOn, Goto
    <2> QED BY <1>1, <2>1, <2>2, GoesOnNearer
  <1>3. CASE ~(w.pos < n /\ ByteAt(text, w.pos) \in Here.set)
    <2>1. ~Leads(<<w.pos, w.at>>)
      BY <1>1, <1>3, OnwardIs, NowhereOn
    <2>2. w' = w /\ pc' = "fail"
      BY <1>3 DEF ReadByte, Fails, Goto
    <2> QED BY <1>1, <2>1, <2>2, GivesUpNothing
  <1> QED BY <1>2, <1>3

LEMMA MarkEmptyWidth ==
    ASSUME All, Marking, EmptyWidth
    PROVE  MarksInv'
  <1>1. /\ pc = "run" /\ Here.op \in {"empty", "nop"}
        /\ UNCHANGED <<prog, mode, host, owner, memo>>
    BY DEF EmptyWidth, Fails, Goto, fixed, ghosts
  <1>2. CASE Here.op = "nop" \/ (Here.op = "empty" /\ Holds(Here.need, text, w.pos))
    <2>1. /\ Onward(prog, text, w.pos, w.at) = {<<w.pos, Here.out>>}
          /\ w.pos \in w.pos..n /\ Here.out \in Pcs
      BY <1>1, <1>2, OnwardIs, HereTyped, Configurations, Unfold DEF All, Marking
    <2>2. w' = [w EXCEPT !.pos = w.pos, !.at = Here.out] /\ pc' = "run"
      BY <1>2 DEF EmptyWidth, GoesOn, Goto
    <2> QED BY <1>1, <2>1, <2>2, GoesOnNearer
  <1>3. CASE Here.op = "empty" /\ ~Holds(Here.need, text, w.pos)
    <2>1. ~Leads(<<w.pos, w.at>>)
      BY <1>1, <1>3, OnwardIs, NowhereOn
    <2>2. w' = w /\ pc' = "fail"
      BY <1>3 DEF EmptyWidth, Fails, Goto
    <2> QED BY <1>1, <2>1, <2>2, GivesUpNothing
  <1> QED BY <1>1, <1>2, <1>3

LEMMA MarkFail ==
    ASSUME All, Marking, Fail
    PROVE  MarksInv'
  <1>1. /\ pc = "run" /\ Here.op = "fail" /\ w' = w /\ pc' = "fail"
        /\ UNCHANGED <<prog, mode, host, owner, memo>>
    BY DEF Fail, Fails, Goto, fixed, ghosts
  <1>2. ~Leads(<<w.pos, w.at>>)
    BY <1>1, OnwardIs, NowhereOn
  <1> QED BY <1>1, <1>2, GivesUpNothing

\* A second visit: what vouches for the mark is pending besides this one.
LEMMA MarkVisited ==
    ASSUME All, Marking, AltVisited
    PROVE  MarksInv'
  <1>1. /\ pc = "run" /\ Here.op = "alt" /\ w' = w /\ pc' = "fail" /\ Mark \in memo
        /\ UNCHANGED <<prog, mode, host, owner, memo>>
    BY DEF AltVisited, Marked, Marking, fixed
  <1>2. Mark = <<w.at, w.pos>> /\ w.pos \in 0..n /\ w.at \in Pcs
    BY <1>1, Configurations DEF Mark, All, Marking
  <1>3. Frames \subseteq Pending'
    BY <1>1, FramesPending
  <1>4. Leads(<<w.pos, w.at>>) =>
           \E d \in Frames : /\ w.pos <= d[1] /\ Leads(d)
                             /\ Far[d[1]][d[2]] <= Far[w.pos][w.at]
    <2> SUFFICES ASSUME Leads(<<w.pos, w.at>>)
                 PROVE  \E d \in Frames : /\ w.pos <= d[1] /\ Leads(d)
                                          /\ Far[d[1]][d[2]] <= Far[w.pos][w.at]
      OBVIOUS
    <2>1. ~Fruitless(Mark)
      <3>1. w.pos <= LenOf(owner)
        BY <1>2, MarkingOn DEF n
      <3> QED BY <1>2, <3>1 DEF Fruitless, Leads
    <2>2. Vouched(Mark)
      BY <1>1, <2>1, MarkingOn
    <2>3. PICK d \in Pending : /\ w.pos <= d[1] /\ Leads(d)
                               /\ Far[d[1]][d[2]] < Far[w.pos][w.at]
      BY <1>2, <2>2 DEF Vouched
    <2>4. Far[w.pos][w.at] \in Nat /\ Far[d[1]][d[2]] \in Nat
      BY <1>1, <1>2, MarkingOn, OneOn, Configurations DEF All, Marking
    <2>5. d # <<w.pos, w.at>>
      BY <2>3, <2>4
    <2>6. d \in Frames
      BY <1>1, <2>5, Current
    <2> QED BY <2>3, <2>4, <2>6
  <1>5. \A c \in Pending : Leads(c) =>
           \E d \in Pending' : /\ d \in (0..n) \X Pcs
                               /\ c[1] <= d[1] /\ Leads(d) /\ Far[d[1]][d[2]] <= Far[c[1]][c[2]]
    <2> SUFFICES ASSUME NEW c \in Pending, Leads(c)
                 PROVE  \E d \in Pending' : /\ d \in (0..n) \X Pcs
                                            /\ c[1] <= d[1] /\ Leads(d)
                                            /\ Far[d[1]][d[2]] <= Far[c[1]][c[2]]
      OBVIOUS
    <2>1. CASE c \in Frames
      BY <1>3, <2>1, AsNear
    <2>2. CASE c = <<w.pos, w.at>>
      <3>1. PICK d \in Frames : /\ w.pos <= d[1] /\ Leads(d)
                                /\ Far[d[1]][d[2]] <= Far[w.pos][w.at]
        BY <1>4, <2>2
      <3>2. d \in Pending' /\ d \in (0..n) \X Pcs
        BY <1>1, <1>3, Configurations DEF All
      <3> QED BY <2>2, <3>1, <3>2
    <2> QED BY <1>1, <2>1, <2>2, Current
  <1> QED BY <1>1, <1>5, AttemptGoesOn DEF Marking

\* The Alt is marked and both its branches become pending.
LEMMA MarkAltMarks ==
    ASSUME All, Marking, AltMarks
    PROVE  MarksInv'
  <1>1. /\ pc = "run" /\ Here.op = "alt" /\ memo' = memo \union {Mark}
        /\ UNCHANGED <<prog, mode, host, owner>>
    BY DEF AltMarks, Marking, fixed
  <1>2. CASE pc' = "unknown" /\ mode.refuse
    BY <1>1, <1>2 DEF MarksInv, GaveUp
  <1>3. CASE Push /\ pc' = "run"
    <2>1. /\ w'.start = w.start /\ w'.kept = w.kept /\ w'.pos = w.pos /\ w'.at = Here.out
          /\ Len(w'.stack) = Len(w.stack) + 1 /\ Len(w.stack) \in Nat
          /\ \A i \in 1..Len(w.stack) : w'.stack[i] = w.stack[i]
          /\ w'.stack[Len(w.stack) + 1] = <<w.pos, Here.arg>>
      BY <1>1, <1>3, PushIs, Unfold, LocalsAre DEF All
    <2>2. /\ Frames \subseteq Pending' /\ <<w.pos, Here.out>> \in Pending'
          /\ <<w.pos, Here.arg>> \in Pending'
      <3>1. Frames \subseteq Frames' /\ <<w.pos, Here.arg>> \in Frames'
        BY <2>1 DEF Frames
      <3> QED BY <1>3, <2>1, <3>1 DEF Pending
    <2>3. /\ w.pos \in 0..n /\ w.at \in Pcs /\ Here.out \in Pcs /\ Here.arg \in Pcs
          /\ Mark = <<w.at, w.pos>> /\ w.start \in Nat /\ w.start <= w.pos
      BY <1>1, Configurations, HereTyped, Current DEF All, Marking, Mark
    <2>4. Leads(<<w.pos, w.at>>) =>
             \E d \in {<<w.pos, Here.out>>, <<w.pos, Here.arg>>} :
                Leads(d) /\ Far[d[1]][d[2]] < Far[w.pos][w.at]
      BY <1>1, Current, OnwardIs
    <2>5. Leads(<<w.pos, w.at>>) =>
             \E d \in Pending' : /\ d \in (0..n) \X Pcs /\ w.pos <= d[1] /\ Leads(d)
                                 /\ Far[d[1]][d[2]] < Far[w.pos][w.at]
      <3> SUFFICES ASSUME Leads(<<w.pos, w.at>>)
                   PROVE  \E d \in Pending' : /\ d \in (0..n) \X Pcs /\ w.pos <= d[1] /\ Leads(d)
                                              /\ Far[d[1]][d[2]] < Far[w.pos][w.at]
        OBVIOUS
      <3>1. PICK d \in {<<w.pos, Here.out>>, <<w.pos, Here.arg>>} :
               Leads(d) /\ Far[d[1]][d[2]] < Far[w.pos][w.at]
        BY <2>4
      <3>2. d \in Pending' /\ d \in (0..n) \X Pcs /\ w.pos <= d[1]
        BY <2>2, <2>3
      <3> QED BY <3>1, <3>2
    <2>6. \A c \in Pending : Leads(c) =>
             \E d \in Pending' : /\ d \in (0..n) \X Pcs
                                 /\ c[1] <= d[1] /\ Leads(d) /\ Far[d[1]][d[2]] <= Far[c[1]][c[2]]
      <3> SUFFICES ASSUME NEW c \in Pending, Leads(c)
                   PROVE  \E d \in Pending' : /\ d \in (0..n) \X Pcs
                                              /\ c[1] <= d[1] /\ Leads(d)
                                              /\ Far[d[1]][d[2]] <= Far[c[1]][c[2]]
        OBVIOUS
      <3>1. CASE c \in Frames
        BY <2>2, <3>1, AsNear
      <3>2. CASE c = <<w.pos, w.at>>
        <4>1. PICK d \in Pending' : /\ d \in (0..n) \X Pcs /\ w.pos <= d[1] /\ Leads(d)
                                    /\ Far[d[1]][d[2]] < Far[w.pos][w.at]
          BY <2>5, <3>2
        <4>2. Far[d[1]][d[2]] \in Nat /\ Far[w.pos][w.at] \in Nat
          BY <2>3, <4>1, MarkingOn, OneOn DEF All
        <4> QED BY <3>2, <4>1, <4>2
      <3> QED BY <1>1, <3>1, <3>2, Current
    <2>7. Marking' /\ ~GaveUp'
      BY <1>1, <1>3, <2>1, MarkingOn DEF Marking, GaveUp
    <2>8. \A mark \in memo : Fruitless(mark)' \/ Vouched(mark)'
      <3> SUFFICES ASSUME NEW mark \in memo
                   PROVE  Fruitless(mark)' \/ Vouched(mark)'
        OBVIOUS
      <3>1. CASE Fruitless(mark)
        BY <1>1, <3>1 DEF Fruitless, Meaning
      <3>2. CASE mark \in Pcs \X (0..n) /\ Vouched(mark)
        BY <1>1, <2>1, <2>6, <3>2, MarkingOn, StillVouched DEF All
      <3> QED BY <3>1, <3>2, MarkingOn
    <2>9. PICK mark : mark = Mark
      OBVIOUS
    <2>10. mark[1] = w.at /\ mark[2] = w.pos
      BY <2>3, <2>9
    <2>11. Fruitless(mark)' \/ Vouched(mark)'
      <3>1. Meaning' = Meaning /\ Far' = Far
        BY <1>1 DEF Meaning, Far
      <3>2. CASE ~Leads(<<w.pos, w.at>>)
        BY <1>1, <2>10, <3>1, <3>2 DEF Fruitless, Leads
      <3>3. CASE Leads(<<w.pos, w.at>>)
        <4>1. PICK d \in Pending' : /\ w.pos <= d[1] /\ Leads(d)
                                    /\ Far[d[1]][d[2]] < Far[w.pos][w.at]
          BY <2>5, <3>3
        <4>2. /\ w'.start <= mark[2] /\ mark[2] <= d[1]
              /\ Far'[d[1]][d[2]] < Far'[mark[2]][mark[1]]
          BY <2>1, <2>3, <2>10, <3>1, <4>1
        <4>3. Leads(d)'
          BY <3>1, <4>1 DEF Leads
        <4> QED BY <4>1, <4>2, <4>3 DEF Vouched
      <3> QED BY <3>2, <3>3
    <2> QED BY <1>1, <2>7, <2>8, <2>9, <2>11 DEF MarksInv
  <1> QED BY <1>2, <1>3 DEF AltMarks

\* Nothing is pending any more: every mark is a failure.
LEMMA MarkFailEmpty ==
    ASSUME All, Marking, FailEmpty
    PROVE  MarksInv'
  <1>1. /\ pc = "fail" /\ w.stack = << >> /\ pc' = "outer"
        /\ UNCHANGED <<prog, mode, host, owner, memo>>
    BY DEF FailEmpty, Goto, fixed, ghosts
  <1>2. Pending = {}
    BY <1>1 DEF Pending, Frames
  <1>3. \A mark \in memo : Fruitless(mark)
    BY <1>2, MarkingOn DEF Vouched
  <1>4. ~GaveUp'
    BY <1>1, MarkingOn DEF GaveUp
  <1> QED BY <1>1, <1>3, <1>4 DEF MarksInv, Fruitless, Meaning

LEMMA MarkPop ==
    ASSUME All, Marking, PopFallback
    PROVE  MarksInv'
  <1>1. /\ pc = "fail" /\ w.stack # << >> /\ pc' = "run" /\ w' = Popped
        /\ UNCHANGED <<prog, mode, host, owner, memo>>
    BY DEF PopFallback, Goto, fixed, ghosts
  <1>2. Inv
    BY DEF All
  <1>3. /\ w'.start = w.start /\ w'.kept = w.kept
        /\ Len(w'.stack) = Len(w.stack) - 1 /\ Len(w.stack) \in Nat \ {0}
        /\ \A i \in 1..(Len(w.stack) - 1) : w'.stack[i] = w.stack[i]
        /\ w'.pos = w.stack[Len(w.stack)][1] /\ w'.at = w.stack[Len(w.stack)][2]
    BY <1>1, <1>2, PoppedIs
  <1>4. \A c \in Pending : c \in Pending'
    <2> SUFFICES ASSUME NEW c \in Pending PROVE c \in Pending'
      OBVIOUS
    <2>1. PICK i \in 1..Len(w.stack) : c = w.stack[i]
      BY <1>1 DEF Pending, Frames
    <2>2. CASE i = Len(w.stack)
      <3>1. c = <<w'.pos, w'.at>>
        <4>1. c \in (0..n) \X Pcs
          BY <1>1, <1>2, Configurations
        <4> QED BY <1>3, <2>1, <2>2, <4>1
      <3> QED BY <1>1, <3>1 DEF Pending
    <2>3. CASE i # Len(w.stack)
      <3>1. i \in 1..Len(w'.stack) /\ c = w'.stack[i]
        BY <1>3, <2>1, <2>3
      <3> QED BY <3>1 DEF Pending, Frames
    <2> QED BY <2>2, <2>3
  <1>5. \A c \in Pending : Leads(c) =>
           \E d \in Pending' : /\ d \in (0..n) \X Pcs
                               /\ c[1] <= d[1] /\ Leads(d) /\ Far[d[1]][d[2]] <= Far[c[1]][c[2]]
    BY <1>4, AsNear
  <1> QED BY <1>1, <1>3, <1>5, AttemptGoesOn DEF Marking

\* The marks from the start of the match to its end go; what is left past its end
\* has nothing pending to vouch for it.
LEMMA MarkMatch ==
    ASSUME All, Marking, Match
    PROVE  MarksInv'
  <1>1. /\ pc = "run" /\ pc' = "after" /\ memo' = MemoAfterMatch
        /\ UNCHANGED <<prog, mode, owner>> /\ host'.status = host.status
    BY Unfold, HostAre DEF All, Match, Marking, fixed, ghosts
  <1>2. ~GaveUp'
    BY <1>1, MarkingOn DEF GaveUp
  <1>3. \A mark \in memo' : mark \in memo /\ Fruitless(mark)
    <2> SUFFICES ASSUME NEW mark \in memo, mark[2] < w.start \/ mark[2] > w.pos,
                        mark \in Pcs \X (0..n), Vouched(mark)
                 PROVE  FALSE
      BY <1>1, MarkingOn DEF MemoAfterMatch
    <2>1. PICK c \in Pending : mark[2] <= c[1]
      BY DEF Vouched
    <2>2. c \in (0..n) \X Pcs /\ c[1] <= w.pos /\ w.pos \in 0..n /\ w.start \in Nat
      BY <1>1, Configurations DEF All
    <2>3. mark[2] <= w.pos
      BY <2>1, <2>2
    <2>4. w.start <= mark[2]
      BY DEF Vouched
    <2> QED BY <2>2, <2>3, <2>4
  <1> QED BY <1>1, <1>2, <1>3 DEF MarksInv, Fruitless, Meaning

\* The search's memo is taken, and cleared if it is another text's.
LEMMA MarkPlaced ==
    ASSUME All, PlaceSearchMemo, ~GaveUp
    PROVE  MarksInv'
  <1>1. /\ pc = "place" /\ owner' = text /\ prog' = prog /\ text' = text
        /\ memo' = IF blk.len = 0 \/ Recorded THEN memo
                   ELSE {mark \in memo : mark[2] > n}
        /\ UNCHANGED <<mode, host>>
        /\ pc' = "unknown" => mode.refuse
    BY DEF PlaceSearchMemo, fixed
  <1>2. GaveUp' => mode'.refuse
    BY <1>1 DEF GaveUp
  <1>3. ~Marking
    BY <1>1 DEF Marking
  <1>4. CASE blk.len = 0 \/ Recorded
    <2>1. memo = {} \/ owner' = owner
      BY <1>1, <1>4 DEF All, MemoInv
    <2> QED BY <1>1, <1>2, <1>3, <1>4, <2>1 DEF All, MarksInv, Fruitless, Meaning
  <1>5. CASE ~(blk.len = 0 \/ Recorded)
    <2>1. \A mark \in memo' : mark \in Pcs \X Nat /\ ~(mark[2] <= LenOf(owner'))
      BY <1>1, <1>5, Unfold DEF All, TypeOK, Marks, n
    <2> QED BY <1>2, <2>1 DEF MarksInv, Fruitless
  <1> QED BY <1>4, <1>5

LEMMA MarksGivenUp ==
    ASSUME All, GaveUp, mode.refuse => mode.again = {}, [Next]_vars
    PROVE  MarksInv'
  <1>1. mode.refuse
    BY DEF All, MarksInv
  <1>2. pc = "unknown" \/ (pc = "host" /\ host.status = "unknown")
    BY Unfold DEF All, GaveUp, Placed, Calling, TypeOK, Body
  <1>3. ~ReuseBlock
    BY <1>1 DEF ReuseBlock
  <1>4. CASE UNCHANGED vars
    BY <1>1, <1>4 DEF vars, MarksInv, GaveUp
  <1>5. CASE Host
    BY <1>2, <1>5 DEF Host, CallFind, PastTheEnd, GiveMemo, MemoRefused, NothingToGive
  <1>6. CASE Call
    <2>1. Unknown
      BY <1>2, <1>6
      DEF Call, EnterForced, CheckAnchor, EnterTripped, EnterNew, EnterLive, Attempt,
          NoMoreStarts, PlaceStack, StackRefused, PlaceSearchMemo, PlaceOwnMemo, ReadByte,
          EmptyWidth, Fail, Alt, AltOverflows, AltVisited, AltMarks, FailEmpty, PopFallback,
          Pop, BudgetSpent, Match, None
    <2>2. mode' = mode /\ host'.status = "unknown"
      BY <2>1, Unfold, HostAre DEF All, Unknown, fixed
    <2> QED BY <1>1, <2>2 DEF MarksInv, GaveUp
  <1> QED BY <1>3, <1>4, <1>5, <1>6 DEF Next

LEMMA MarksCall ==
    ASSUME All, ~GaveUp, Call
    PROVE  MarksInv'
  <1>1. CASE Marking
    <2>1. pc \in {"run", "fail"} /\ w.fallback
      BY <1>1, MarkingOn DEF Marking
    <2>2. \/ ReadByte \/ EmptyWidth \/ Fail \/ AltVisited \/ AltMarks \/ FailEmpty
          \/ PopFallback \/ Match
      BY <2>1
      DEF Call, EnterForced, CheckAnchor, EnterTripped, EnterNew, EnterLive, Attempt,
          NoMoreStarts, PlaceStack, StackRefused, PlaceSearchMemo, PlaceOwnMemo,
          Alt, AltOverflows, Pop, BudgetSpent, None, Unknown
    <2> QED BY <1>1, <2>2, MarkReadByte, MarkEmptyWidth, MarkFail, MarkVisited,
               MarkAltMarks, MarkFailEmpty, MarkPop, MarkMatch
  <1>2. CASE ~Marking
    <2>1. CASE PlaceSearchMemo
      BY <2>1, MarkPlaced
    <2>2. CASE EnterForced \/ CheckAnchor \/ EnterTripped \/ EnterNew \/ EnterLive
                 \/ Attempt \/ NoMoreStarts \/ PlaceStack \/ StackRefused
      <3>1. UNCHANGED <<prog, owner, memo, mode, host>> /\ pc' # "unknown"
        BY <2>2
        DEF EnterForced, CheckAnchor, EnterTripped, EnterNew, EnterLive, Attempt,
            NoMoreStarts, PlaceStack, StackRefused, ToFallback, Goto, fixed, ghosts
      <3> QED BY <1>2, <3>1, Quiet DEF All, GaveUp
    <2>3. CASE ReadByte \/ EmptyWidth \/ Fail \/ Alt \/ AltOverflows \/ AltVisited
                 \/ FailEmpty \/ PopFallback \/ Pop \/ BudgetSpent
      <3>1. UNCHANGED <<prog, owner, memo, mode, host>> /\ pc' # "unknown"
        BY <2>3
        DEF ReadByte, EmptyWidth, Fail, Fails, Alt, AltOverflows, AltVisited, FailEmpty,
            PopFallback, Pop, BudgetSpent, ToFallback, Goto, fixed, ghosts
      <3> QED BY <1>2, <3>1, Quiet DEF All, GaveUp
    <2>4. CASE PlaceOwnMemo \/ AltMarks
      <3>1. UNCHANGED <<prog, owner, memo, mode, host>>
        BY <1>2, <2>4 DEF PlaceOwnMemo, AltMarks, Marking, fixed, ghosts
      <3>2. pc' = "unknown" => mode.refuse
        BY <2>4 DEF PlaceOwnMemo, AltMarks
      <3> QED BY <1>2, <3>1, <3>2, Quiet DEF All, GaveUp
    <2>5. CASE Match
      <3>1. /\ UNCHANGED <<prog, owner, mode>> /\ memo' \subseteq memo /\ pc' = "after"
            /\ host'.status = host.status
        BY <2>5, Unfold, HostAre DEF All, Match, MemoAfterMatch, fixed, ghosts
      <3> QED BY <1>2, <3>1, Quiet DEF All, GaveUp
    <2>6. CASE None \/ Unknown
      <3>1. ~Unknown
        BY DEF Unknown, GaveUp
      <3>2. /\ UNCHANGED <<prog, owner, mode, memo>> /\ pc' = "host"
            /\ host'.status = "done"
        BY <2>6, <3>1, Unfold, HostAre DEF All, None, fixed, ghosts
      <3> QED BY <1>2, <3>2, Quiet DEF All, GaveUp
    <2> QED BY <2>1, <2>2, <2>3, <2>4, <2>5, <2>6 DEF Call
  <1> QED BY <1>1, <1>2

LEMMA MarksStep ==
    ASSUME All, mode.refuse => mode.again = {}, [Next]_vars
    PROVE  MarksInv'
  <1>1. CASE GaveUp
    BY <1>1, MarksGivenUp
  <1>2. CASE ~GaveUp /\ Call
    BY <1>2, MarksCall
  <1>3. CASE ~GaveUp /\ Host
    <2>1. ~Marking
      BY <1>3 DEF Host, CallFind, PastTheEnd, GiveMemo, MemoRefused, NothingToGive, Marking
    <2>2. /\ UNCHANGED <<prog, owner, mode>> /\ memo' \subseteq memo /\ pc' # "unknown"
          /\ host'.status = "unknown" => mode.refuse
      <3>1. CASE PastTheEnd \/ MemoRefused
        BY <3>1, Unfold, HostAre DEF All, PastTheEnd, MemoRefused, fixed, ghosts
      <3>2. CASE CallFind \/ GiveMemo \/ NothingToGive
        BY <1>3, <3>2 DEF CallFind, GiveMemo, NothingToGive, fixed, ghosts, GaveUp
      <3> QED BY <1>3, <3>1, <3>2 DEF Host
    <2> QED BY <1>3, <2>1, <2>2, Quiet DEF All, GaveUp
  <1>4. CASE ~GaveUp /\ ReuseBlock
    <2>1. /\ UNCHANGED <<prog, owner, mode, memo, pc>> /\ pc = "host"
          /\ host'.status = "driving"
      BY <1>4 DEF ReuseBlock, HostAt, fixed
    <2> QED BY <1>4, <2>1, Quiet DEF All, GaveUp, Marking
  <1>5. CASE UNCHANGED vars
    BY <1>5
    DEF All, MarksInv, vars, GaveUp, Marking, Vouched, Pending, Frames, Fruitless, Meaning,
        Far, Leads
  <1> QED BY <1>1, <1>2, <1>3, <1>4, <1>5 DEF Next

\* The program, the plan and the host stay, and the meaning is the text's.
FixedInv == ends = Ends(prog, text) /\ (mode.refuse => mode.again = {})

LEMMA FixedStep ==
    ASSUME FixedInv, [Next]_vars
    PROVE  FixedInv' /\ prog' = prog
  <1>1. CASE Call
    <2>1. UNCHANGED <<fixed, text, ends>>
      BY <1>1
      DEF Call, EnterForced, CheckAnchor, EnterTripped, EnterNew, EnterLive, Attempt,
          NoMoreStarts, PlaceStack, StackRefused, PlaceSearchMemo, PlaceOwnMemo, ReadByte,
          EmptyWidth, Fail, Fails, Alt, AltOverflows, AltVisited, AltMarks, FailEmpty,
          PopFallback, Pop, BudgetSpent, Match, None, Unknown, ToFallback, Goto
    <2> QED BY <2>1 DEF FixedInv, fixed
  <1>2. CASE Host
    BY <1>2 DEF Host, CallFind, PastTheEnd, GiveMemo, MemoRefused, NothingToGive, FixedInv,
                fixed
  <1>3. CASE ReuseBlock
    BY <1>3 DEF ReuseBlock, FixedInv, fixed
  <1>4. CASE UNCHANGED vars
    BY <1>4 DEF vars, FixedInv
  <1> QED BY <1>1, <1>2, <1>3, <1>4 DEF Next

\* "The memo's marks are failures" (bt_search.go): between the calls of a search
\* no marked Alt leads to a match, because the marks on the path of a reported
\* match are cleared before it is returned, and a mark made on another text is
\* dropped before it is read.
THEOREM MarksAreFailures ==
    ASSUME StopsWhenRefused
    PROVE  Spec => []MarksFail
  <1>1. Init => MemoInv /\ MarksInv /\ FixedInv
    <2> SUFFICES ASSUME Init
                 PROVE  MemoInv /\ MarksInv /\ FixedInv
      OBVIOUS
    <2>1. blk.len = 0 /\ memo = {} /\ owner = text /\ ~w.kept
          /\ pc = "host" /\ host.status = "driving" /\ mode \in Modes
          /\ ends = Ends(prog, text)
      <3>1. ~NoLocals.kept
        BY DEF NoLocals
      <3> QED BY <3>1 DEF Init, ZeroBlock, HostAt
    <2> QED BY <2>1 DEF MemoInv, MarksInv, GaveUp, StopsWhenRefused, FixedInv
  <1>2. Inv /\ MemoInv /\ MarksInv /\ FixedInv /\ [Next]_vars
           => (MemoInv /\ MarksInv /\ FixedInv)'
    BY MemoStep, MarksStep, FixedStep DEF All, FixedInv
  <1>3. Inv /\ MemoInv /\ MarksInv /\ FixedInv => MarksFail
    <2> SUFFICES ASSUME Inv, MemoInv, MarksInv, FixedInv, pc = "host",
                        host.status = "driving", Recorded, NEW mark \in memo, mark[2] <= n
                 PROVE  ends[mark[2]][mark[1]] = NoMatch
      BY DEF MarksFail
    <2>1. owner = text
      BY DEF MemoInv
    <2>2. Fruitless(mark)
      BY DEF MarksInv, GaveUp, Marking
    <2> QED BY <2>1, <2>2 DEF Fruitless, n, Meaning, FixedInv
  <1> QED BY <1>1, <1>2, <1>3, Invariant, PTL DEF Spec
-----------------------------------------------------------------------------
(* The ledger of the Alts a tripped search enters. *)

\* The call marks in a memo of its own.
OwnMode == pc \in Body /\ w.fallback /\ w.ready /\ ~w.kept

Grid == Cardinality(Alts) * (n + 1)
Counted == {mark \in memo : mark[1] \in Alts /\ mark[2] <= n}

\* A mark pays for having entered its Alt and for the branch that was opened
\* there: what the marks of a call that keeps its own pay for, what they can at
\* most, and what the marks of a search do: those of its first such call, those
\* that stand, and those the matches took back, fewer than twice what lies behind.
OwnPaid == 2 * Cardinality(own)
OncePaid == 2 * Grid
Paid == 2 * (Grid + Cardinality(Counted) + 2 * (Cardinality(Alts) * host.from))

\* The branches that are still to be followed to their next Alt, and the starts
\* that paid for one.
Threads ==
    IF ~w.fallback THEN 0
    ELSE IF pc = "run" THEN Len(w.stack) + 1
    ELSE IF pc = "fail" THEN Len(w.stack) ELSE 0
Begun ==
    IF pc \in Calling
    THEN IF ~w.fallback THEN host.from
         ELSE IF pc \in {"run", "fail"} THEN w.start + 1 ELSE w.start
    ELSE IF host.status = "driving" THEN host.from ELSE n + 1

\* A call that may still have to place a memo of its own is the search's first to
\* need one.
FirstOwn ==
    ~blk.memo /\ ~OwnMode =>
        /\ (\/ pc = "host" /\ host.status = "driving"
            \/ pc \in {"forced", "anchor"}
            \/ pc = "after" /\ blk.state # "tripped")
           => guards = 0 \/ (plan.anchored /\ host.from > 0)
        /\ pc \in Body \union {"entry"} => guards = 0

LedgerInv ==
    /\ OwnMode => ~blk.memo
    /\ blk.memo => guards + Threads <= Paid + Begun
    /\ blk.memo /\ guards > 0 => blk.len = 0 \/ Recorded
    /\ OwnMode => /\ own \subseteq Alts \X (0..n)
                  /\ guards + Threads <= OwnPaid + Begun
    /\ ~blk.memo /\ ~OwnMode => guards <= OncePaid + Begun
    /\ FirstOwn
    /\ guards > 0 => Alts # {}

Covered == blk.memo => blk.cap >= n + 1

LEMMA Product ==
    ASSUME NEW a \in Nat, NEW x \in Nat, NEW y \in Nat, x <= y
    PROVE  /\ a * x \in Nat /\ a * y \in Nat /\ a * x <= a * y
           /\ a * y = a * x + a * (y - x)
           /\ a * (2 * x) = 2 * (a * x)
  <1>1. a * (y - x) >= 0 /\ a * x >= 0 /\ a * y >= 0
    OBVIOUS
  <1>2. a * y = a * x + a * (y - x)
    OBVIOUS
  <1> QED BY <1>1, <1>2

\* The Alts are finitely many, so are the marks of a text, and the counts are numbers.
LEMMA Numbers ==
    ASSUME Inv
    PROVE  /\ IsFiniteSet(Alts) /\ Cardinality(Alts) \in Nat /\ Grid \in Nat
           /\ IsFiniteSet(Alts \X (0..n)) /\ Cardinality(Alts \X (0..n)) = Grid
           /\ Counted \subseteq Alts \X (0..n) /\ IsFiniteSet(Counted)
           /\ Cardinality(Counted) \in Nat /\ Cardinality(Counted) <= Grid
           /\ Cardinality(Alts) * host.from \in Nat
           /\ Cardinality(Alts) * host.from <= Grid
           /\ guards \in Nat /\ Paid \in Nat /\ Paid <= 8 * Grid
           /\ \A S \in SUBSET (Alts \X (0..n)) :
                 IsFiniteSet(S) /\ Cardinality(S) \in Nat /\ Cardinality(S) <= Grid
  <1>1. n \in Nat /\ host.from \in Nat /\ host.from <= n + 1 /\ guards \in Nat
        /\ memo \subseteq Pcs \X Nat
    BY Unfold, HostAre DEF Placed, TypeOK, Marks
  <1>2. IsFiniteSet(Alts)
    BY PcAssumption, FS_Subset DEF Alts
  <1>3. Cardinality(Alts) \in Nat
    BY <1>2, FS_CardinalityType
  <1>4. IsFiniteSet(0..n) /\ Cardinality(0..n) = n + 1
    <2>1. 0 \in Int /\ n \in Int /\ ~(0 > n) /\ n - 0 + 1 = n + 1
      BY <1>1
    <2> QED BY <2>1, FS_Interval
  <1>5. IsFiniteSet(Alts \X (0..n)) /\ Cardinality(Alts \X (0..n)) = Grid
    BY <1>2, <1>4, FS_Product DEF Grid
  <1>6. \A S \in SUBSET (Alts \X (0..n)) :
           IsFiniteSet(S) /\ Cardinality(S) \in Nat /\ Cardinality(S) <= Grid
    BY <1>5, FS_Subset, FS_CardinalityType
  <1>7. Counted \subseteq Alts \X (0..n)
    BY <1>1 DEF Counted
  <1>8. n + 1 \in Nat
    BY <1>1
  <1>9. /\ Cardinality(Alts) * host.from \in Nat /\ Grid \in Nat
        /\ Cardinality(Alts) * host.from <= Grid
    BY <1>1, <1>3, <1>8, Product DEF Grid
  <1>10. Paid \in Nat /\ Paid <= 8 * Grid
    BY <1>6, <1>7, <1>9 DEF Paid
  <1> QED BY <1>1, <1>2, <1>3, <1>5, <1>6, <1>7, <1>9, <1>10

LEMMA Counts ==
    Inv => /\ Threads \in Nat /\ Begun \in Nat /\ Begun <= n + 1
           /\ Len(w.stack) \in Nat
  <1> SUFFICES ASSUME Inv
               PROVE  /\ Threads \in Nat /\ Begun \in Nat /\ Begun <= n + 1
                      /\ Len(w.stack) \in Nat
    OBVIOUS
  <1>1. n \in Nat /\ host.from \in Nat /\ host.from <= n + 1 /\ w.start \in Nat
        /\ Len(w.stack) \in Nat
    BY Unfold, HostAre, LocalsAre DEF Placed
  <1> QED BY <1>1, Unfold DEF Threads, Begun, Placed, Body, Calling
\* No branch is followed by a call that has marks of neither kind to consult.
LEMMA NoThreads ==
    ASSUME Inv, MemoInv, ~blk.memo, ~OwnMode
    PROVE  Threads = 0 /\ ~w.kept
  <1>1. ~w.kept
    BY Unfold, TextTyped DEF MemoInv, Recorded
  <1>2. pc \in {"run", "fail"} => ~w.fallback
    BY <1>1, Unfold, LocalsAre DEF Placed, OwnMode, Body
  <1> QED BY <1>1, <1>2 DEF Threads

Ledger == Covered => LedgerInv

\* A debt is met as long as the starts begun pay for the branches opened.
LEMMA Carried ==
    ASSUME NEW g \in Nat, NEW t \in Nat, NEW b \in Nat, NEW t1 \in Nat, NEW b1 \in Nat,
           NEW p \in Nat, t1 + b <= t + b1
    PROVE  /\ g + t <= p + b => g + t1 <= p + b1 /\ g <= p + b1
           /\ t = 0 /\ g <= p + b => g <= p + b1
  OBVIOUS

\* A step that enters no Alt and leaves the marks as they are, and pays for the
\* branches it opens by the starts it begins.
LEMMA Steady ==
    ASSUME Inv, MemoInv, Inv', LedgerInv,
           UNCHANGED <<prog, text, guards, memo>>, host'.from = host.from,
           blk'.memo = blk.memo, blk'.len = blk.len, blk'.ptr = blk.ptr,
           OwnMode' => OwnMode /\ own' = own,
           Threads' + Begun <= Threads + Begun',
           FirstOwn'
    PROVE  LedgerInv'
  <1>1. Alts' = Alts /\ n' = n /\ Grid' = Grid /\ Counted' = Counted
    BY DEF Alts, n, Grid, Counted
  <1>2. Paid' = Paid
    BY <1>1 DEF Paid
  <1>3. /\ Threads \in Nat /\ Begun \in Nat /\ Threads' \in Nat /\ Begun' \in Nat
        /\ guards \in Nat /\ Paid \in Nat /\ Grid \in Nat
    <2>1. Inv => Threads \in Nat /\ Begun \in Nat
      BY Counts
    <2>2. Inv' => (Threads \in Nat /\ Begun \in Nat)'
      BY Counts, PTL
    <2> QED BY <2>1, <2>2, Numbers
  <1>4. guards' = guards
    OBVIOUS
  <1>5. (OwnMode => ~blk.memo)'
    BY DEF LedgerInv
  <1>6. (blk.memo => guards + Threads <= Paid + Begun)'
    <2>1. blk.memo => guards + Threads <= Paid + Begun
      BY DEF LedgerInv
    <2> QED BY <1>2, <1>3, <2>1, Carried
  <1>7. (blk.memo /\ guards > 0 => blk.len = 0 \/ Recorded)'
    BY <1>1 DEF LedgerInv, Recorded
  <1>8. OwnMode' => /\ own' \subseteq Alts' \X (0..n')
                    /\ guards' + Threads' <= OwnPaid' + Begun'
    <2> SUFFICES ASSUME OwnMode'
                 PROVE  /\ own \subseteq Alts \X (0..n)
                        /\ guards + Threads' <= OwnPaid + Begun'
      BY <1>1 DEF OwnPaid
    <2>1. /\ own \subseteq Alts \X (0..n)
          /\ guards + Threads <= OwnPaid + Begun
      BY DEF LedgerInv
    <2>2. OwnPaid \in Nat
      BY <2>1, Numbers DEF OwnPaid
    <2> QED BY <1>3, <2>1, <2>2, Carried
  <1>9. ~blk'.memo /\ ~OwnMode' => guards' <= OncePaid' + Begun'
    <2> SUFFICES ASSUME ~blk.memo, ~OwnMode'
                 PROVE  guards <= OncePaid + Begun'
      BY <1>1 DEF OncePaid
    <2>1. OncePaid \in Nat
      BY <1>3 DEF OncePaid
    <2>2. CASE OwnMode
      <3>1. OwnPaid \in Nat /\ OwnPaid <= OncePaid
        BY <2>2, Numbers DEF LedgerInv, OwnPaid, OncePaid
      <3>2. guards + Threads <= OwnPaid + Begun
        BY <2>2 DEF LedgerInv
      <3>3. guards + Threads <= OncePaid + Begun
        BY <1>3, <2>1, <3>1, <3>2
      <3> QED BY <1>3, <2>1, <3>3, Carried
    <2>3. CASE ~OwnMode
      <3>1. guards <= OncePaid + Begun
        BY <2>3 DEF LedgerInv
      <3>2. Threads = 0
        BY <2>3, NoThreads
      <3> QED BY <1>3, <2>1, <3>1, <3>2, Carried
    <2> QED BY <2>2, <2>3
  <1>10. (guards > 0 => Alts # {})'
    BY <1>1 DEF LedgerInv
  <1> QED BY <1>5, <1>6, <1>7, <1>8, <1>9, <1>10 DEF LedgerInv
\* The ordinary body enters no Alt that is counted, nor the way to it.
LEMMA OrdinaryLedger ==
    ASSUME Inv, Inv', MemoInv, LedgerInv, ~w.fallback, pc \in Body,
           \/ Attempt \/ NoMoreStarts \/ PlaceStack \/ StackRefused \/ ReadByte
           \/ EmptyWidth \/ Fail \/ Alt \/ AltOverflows \/ FailEmpty \/ Pop \/ BudgetSpent
    PROVE  LedgerInv'
  <1>1. /\ UNCHANGED <<prog, text, host, memo, own, guards>>
        /\ blk' = blk \/ blk' = Trip(blk) \/ blk' = Saved(blk)
    BY DEF Attempt, NoMoreStarts, PlaceStack, StackRefused, ReadByte, EmptyWidth, Fail, Fails,
           Alt, AltOverflows, FailEmpty, Pop, BudgetSpent, ToFallback, Goto, fixed, ghosts
  <1>2. blk'.memo = blk.memo /\ blk'.len = blk.len /\ blk'.ptr = blk.ptr
    BY <1>1, Unfold, BookkeepingLeaves
  <1>3. \/ pc' \in Body \union {"none"} /\ ~w'.fallback
        \/ pc' = "anchor" /\ w'.fallback /\ ~w'.ready /\ w'.start = host.from
    <2>1. CASE ToFallback
      <3>1. pc' = "anchor" /\ w' = Handed
        BY <2>1 DEF ToFallback, Goto
      <3>2. Handed.fallback /\ ~Handed.ready /\ Handed.start = host.from
        BY Unfold, NothingTyped DEF Handed, Locals
      <3> QED BY <3>1, <3>2
    <2>2. CASE ~ToFallback
      <3>1. ~w'.fallback
        <4>1. CASE Pop
          <5>1. Popped \in Locals /\ ~Popped.fallback
            BY <4>1, PoppedIs DEF Pop
          <5> QED BY <4>1, <5>1 DEF Pop, Locals
        <4>2. CASE Alt
          BY <4>2, PushIs DEF Alt
        <4>3. CASE ~Pop /\ ~Alt
          BY <2>2, <4>3, Unfold, LocalsAre
          DEF Attempt, NoMoreStarts, PlaceStack, StackRefused, ReadByte, EmptyWidth, Fail,
              Fails, GoesOn, AltOverflows, FailEmpty, BudgetSpent
        <4> QED BY <4>1, <4>2, <4>3
      <3>2. pc' \in Body \union {"none"}
        BY <2>2
        DEF Attempt, NoMoreStarts, PlaceStack, StackRefused, ReadByte, EmptyWidth, Fail,
            Fails, Alt, AltOverflows, FailEmpty, Pop, BudgetSpent, Goto, Body
      <3> QED BY <3>1, <3>2
    <2> QED BY <2>1, <2>2
  <1>4. Threads = 0 /\ Threads' = 0 /\ Begun = host.from /\ Begun' = host.from
    BY <1>1, <1>3 DEF Threads, Begun, Calling, Body
  <1>5. ~OwnMode /\ ~OwnMode'
    BY <1>3 DEF OwnMode, Body
  <1>6. ~blk.memo => guards = 0
    BY <1>5 DEF LedgerInv, FirstOwn
  <1>7. FirstOwn'
    BY <1>1, <1>2, <1>6 DEF FirstOwn
  <1>8. Threads' + Begun <= Threads + Begun' /\ host'.from = host.from
    BY <1>1, <1>4, Unfold, HostAre
  <1> QED BY <1>1, <1>2, <1>5, <1>7, <1>8, Steady

\* A call is entered: it has begun nothing but what the host had.
LEMMA EnteringLedger ==
    ASSUME Inv, Inv', MemoInv, LedgerInv,
           \/ CallFind \/ EnterForced \/ CheckAnchor \/ EnterTripped \/ EnterNew \/ EnterLive
    PROVE  LedgerInv'
  <1>1. /\ UNCHANGED <<prog, plan, text, host, memo, own, guards>>
        /\ blk' = blk \/ blk' = Trip(blk) \/ blk' = Opened(blk, Rate * (n + 1))
    BY DEF CallFind, EnterForced, CheckAnchor, EnterTripped, EnterNew, EnterLive,
           ToFallback, Goto, fixed, ghosts
  <1>2. blk'.memo = blk.memo /\ blk'.len = blk.len /\ blk'.ptr = blk.ptr
    BY <1>1, Unfold, BookkeepingLeaves
  <1>3. /\ pc \in {"host", "forced", "anchor", "entry"}
        /\ pc = "host" => host.status = "driving"
        /\ pc # "host" => w.start = host.from
        /\ pc' \in {"forced", "anchor", "entry", "outer", "none"}
        /\ w'.start = host.from /\ ~w'.ready
    <2>1. /\ pc \in {"host", "forced", "anchor", "entry"}
          /\ pc = "host" => host.status = "driving"
          /\ pc' \in {"forced", "anchor", "entry", "outer", "none"}
      BY DEF CallFind, EnterForced, CheckAnchor, EnterTripped, EnterNew, EnterLive,
             ToFallback, Goto
    <2>2. pc # "host" => w.start = host.from /\ ~w.ready
      BY <2>1, Unfold DEF Placed
    <2>3. Handed.start = host.from /\ ~Handed.ready
      BY Unfold, NothingTyped DEF Handed, Locals
    <2>4. CASE CallFind
      BY <2>1, <2>2, <2>4, Unfold, NothingTyped DEF CallFind, Locals
    <2>5. CASE ~CallFind
      <3>1. pc # "host"
        BY <2>5 DEF EnterForced, CheckAnchor, EnterTripped, EnterNew, EnterLive
      <3>2. w'.start = host.from /\ ~w'.ready
        BY <2>2, <2>3, <2>5, <3>1, Unfold, LocalsAre
        DEF EnterForced, CheckAnchor, EnterTripped, EnterNew, EnterLive, ToFallback
      <3> QED BY <2>1, <2>2, <3>2
    <2> QED BY <2>4, <2>5
  <1>4. Threads = 0 /\ Threads' = 0 /\ Begun = host.from /\ Begun' = host.from
    BY <1>1, <1>3 DEF Threads, Begun, Calling, Body
  <1>5. ~OwnMode /\ ~OwnMode'
    BY <1>3 DEF OwnMode, Body
  <1>6. FirstOwn'
    <2> SUFFICES ASSUME ~blk.memo PROVE FirstOwn'
      BY <1>2 DEF FirstOwn
    <2>1. CASE CheckAnchor
      <3>1. pc = "anchor" /\ (guards = 0 \/ (plan.anchored /\ host.from > 0))
        BY <1>5, <2>1 DEF LedgerInv, FirstOwn, CheckAnchor
      <3>2. plan.anchored /\ host.from > 0 => pc' = "none"
        <4>1. w.start = host.from /\ host.from \in Nat
          BY <1>3, <2>1, Unfold, HostAre DEF CheckAnchor
        <4> QED BY <2>1, <4>1 DEF CheckAnchor, Goto
      <3>3. pc' # "none" => guards = 0
        BY <3>1, <3>2
      <3>4. pc' \in {"none", "outer", "entry"}
        BY <2>1 DEF CheckAnchor, Goto
      <3> QED BY <1>1, <3>3, <3>4 DEF FirstOwn, Body
    <2>2. CASE CallFind \/ EnterForced
      <3>1. guards = 0 \/ (plan.anchored /\ host.from > 0)
        BY <1>3, <1>5, <2>2 DEF LedgerInv, FirstOwn, CallFind, EnterForced
      <3>2. pc' \in {"forced", "anchor"}
        BY <2>2 DEF CallFind, EnterForced, Goto
      <3> QED BY <1>1, <3>1, <3>2 DEF FirstOwn, Body
    <2>3. CASE EnterTripped \/ EnterNew \/ EnterLive
      <3>1. guards = 0
        BY <1>5, <2>3 DEF LedgerInv, FirstOwn, EnterTripped, EnterNew, EnterLive
      <3> QED BY <1>1, <3>1 DEF FirstOwn
    <2> QED BY <2>1, <2>2, <2>3
  <1>7. Threads' + Begun <= Threads + Begun' /\ host'.from = host.from
    BY <1>1, <1>4, Unfold, HostAre
  <1> QED BY <1>1, <1>2, <1>5, <1>6, <1>7, Steady
\* A fallback call follows a branch, drops it, takes up the next, or starts anew.
LEMMA FallbackLedger ==
    ASSUME Inv, Inv', MemoInv, LedgerInv, w.fallback, pc \in Body,
           \/ Attempt \/ NoMoreStarts \/ ReadByte \/ EmptyWidth \/ Fail \/ FailEmpty
           \/ PopFallback
    PROVE  LedgerInv'
  <1>1. UNCHANGED <<prog, plan, text, host, blk, memo, own, guards>>
    BY DEF Attempt, NoMoreStarts, ReadByte, EmptyWidth, Fail, Fails, FailEmpty, PopFallback,
           Goto, fixed, ghosts, Saved
  <1>2. /\ w'.fallback /\ w'.ready = w.ready /\ w'.kept = w.kept
        /\ pc' \in Body \union {"none"}
        /\ Threads' + Begun <= Threads + Begun'
    <2>1. /\ w.start \in Nat /\ Len(w.stack) \in Nat /\ w \in Locals
      BY Unfold, LocalsAre
    <2>2. CASE Attempt
      <3>1. PICK s \in w.start..n :
               w' = [w EXCEPT !.start = s, !.pos = s, !.at = prog.start, !.stack = << >>]
        BY <2>2 DEF Attempt
      <3>2. /\ w'.start = s /\ w'.fallback /\ w'.ready = w.ready /\ w'.kept = w.kept
            /\ Len(w'.stack) = 0 /\ s \in Nat /\ w.start <= s
        BY <2>1, <3>1, Unfold, LocalsAre
      <3>3. pc = "outer" /\ pc' \in {"run", "place"}
        BY <2>2 DEF Attempt, Goto
      <3>4. Threads = 0 /\ Begun = w.start
        BY <3>3 DEF Threads, Begun, Calling, Body
      <3>5. CASE pc' = "run"
        <4>1. Threads' = 1 /\ Begun' = s + 1
          BY <3>2, <3>5 DEF Threads, Begun, Calling, Body
        <4> QED BY <2>1, <3>2, <3>4, <3>5, <4>1 DEF Body
      <3>6. CASE pc' = "place"
        <4>1. Threads' = 0 /\ Begun' = s
          BY <3>2, <3>6 DEF Threads, Begun, Calling, Body
        <4> QED BY <2>1, <3>2, <3>4, <3>6, <4>1 DEF Body
      <3> QED BY <3>3, <3>5, <3>6
    <2>3. CASE NoMoreStarts
      <3>1. pc = "outer" /\ pc' = "none" /\ w' = w
        BY <2>3 DEF NoMoreStarts, Goto
      <3>2. Threads = 0 /\ Begun = w.start /\ Threads' = 0 /\ Begun' = w.start
        BY <3>1 DEF Threads, Begun, Calling, Body
      <3> QED BY <2>1, <3>1, <3>2
    <2>4. CASE ReadByte \/ EmptyWidth \/ Fail
      <3>1. /\ w'.start = w.start /\ w'.fallback /\ w'.ready = w.ready
            /\ w'.kept = w.kept /\ w'.stack = w.stack
        BY <2>1, <2>4, LocalsAre DEF ReadByte, EmptyWidth, Fail, Fails, GoesOn
      <3>2. pc = "run" /\ pc' \in {"run", "fail"}
        BY <2>4 DEF ReadByte, EmptyWidth, Fail, Fails, Goto
      <3>3. Threads = Len(w.stack) + 1 /\ Begun = w.start + 1 /\ Begun' = w.start + 1
        BY <3>1, <3>2 DEF Threads, Begun, Calling, Body
      <3>4. CASE pc' = "run"
        <4>1. Threads' = Len(w.stack) + 1
          BY <3>1, <3>4 DEF Threads
        <4> QED BY <2>1, <3>1, <3>3, <3>4, <4>1 DEF Body
      <3>5. CASE pc' = "fail"
        <4>1. Threads' = Len(w.stack)
          BY <3>1, <3>5 DEF Threads
        <4> QED BY <2>1, <3>1, <3>3, <3>5, <4>1 DEF Body
      <3> QED BY <3>2, <3>4, <3>5
    <2>5. CASE FailEmpty
      <3>1. /\ w'.start = w.start + 1 /\ w'.fallback /\ w'.ready = w.ready
            /\ w'.kept = w.kept /\ pc = "fail" /\ pc' = "outer" /\ Len(w.stack) = 0
        BY <2>1, <2>5, LocalsAre DEF FailEmpty, Goto
      <3>2. /\ Threads = 0 /\ Begun = w.start + 1 /\ Begun' = w.start + 1 /\ Threads' = 0
        BY <3>1 DEF Threads, Begun, Calling, Body
      <3> QED BY <2>1, <3>1, <3>2 DEF Body
    <2>6. CASE PopFallback
      <3>1. /\ pc = "fail" /\ pc' = "run" /\ w' = Popped /\ w.stack # << >>
        BY <2>6 DEF PopFallback, Goto
      <3>2. /\ w'.start = w.start /\ w'.fallback /\ w'.ready = w.ready /\ w'.kept = w.kept
            /\ Len(w'.stack) = Len(w.stack) - 1
        BY <3>1, PoppedIs
      <3>3. /\ Threads = Len(w.stack) /\ Begun = w.start + 1 /\ Begun' = w.start + 1
            /\ Threads' = Len(w.stack) - 1 + 1
        BY <3>1, <3>2 DEF Threads, Begun, Calling, Body
      <3> QED BY <2>1, <3>1, <3>2, <3>3 DEF Body
    <2> QED BY <2>2, <2>3, <2>4, <2>5, <2>6
  <1>3. OwnMode' => OwnMode /\ own' = own
    BY <1>1, <1>2 DEF OwnMode
  <1>4. FirstOwn'
    <2> SUFFICES ASSUME ~blk.memo, ~OwnMode', pc' \in Body
                 PROVE  guards = 0
      BY <1>1, <1>2 DEF FirstOwn, Body
    <2>1. ~OwnMode
      BY <1>2 DEF OwnMode
    <2> QED BY <2>1 DEF LedgerInv, FirstOwn
  <1> QED BY <1>1, <1>2, <1>3, <1>4, Steady

\* A call that ends, or a host that goes on, leaves no branch to follow.
LEMMA QuietLedger ==
    ASSUME Inv, Inv', MemoInv, LedgerInv, NothingToGive \/ MemoRefused \/ PastTheEnd
                                          \/ None \/ Unknown
    PROVE  LedgerInv'
  <1>1. /\ UNCHANGED <<prog, plan, text, blk, memo, guards>>
        /\ host'.from = host.from /\ pc' = "host" /\ pc \in {"host", "after", "none", "unknown"}
        /\ host' = host \/ host'.status \in {"done", "unknown"}
    BY Unfold, HostAre DEF NothingToGive, MemoRefused, PastTheEnd, None, Unknown, fixed, ghosts
  <1>2. ~OwnMode /\ ~OwnMode'
    BY <1>1 DEF OwnMode, Body
  <1>3. Threads = 0 /\ Threads' = 0
    BY <1>1 DEF Threads
  <1>4. /\ Begun \in Nat /\ host.from \in Nat /\ Begun <= n + 1 /\ n' = n /\ n \in Nat
        /\ host.from <= n + 1
    BY <1>1, Counts, Unfold, HostAre DEF n, Placed
  <1>5. Begun <= Begun'
    <2>1. CASE NothingToGive
      <3>1. pc = "after" /\ pc' = "host" /\ host' = host
        BY <2>1 DEF NothingToGive
      <3> QED BY <1>4, <3>1 DEF Begun, Calling, Body
    <2>2. CASE ~NothingToGive
      <3>1. host'.status # "driving"
        BY <2>2, Unfold, HostAre DEF MemoRefused, PastTheEnd, None, Unknown
      <3>2. Begun' = n + 1
        BY <1>1, <1>4, <3>1 DEF Begun, Calling, Body
      <3> QED BY <1>4, <3>2
    <2> QED BY <2>1, <2>2
  <1>6. FirstOwn'
    <2> SUFFICES ASSUME ~blk.memo, host'.status = "driving"
                 PROVE  guards = 0 \/ (plan.anchored /\ host.from > 0)
      BY <1>1 DEF FirstOwn, Body
    <2>1. NothingToGive
      BY Unfold, HostAre DEF MemoRefused, PastTheEnd, None, Unknown
    <2>2. pc = "after" /\ blk.state # "tripped"
      BY <2>1 DEF NothingToGive, WantsMemo
    <2> QED BY <1>2, <2>2 DEF LedgerInv, FirstOwn
  <1>7. Threads' + Begun <= Threads + Begun'
    <2>1. Begun' \in Nat /\ 0 + Begun <= 0 + Begun'
      <3>1. Inv' => (Begun \in Nat)'
        BY Counts, PTL
      <3> QED BY <1>4, <1>5, <3>1
    <2> QED BY <1>3, <2>1
  <1> QED BY <1>1, <1>2, <1>6, <1>7, Steady
LEMMA AltHere ==
    ASSUME Inv, pc = "run", Here.op = "alt"
    PROVE  /\ w.at \in Alts /\ Alts # {}
           /\ Mark \in Alts \X (0..n) /\ Mark[1] = w.at /\ Mark[2] = w.pos
  <1>1. w.at \in Alts
    BY Unfold, LocalsAre DEF Here, Alts, OpAt
  <1>2. w.pos \in 0..n
    BY Unfold, LocalsAre DEF FramesPlaced
  <1> QED BY <1>1, <1>2 DEF Mark

\* A fallback call marks in the search's memo, this text's, or in its own.
LEMMA MarksWhere ==
    ASSUME Inv, MemoInv, pc \in {"run", "fail"}, w.fallback
    PROVE  /\ w.kept => blk.memo /\ Recorded /\ ~OwnMode
           /\ ~w.kept => OwnMode
  <1>1. w.kept => blk.memo /\ Recorded
    BY Unfold DEF MemoInv, Recorded
  <1>2. w.ready
    BY Unfold DEF Placed
  <1> QED BY <1>1, <1>2 DEF OwnMode, Body

LEMMA VisitedLedger ==
    ASSUME Inv, Inv', MemoInv, LedgerInv, AltVisited
    PROVE  LedgerInv'
  <1>1. /\ pc = "run" /\ pc' = "fail" /\ w.fallback /\ Here.op = "alt"
        /\ UNCHANGED <<prog, plan, text, host, blk, memo, own, w>> /\ guards' = guards + 1
    BY DEF AltVisited, fixed
  <1>2. Alts' = Alts /\ n' = n /\ Paid' = Paid /\ Recorded' = Recorded /\ OwnPaid' = OwnPaid
    BY <1>1 DEF Alts, n, Grid, Counted, Paid, Recorded, OwnPaid
  <1>3. Threads = Len(w.stack) + 1 /\ Begun = w.start + 1
    BY <1>1 DEF Threads, Begun, Calling, Body
  <1>4. Threads' = Len(w.stack) /\ Begun' = w.start + 1
    BY <1>1 DEF Threads, Begun, Calling, Body
  <1>5. /\ Len(w.stack) \in Nat /\ w.start \in Nat /\ guards \in Nat /\ Paid \in Nat
        /\ guards' + Threads' = guards + Threads /\ Begun' = Begun
    BY <1>1, <1>3, <1>4, Numbers, Counts, Unfold, LocalsAre
  <1>6. Alts # {}
    BY <1>1, AltHere
  <1>7. (OwnMode <=> ~w.kept) /\ (OwnMode' <=> OwnMode) /\ (w.kept => blk.memo /\ Recorded)
    <2>1. OwnMode' <=> OwnMode
      BY <1>1 DEF OwnMode, Body
    <2> QED BY <1>1, <2>1, MarksWhere
  <1>8. CASE w.kept
    <2>1. guards + Threads <= Paid + Begun
      BY <1>7, <1>8 DEF LedgerInv
    <2>2. guards' + Threads' <= Paid' + Begun'
      BY <1>2, <1>5, <2>1
    <2> QED BY <1>1, <1>2, <1>6, <1>7, <1>8, <2>2 DEF LedgerInv, FirstOwn
  <1>9. CASE ~w.kept
    <2>1. ~blk.memo /\ own \subseteq Alts \X (0..n) /\ guards + Threads <= OwnPaid + Begun
      BY <1>7, <1>9 DEF LedgerInv
    <2>2. guards' + Threads' <= OwnPaid' + Begun'
      BY <1>2, <1>5, <2>1
    <2> QED BY <1>1, <1>2, <1>6, <1>7, <1>9, <2>1, <2>2 DEF LedgerInv, FirstOwn
  <1> QED BY <1>8, <1>9
\* A mark of an Alt that was not there.
LEMMA OneMore ==
    ASSUME Inv, NEW S \in SUBSET (Alts \X (0..n)), NEW mark \in Alts \X (0..n), mark \notin S
    PROVE  /\ S \union {mark} \in SUBSET (Alts \X (0..n))
           /\ Cardinality(S) \in Nat /\ Cardinality(S \union {mark}) = Cardinality(S) + 1
           /\ Cardinality(S) + 1 <= Grid
  <1>1. S \union {mark} \in SUBSET (Alts \X (0..n))
    OBVIOUS
  <1>2. IsFiniteSet(S) /\ Cardinality(S) \in Nat
    BY Numbers
  <1>3. Cardinality(S \union {mark}) = Cardinality(S) + 1
    BY <1>2, FS_AddElement
  <1> QED BY <1>1, <1>2, <1>3, Numbers

\* A mark pays two: for an Alt entered, and a branch opened.
LEMMA TwoMore ==
    ASSUME NEW g \in Nat, NEW t \in Nat, NEW b \in Nat, NEW t1 \in Nat, NEW b1 \in Nat,
           NEW p \in Nat, NEW p1 \in Nat, t1 + b <= t + 1 + b1, p1 >= p + 2, g + t <= p + b
    PROVE  (g + 1) + t1 <= p1 + b1 /\ g + 1 <= p1 + b1
  OBVIOUS

\* An Alt is entered at a position it has no mark at: the mark pays for the two
\* branches that are then to be followed, and for having entered it.
LEMMA AltMarksLedger ==
    ASSUME Inv, Inv', MemoInv, LedgerInv, AltMarks
    PROVE  LedgerInv'
  <1>1. /\ pc = "run" /\ w.fallback /\ Here.op = "alt" /\ ~Marked
        /\ UNCHANGED <<prog, plan, text, host, blk>> /\ guards' = guards + 1
        /\ w.kept => memo' = memo \union {Mark} /\ own' = own
        /\ ~w.kept => own' = own \union {Mark} /\ memo' = memo
    BY DEF AltMarks, fixed
  <1>2. /\ Alts' = Alts /\ n' = n /\ Grid' = Grid /\ Recorded' = Recorded
        /\ OncePaid' = OncePaid
    BY <1>1 DEF Alts, n, Grid, Recorded, OncePaid
  <1>3. Threads = Len(w.stack) + 1 /\ Begun = w.start + 1
    BY <1>1 DEF Threads, Begun, Calling, Body
  <1>4. /\ Len(w.stack) \in Nat /\ w.start \in Nat /\ guards \in Nat /\ Paid \in Nat
        /\ Grid \in Nat
    BY Numbers, Counts, Unfold, LocalsAre
  <1>5. /\ w'.fallback /\ w'.start = w.start /\ w'.ready = w.ready /\ w'.kept = w.kept
        /\ \/ pc' = "run" /\ Len(w'.stack) = Len(w.stack) + 1
           \/ pc' = "unknown"
    <2>1. CASE Push /\ pc' = "run"
      BY <1>1, <2>1, PushIs
    <2>2. CASE pc' = "unknown" /\ w' = w
      BY <1>1, <2>2
    <2> QED BY <2>1, <2>2 DEF AltMarks
  <1>6. /\ Threads' + Begun <= Threads + 1 + Begun' /\ Threads \in Nat /\ Begun \in Nat
        /\ Begun' \in Nat /\ Threads' \in Nat
    <2>1. CASE pc' = "run"
      <3>1. Threads' = Len(w.stack) + 1 + 1 /\ Begun' = w.start + 1
        <4>1. Threads' = Len(w'.stack) + 1 /\ Begun' = w'.start + 1
          BY <1>5, <2>1 DEF Threads, Begun, Calling, Body
        <4> QED BY <1>5, <2>1, <4>1
      <3> QED BY <1>3, <1>4, <3>1
    <2>2. CASE pc' = "unknown"
      <3>1. Threads' = 0 /\ Begun' = w.start
        BY <1>5, <2>2 DEF Threads, Begun, Calling, Body
      <3> QED BY <1>3, <1>4, <3>1
    <2> QED BY <1>5, <2>1, <2>2
  <1>7. Alts # {} /\ Mark \in Alts \X (0..n)
    BY <1>1, AltHere
  <1>8. (OwnMode <=> ~w.kept) /\ (w.kept => blk.memo /\ Recorded) /\ (OwnMode' => ~w.kept)
    BY <1>1, <1>5, MarksWhere DEF OwnMode
  <1>9. CASE w.kept
    <2>1. PICK mark : mark = Mark
      OBVIOUS
    <2>2. mark \in Alts \X (0..n) /\ mark \notin Counted /\ memo' = memo \union {mark}
      BY <1>1, <1>7, <1>9, <2>1 DEF Marked, Counted
    <2>3. Counted' = Counted \union {mark}
      BY <1>2, <2>2 DEF Counted
    <2>4. Cardinality(Counted') = Cardinality(Counted) + 1 /\ Cardinality(Counted) \in Nat
      BY <2>2, <2>3, Numbers, OneMore
    <2>5. Paid' \in Nat /\ Paid' >= Paid + 2
      <3>1. PICK spent \in Nat : spent = 2 * (Cardinality(Alts) * host.from)
        BY Numbers
      <3>2. Paid = 2 * (Grid + Cardinality(Counted) + spent)
        BY <3>1 DEF Paid
      <3>3. Paid' = 2 * (Grid + (Cardinality(Counted) + 1) + spent)
        BY <1>1, <1>2, <2>4, <3>1 DEF Paid
      <3> HIDE <3>1
      <3> QED BY <1>4, <2>4, <3>2, <3>3
    <2>6. guards + Threads <= Paid + Begun
      BY <1>8, <1>9 DEF LedgerInv
    <2>7. guards' + Threads' <= Paid' + Begun'
      <3>1. PICK paid \in Nat : paid = Paid'
        BY <2>5
      <3>2. paid >= Paid + 2
        BY <2>5, <3>1
      <3>3. (guards + 1) + Threads' <= paid + Begun'
        BY <1>4, <1>6, <2>6, <3>2, TwoMore
      <3> QED BY <1>1, <3>1, <3>3
    <2> QED BY <1>1, <1>2, <1>5, <1>7, <1>8, <1>9, <2>7 DEF LedgerInv, FirstOwn
  <1>10. CASE ~w.kept
    <2>1. PICK mark : mark = Mark
      OBVIOUS
    <2>2. /\ ~blk.memo /\ own \subseteq Alts \X (0..n)
          /\ guards + Threads <= OwnPaid + Begun
      BY <1>8, <1>10 DEF LedgerInv
    <2>3. mark \in Alts \X (0..n) /\ mark \notin own /\ own' = own \union {mark}
      BY <1>1, <1>7, <1>10, <2>1 DEF Marked
    <2>4. /\ own' \in SUBSET (Alts \X (0..n)) /\ Cardinality(own) \in Nat
          /\ Cardinality(own') = Cardinality(own) + 1 /\ Cardinality(own) + 1 <= Grid
      BY <2>2, <2>3, OneMore
    <2>5. /\ OwnPaid \in Nat /\ OwnPaid' \in Nat /\ OncePaid \in Nat
          /\ OwnPaid' >= OwnPaid + 2 /\ OncePaid >= OwnPaid + 2
      BY <1>4, <2>4 DEF OwnPaid, OncePaid
    <2>6. guards' + Threads' <= OwnPaid' + Begun'
      <3>1. (guards + 1) + Threads' <= OwnPaid' + Begun'
        BY <1>4, <1>6, <2>2, <2>5, TwoMore
      <3> QED BY <1>1, <3>1
    <2>7. guards' <= OncePaid' + Begun'
      <3>1. guards + 1 <= OncePaid + Begun'
        BY <1>4, <1>6, <2>2, <2>5, TwoMore
      <3> QED BY <1>1, <1>2, <3>1
    <2>8. ~OwnMode' => pc' = "unknown"
      BY <1>1, <1>5, <1>10, MarksWhere, Unfold DEF OwnMode, Body, Placed
    <2> QED BY <1>1, <1>2, <1>5, <1>7, <1>10, <2>2, <2>4, <2>6, <2>7, <2>8
        DEF LedgerInv, FirstOwn, Body
  <1> QED BY <1>9, <1>10
\* A match takes back the marks between its start and its end; that the search
\* then goes on behind it pays for as many, twice over.
LEMMA TakenBack ==
    ASSUME Inv, pc = "run", NEW kept, kept = MemoAfterMatch, NEW left,
           left = {mark \in kept : mark[1] \in Alts /\ mark[2] <= n},
           NEW from \in Nat, from = ResumeAfter(w.start, w.pos)
    PROVE  /\ left \subseteq Counted /\ Cardinality(left) \in Nat
           /\ host.from <= from /\ w.start + 1 <= from
           /\ Cardinality(Alts) * from \in Nat
           /\ Cardinality(Counted) + 2 * (Cardinality(Alts) * host.from)
                <= Cardinality(left) + 2 * (Cardinality(Alts) * from)
  <1>1. /\ w.start \in Nat /\ w.pos \in Nat /\ host.from \in Nat /\ w.start <= w.pos
        /\ host.from <= w.start /\ n \in Nat /\ memo \subseteq Pcs \X Nat
    BY Unfold, LocalsAre, HostAre DEF FramesPlaced, Placed, Calling, Body, TypeOK, Marks
  <1>2. /\ host.from <= from /\ w.start + 1 <= from
        /\ (w.pos - w.start) + 1 <= 2 * (from - host.from)
        /\ (w.pos - w.start) + 1 \in Nat /\ from - host.from \in Nat
    BY <1>1 DEF ResumeAfter
  <1> DEFINE a == Cardinality(Alts)
             span == Alts \X (w.start..w.pos)
  <1>3. a \in Nat /\ IsFiniteSet(Alts)
    BY Numbers
  <1>4. /\ a * ((w.pos - w.start) + 1) <= 2 * (a * (from - host.from))
        /\ a * from = a * host.from + a * (from - host.from)
        /\ a * ((w.pos - w.start) + 1) \in Nat
        /\ a * (from - host.from) \in Nat /\ a * host.from \in Nat /\ a * from \in Nat
    <2>1. 2 * (from - host.from) \in Nat
      BY <1>2
    <2>2. /\ a * ((w.pos - w.start) + 1) <= a * (2 * (from - host.from))
          /\ a * ((w.pos - w.start) + 1) \in Nat
      BY <1>2, <1>3, <2>1, Product
    <2>3. /\ a * (2 * (from - host.from)) = 2 * (a * (from - host.from))
          /\ a * (from - host.from) \in Nat
      BY <1>2, <1>3, Product
    <2>4. /\ a * from = a * host.from + a * (from - host.from)
          /\ a * host.from \in Nat /\ a * from \in Nat
      BY <1>1, <1>2, <1>3, Product
    <2> QED BY <2>2, <2>3, <2>4
  <1>5. IsFiniteSet(span) /\ Cardinality(span) = a * ((w.pos - w.start) + 1)
    <2>1. /\ w.start \in Int /\ w.pos \in Int /\ ~(w.start > w.pos)
          /\ w.pos - w.start + 1 = (w.pos - w.start) + 1
      BY <1>1
    <2>2. /\ IsFiniteSet(w.start..w.pos)
          /\ Cardinality(w.start..w.pos) = (w.pos - w.start) + 1
      BY <2>1, FS_Interval
    <2> QED BY <1>3, <2>2, FS_Product
  <1>6. left \subseteq Counted /\ Counted \subseteq left \union span
    BY <1>1 DEF Counted, MemoAfterMatch
  <1>7. IsFiniteSet(left) /\ Cardinality(left) \in Nat
    BY <1>6, Numbers, FS_Subset, FS_CardinalityType
  <1>8. Cardinality(Counted) <= Cardinality(left) + Cardinality(span)
    <2>1. /\ IsFiniteSet(left \union span)
          /\ Cardinality(left \union span)
               = Cardinality(left) + Cardinality(span) - Cardinality(left \cap span)
      BY <1>5, <1>7, FS_Union
    <2>2. Cardinality(left \cap span) \in Nat
      BY <1>7, FS_Intersection, FS_CardinalityType
    <2>3. Cardinality(Counted) <= Cardinality(left \union span)
      BY <1>6, <2>1, FS_Subset
    <2> QED BY <1>4, <1>5, <1>7, <2>1, <2>2, <2>3, Numbers
  <1>9. Cardinality(Counted) \in Nat
    BY Numbers
  <1> HIDE DEF a, span
  <1>10. Cardinality(Counted) + 2 * (a * host.from) <= Cardinality(left) + 2 * (a * from)
    BY <1>4, <1>5, <1>7, <1>8, <1>9
  <1> USE DEF a
  <1> QED BY <1>2, <1>4, <1>6, <1>7, <1>10

LEMMA MatchLedger ==
    ASSUME Inv, Inv', MemoInv, LedgerInv, Match
    PROVE  LedgerInv'
  <1>1. /\ pc = "run" /\ pc' = "after" /\ w' = NoLocals /\ blk' = Saved(blk)
        /\ memo' = IF w.kept THEN MemoAfterMatch ELSE memo
        /\ UNCHANGED <<prog, plan, text, guards>>
    BY DEF Match, fixed, ghosts
  <1>2. /\ Alts' = Alts /\ n' = n /\ Grid' = Grid /\ OncePaid' = OncePaid
        /\ blk'.memo = blk.memo /\ blk'.len = blk.len /\ blk'.ptr = blk.ptr
    BY <1>1, Unfold, BookkeepingLeaves DEF Alts, n, Grid, OncePaid
  <1>3. /\ host'.from = ResumeAfter(w.start, w.pos) /\ host'.status = "driving"
        /\ host'.from \in Nat
    <2>1. host.status = "driving"
      BY <1>1, Unfold DEF Placed, Calling, Body
    <2>2. /\ host'.from = ResumeAfter(w.start, w.pos) /\ host'.status = host.status
      BY Unfold, HostAre DEF Match
    <2>3. ResumeAfter(w.start, w.pos) \in Nat
      BY Unfold, LocalsAre DEF ResumeAfter
    <2> QED BY <2>1, <2>2, <2>3
  <1>4. Threads' = 0 /\ Begun' = host'.from
    BY <1>1, <1>3 DEF Threads, Begun, Calling, Body
  <1>5. /\ host.from <= host'.from /\ w.start + 1 <= host'.from /\ w.start \in Nat
        /\ host.from \in Nat
    <2>1. /\ host.from <= ResumeAfter(w.start, w.pos)
          /\ w.start + 1 <= ResumeAfter(w.start, w.pos) /\ ResumeAfter(w.start, w.pos) \in Nat
      BY <1>1, <1>3, TakenBack
    <2> QED BY <1>3, <2>1, Unfold, LocalsAre, HostAre
  <1>6. Begun <= host'.from /\ Begun \in Nat /\ Threads \in Nat /\ guards \in Nat
    <2>1. Begun = w.start + 1 \/ Begun = host.from
      BY <1>1 DEF Begun, Calling, Body
    <2> QED BY <1>5, <2>1, Counts, Numbers
  <1>7. ~OwnMode'
    BY <1>1 DEF OwnMode, Body
  <1>8. Paid' >= Paid /\ Paid' \in Nat /\ Paid \in Nat
    <2>1. PICK kept : kept = MemoAfterMatch
      OBVIOUS
    <2>2. PICK left : left = {mark \in kept : mark[1] \in Alts /\ mark[2] <= n}
      OBVIOUS
    <2>3. PICK from \in Nat : from = host'.from
      BY <1>3
    <2>4. /\ Cardinality(left) \in Nat /\ Cardinality(Alts) * from \in Nat
          /\ host.from <= from
          /\ Cardinality(Counted) + 2 * (Cardinality(Alts) * host.from)
               <= Cardinality(left) + 2 * (Cardinality(Alts) * from)
      BY <1>1, <1>3, <2>1, <2>2, <2>3, TakenBack
    <2>5. Cardinality(Alts) * host.from <= Cardinality(Alts) * from
      BY <1>5, <2>4, Numbers, Product
    <2>6. PICK spent \in Nat : spent = Cardinality(Alts) * host.from
      BY Numbers
    <2>7. PICK spending \in Nat : spending = Cardinality(Alts) * from
      BY <2>4
    <2>8. Paid = 2 * (Grid + Cardinality(Counted) + 2 * spent)
      BY <2>6 DEF Paid
    <2>9. CASE w.kept
      <3>1. Counted' = left
        BY <1>1, <1>2, <2>1, <2>2, <2>9 DEF Counted
      <3>2. Paid' = 2 * (Grid + Cardinality(left) + 2 * spending)
        BY <1>2, <2>3, <2>7, <3>1 DEF Paid
      <3>3. Cardinality(Counted) + 2 * spent <= Cardinality(left) + 2 * spending
        BY <2>4, <2>6, <2>7
      <3> QED BY <2>4, <2>8, <3>2, <3>3, Numbers
    <2>10. CASE ~w.kept
      <3>1. Counted' = Counted
        BY <1>1, <1>2, <2>10 DEF Counted
      <3>2. Paid' = 2 * (Grid + Cardinality(Counted) + 2 * spending)
        BY <1>2, <2>3, <2>7, <3>1 DEF Paid
      <3>3. spent <= spending
        BY <2>5, <2>6, <2>7
      <3> QED BY <2>8, <3>2, <3>3, Numbers
    <2> QED BY <2>9, <2>10
  <1>9. blk'.memo => guards' + Threads' <= Paid' + Begun'
    <2> SUFFICES ASSUME blk.memo
                 PROVE  guards + 0 <= Paid' + host'.from
      BY <1>1, <1>2, <1>4
    <2>1. guards + Threads <= Paid + Begun
      BY DEF LedgerInv
    <2> QED BY <1>3, <1>6, <1>8, <2>1
  <1>10. ~blk'.memo => guards' <= OncePaid' + Begun'
    <2> SUFFICES ASSUME ~blk.memo
                 PROVE  guards <= OncePaid + host'.from
      BY <1>1, <1>2, <1>4
    <2>1. OncePaid \in Nat
      BY Numbers DEF OncePaid
    <2>2. CASE OwnMode
      <3>1. OwnPaid \in Nat /\ OwnPaid <= OncePaid
        BY <2>2, Numbers DEF LedgerInv, OwnPaid, OncePaid
      <3>2. guards + Threads <= OwnPaid + Begun
        BY <2>2 DEF LedgerInv
      <3> QED BY <1>3, <1>6, <2>1, <3>1, <3>2
    <2>3. CASE ~OwnMode
      <3>1. guards <= OncePaid + Begun
        BY <2>3 DEF LedgerInv
      <3> QED BY <1>3, <1>6, <2>1, <3>1
    <2> QED BY <2>2, <2>3
  <1>11. FirstOwn'
    <2> SUFFICES ASSUME ~blk.memo, blk'.state # "tripped"
                 PROVE  guards = 0 \/ (plan.anchored /\ host'.from > 0)
      BY <1>1, <1>2 DEF FirstOwn, Body
    <2>1. CASE OwnMode
      <3>1. w.fallback
        BY <2>1 DEF OwnMode
      <3>2. blk' = blk /\ blk.state # "tripped"
        BY <1>1, <3>1 DEF Saved
      <3>3. plan.anchored
        BY <1>1, <3>1, <3>2, Unfold DEF BudgetInv, Body
      <3> QED BY <1>3, <1>5, <3>3
    <2>2. CASE ~OwnMode
      BY <1>1, <2>2 DEF LedgerInv, FirstOwn, Body
    <2> QED BY <2>1, <2>2
  <1>12. (blk.memo /\ guards > 0 => blk.len = 0 \/ Recorded)'
    BY <1>1, <1>2 DEF LedgerInv, Recorded
  <1>13. (guards > 0 => Alts # {})'
    BY <1>1, <1>2 DEF LedgerInv
  <1> QED BY <1>7, <1>9, <1>10, <1>11, <1>12, <1>13 DEF LedgerInv
LEMMA NumbersNext == Inv' => (/\ Paid \in Nat /\ OncePaid \in Nat
                              /\ Begun \in Nat /\ Threads \in Nat)'
  <1>1. Inv => Paid \in Nat /\ OncePaid \in Nat /\ Begun \in Nat /\ Threads \in Nat
    BY Numbers, Counts DEF OncePaid
  <1> QED BY <1>1, PTL

\* A fallback call takes up the search's memo: if the memo's marks were made on
\* another text, the search has entered no Alt.
LEMMA SearchMemoLedger ==
    ASSUME Inv, Inv', MemoInv, LedgerInv, PlaceSearchMemo
    PROVE  LedgerInv'
  <1>1. /\ pc = "place" /\ pc' \in {"run", "unknown"} /\ w.fallback /\ blk.memo
        /\ UNCHANGED <<prog, plan, text, host, own, guards>>
        /\ memo' = IF blk.len = 0 \/ Recorded THEN memo
                   ELSE {mark \in memo : mark[2] > n}
    BY DEF PlaceSearchMemo, Serves, fixed
  <1>2. /\ blk'.memo /\ blk'.ptr = text.ptr /\ blk'.len = n + 1
    BY <1>1, Unfold, BlockAre DEF PlaceSearchMemo
  <1>3. /\ w'.start = w.start /\ w'.fallback /\ w'.kept /\ w'.stack = << >>
        /\ w.start \in Nat
    <2>1. w.stack = << >>
      BY <1>1, Unfold DEF Placed
    <2> QED BY <1>1, <2>1, Unfold, LocalsAre DEF PlaceSearchMemo
  <1>4. Alts' = Alts /\ n' = n /\ Grid' = Grid /\ Recorded' /\ ~OwnMode'
    BY <1>1, <1>2, <1>3 DEF Alts, n, Grid, Recorded, OwnMode
  <1>5. Threads = 0 /\ Begun = w.start
    BY <1>1 DEF Threads, Begun, Calling, Body
  <1>6. Threads' + Begun <= Begun' /\ Threads' \in Nat /\ Begun' \in Nat
    <2>1. CASE pc' = "run"
      <3>1. Threads' = 0 + 1 /\ Begun' = w.start + 1
        <4>1. Threads' = Len(w'.stack) + 1 /\ Begun' = w'.start + 1
          BY <1>3, <2>1 DEF Threads, Begun, Calling, Body
        <4> QED BY <1>3, <4>1
      <3> QED BY <1>3, <1>5, <3>1
    <2>2. CASE pc' = "unknown"
      <3>1. Threads' = 0 /\ Begun' = w.start
        BY <1>3, <2>2 DEF Threads, Begun, Calling, Body
      <3> QED BY <1>3, <1>5, <3>1
    <2> QED BY <1>1, <2>1, <2>2
  <1>7. Paid \in Nat /\ guards \in Nat /\ Begun \in Nat
    BY Numbers, Counts
  <1>8. guards + Threads' <= Paid' + Begun'
    <2>1. CASE blk.len = 0 \/ Recorded
      <3>1. Paid' = Paid
        BY <1>1, <1>4, <2>1 DEF Paid, Counted
      <3>2. guards + Threads <= Paid + Begun
        BY <1>1 DEF LedgerInv
      <3>3. PICK opened1 \in Nat : opened1 = Threads'
        BY <1>6
      <3>4. PICK begun \in Nat : begun = Begun'
        BY <1>6
      <3>5. opened1 + Begun <= begun
        BY <1>6, <3>3, <3>4
      <3>6. guards + opened1 <= Paid + begun
        BY <1>5, <1>7, <3>2, <3>5
      <3> QED BY <3>1, <3>3, <3>4, <3>6
    <2>2. CASE ~(blk.len = 0 \/ Recorded)
      <3>1. ~(guards > 0)
        BY <1>1, <2>2 DEF LedgerInv
      <3>2. guards = 0
        BY <1>7, <3>1
      <3>3. PICK paid \in Nat : paid = Paid'
        BY NumbersNext
      <3>4. PICK opened1 \in Nat : opened1 = Threads'
        BY <1>6
      <3>5. PICK begun \in Nat : begun = Begun'
        BY <1>6
      <3>6. opened1 + Begun <= begun
        BY <1>6, <3>4, <3>5
      <3>7. 0 + opened1 <= paid + begun
        BY <1>7, <3>6
      <3> QED BY <3>2, <3>3, <3>4, <3>5, <3>7
    <2> QED BY <2>1, <2>2
  <1>9. (guards > 0 => Alts # {})'
    BY <1>1, <1>4 DEF LedgerInv
  <1> QED BY <1>1, <1>2, <1>4, <1>8, <1>9 DEF LedgerInv, FirstOwn

\* A fallback call places a memo of its own: the search had entered no Alt.
LEMMA OwnMemoLedger ==
    ASSUME Inv, Inv', MemoInv, LedgerInv, Covered, PlaceOwnMemo
    PROVE  LedgerInv'
  <1>1. /\ pc = "place" /\ pc' \in {"run", "unknown"} /\ w.fallback /\ ~blk.memo
        /\ UNCHANGED <<prog, plan, text, host, blk, guards>> /\ own' = {}
    BY DEF PlaceOwnMemo, Serves, Covered, fixed, ghosts
  <1>2. /\ w'.start = w.start /\ w'.fallback /\ w'.ready /\ ~w'.kept /\ w'.stack = << >>
        /\ w.start \in Nat
    <2>1. w.stack = << >> /\ ~w.kept
      BY <1>1, Unfold DEF Placed
    <2> QED BY <1>1, <2>1, Unfold, LocalsAre DEF PlaceOwnMemo
  <1>3. guards = 0
    <2>1. ~OwnMode
      BY <1>1, Unfold DEF OwnMode, Placed
    <2> QED BY <1>1, <2>1 DEF LedgerInv, FirstOwn, Body
  <1>4. Grid' = Grid /\ OncePaid' = OncePaid /\ OncePaid \in Nat
    BY <1>1, Numbers DEF Alts, n, Grid, OncePaid
  <1>5. OwnPaid' = 0
    BY <1>1, FS_EmptySet DEF OwnPaid
  <1>6. CASE pc' = "run"
    <2>1. Threads' = 0 + 1 /\ Begun' = w.start + 1
      <3>1. Threads' = Len(w'.stack) + 1 /\ Begun' = w'.start + 1
        BY <1>2, <1>6 DEF Threads, Begun, Calling, Body
      <3> QED BY <1>2, <3>1
    <2>2. OwnMode'
      BY <1>2, <1>6 DEF OwnMode, Body
    <2>3. guards' + Threads' <= OwnPaid' + Begun'
      BY <1>1, <1>2, <1>3, <1>5, <2>1
    <2> QED BY <1>1, <1>3, <2>2, <2>3 DEF LedgerInv, FirstOwn
  <1>7. CASE pc' = "unknown"
    <2>1. Begun' = w.start
      BY <1>2, <1>7 DEF Begun, Calling, Body
    <2>2. ~OwnMode'
      BY <1>7 DEF OwnMode, Body
    <2>3. guards' <= OncePaid' + Begun'
      BY <1>1, <1>2, <1>3, <1>4, <2>1
    <2> QED BY <1>1, <1>3, <1>7, <2>2, <2>3 DEF LedgerInv, FirstOwn, Body
  <1> QED BY <1>1, <1>6, <1>7

\* The stub gives the search its memo, cleared: what was entered so far is paid.
LEMMA GivenLedger ==
    ASSUME Inv, Inv', MemoInv, LedgerInv, GiveMemo
    PROVE  LedgerInv'
  <1>1. /\ pc = "after" /\ pc' = "host" /\ ~blk.memo /\ memo' = {}
        /\ UNCHANGED <<prog, plan, text, host, guards, w>>
    BY DEF GiveMemo, WantsMemo, fixed, ghosts
  <1>2. blk'.memo /\ blk'.len = 0
    BY <1>1, Unfold, BlockAre DEF GiveMemo, MemoInv
  <1>3. Threads' = 0 /\ Begun' = host.from /\ Begun = host.from
    <2>1. host.status = "driving"
      BY <1>1, Unfold DEF Placed
    <2> QED BY <1>1, <2>1 DEF Threads, Begun, Calling, Body
  <1>4. ~OwnMode /\ ~OwnMode'
    BY <1>1 DEF OwnMode, Body
  <1>5. guards <= OncePaid + Begun
    BY <1>1, <1>4 DEF LedgerInv
  <1>6. Alts' = Alts /\ Grid' = Grid
    BY <1>1 DEF Alts, n, Grid
  <1>7. PICK spent \in Nat : spent = Cardinality(Alts) * host.from
    BY Numbers
  <1>8. Counted' = {}
    BY <1>1 DEF Counted
  <1>9. Paid' = 2 * (Grid + 0 + 2 * spent)
    BY <1>1, <1>6, <1>7, <1>8, FS_EmptySet DEF Paid
  <1>10. guards + 0 <= 2 * (Grid + 0 + 2 * spent) + host.from
    <2>1. guards <= 2 * Grid + host.from
      BY <1>3, <1>5 DEF OncePaid
    <2>2. guards \in Nat /\ Grid \in Nat /\ host.from \in Nat
      BY Numbers, Unfold, HostAre
    <2> QED BY <2>1, <2>2
  <1>11. guards' + Threads' <= Paid' + Begun'
    BY <1>1, <1>3, <1>9, <1>10
  <1>12. (guards > 0 => Alts # {})'
    BY <1>1, <1>6 DEF LedgerInv
  <1> QED BY <1>2, <1>4, <1>11, <1>12 DEF LedgerInv, FirstOwn

\* Another search on the block has entered none.
LEMMA AnewLedger ==
    ASSUME Inv, Inv', MemoInv, ReuseBlock
    PROVE  LedgerInv'
  <1>1. /\ pc = "host" /\ pc' = "host" /\ guards' = 0 /\ host'.status = "driving"
    BY DEF ReuseBlock, HostAt
  <1>2. ~OwnMode' /\ Threads' = 0
    BY <1>1 DEF OwnMode, Threads, Body
  <1>3. PICK paid \in Nat : paid = Paid'
    BY NumbersNext
  <1>4. PICK once \in Nat : once = OncePaid'
    BY NumbersNext
  <1>5. PICK begun \in Nat : begun = Begun'
    BY NumbersNext
  <1>6. 0 + 0 <= paid + begun /\ 0 <= once + begun
    OBVIOUS
  <1>7. guards' + Threads' <= Paid' + Begun' /\ guards' <= OncePaid' + Begun'
    BY <1>1, <1>2, <1>3, <1>4, <1>5, <1>6
  <1>8. FirstOwn' /\ ~(guards' > 0)
    BY <1>1 DEF FirstOwn
  <1> QED BY <1>2, <1>7, <1>8 DEF LedgerInv
\* The block's memo covers this text, if it has one.
LEMMA CoveredStays ==
    ASSUME Inv, Call \/ CallFind \/ PastTheEnd \/ MemoRefused \/ NothingToGive, Covered'
    PROVE  Covered
  <1>1. text' = text
    BY DEF Call, EnterForced, CheckAnchor, EnterTripped, EnterNew, EnterLive, Attempt,
           NoMoreStarts, PlaceStack, StackRefused, PlaceSearchMemo, PlaceOwnMemo, ReadByte,
           EmptyWidth, Fail, Fails, Alt, AltOverflows, AltVisited, AltMarks, FailEmpty,
           PopFallback, Pop, BudgetSpent, Match, None, Unknown, ToFallback, Goto,
           CallFind, PastTheEnd, MemoRefused, NothingToGive
  <1>2. \/ blk' = blk \/ blk' = Trip(blk) \/ blk' = Opened(blk, Rate * (n + 1))
        \/ blk' = Saved(blk) \/ blk' = [blk EXCEPT !.ptr = text.ptr, !.len = n + 1]
    BY DEF Call, EnterForced, CheckAnchor, EnterTripped, EnterNew, EnterLive, Attempt,
           NoMoreStarts, PlaceStack, StackRefused, PlaceSearchMemo, PlaceOwnMemo, ReadByte,
           EmptyWidth, Fail, Fails, Alt, AltOverflows, AltVisited, AltMarks, FailEmpty,
           PopFallback, Pop, BudgetSpent, Match, None, Unknown, ToFallback, Goto, ghosts,
           CallFind, PastTheEnd, MemoRefused, NothingToGive
  <1>3. blk'.memo = blk.memo /\ blk'.cap = blk.cap
    <2>1. CASE blk' = [blk EXCEPT !.ptr = text.ptr, !.len = n + 1]
      BY <2>1, Unfold, BlockAre
    <2> QED BY <1>2, <2>1, Unfold, BookkeepingLeaves
  <1> QED BY <1>1, <1>3 DEF Covered, n

LEMMA LedgerStep ==
    ASSUME Inv, Inv', MemoInv, Ledger, [Next]_vars
    PROVE  Ledger'
  <1> SUFFICES ASSUME Covered' PROVE LedgerInv'
    BY DEF Ledger
  <1>1. CASE Call
    <2>1. Covered /\ LedgerInv
      BY <1>1, CoveredStays DEF Ledger
    <2>2. CASE EnterForced \/ CheckAnchor \/ EnterTripped \/ EnterNew \/ EnterLive
      BY <2>1, <2>2, EnteringLedger
    <2>3. CASE PlaceSearchMemo \/ PlaceOwnMemo \/ AltVisited \/ AltMarks \/ Match
      BY <2>1, <2>3, SearchMemoLedger, OwnMemoLedger, VisitedLedger, AltMarksLedger,
         MatchLedger
    <2>4. CASE None \/ Unknown
      BY <2>1, <2>4, QuietLedger
    <2>5. CASE \/ Attempt \/ NoMoreStarts \/ PlaceStack \/ StackRefused \/ ReadByte
               \/ EmptyWidth \/ Fail \/ Alt \/ AltOverflows \/ FailEmpty \/ Pop
               \/ BudgetSpent \/ PopFallback
      <3>1. pc \in Body
        BY <2>5 DEF Attempt, NoMoreStarts, PlaceStack, StackRefused, ReadByte, EmptyWidth,
                    Fail, Alt, AltOverflows, FailEmpty, Pop, BudgetSpent, PopFallback, Body
      <3>2. CASE w.fallback
        <4>1. \/ Attempt \/ NoMoreStarts \/ ReadByte \/ EmptyWidth \/ Fail \/ FailEmpty
              \/ PopFallback
          BY <2>5, <3>2 DEF PlaceStack, StackRefused, Alt, AltOverflows, Pop, BudgetSpent
        <4> QED BY <2>1, <3>1, <3>2, <4>1, FallbackLedger
      <3>3. CASE ~w.fallback
        <4>1. ~PopFallback
          BY <3>3 DEF PopFallback
        <4> QED BY <2>1, <2>5, <3>1, <3>3, <4>1, OrdinaryLedger
      <3> QED BY <3>2, <3>3
    <2> QED BY <1>1, <2>2, <2>3, <2>4, <2>5 DEF Call
  <1>2. CASE Host
    <2>1. CASE GiveMemo
      <3>1. Covered
        BY <2>1 DEF GiveMemo, WantsMemo, Covered
      <3> QED BY <2>1, <3>1, GivenLedger DEF Ledger
    <2>2. CASE CallFind \/ PastTheEnd \/ MemoRefused \/ NothingToGive
      <3>1. LedgerInv
        BY <2>2, CoveredStays DEF Ledger
      <3> QED BY <2>2, <3>1, EnteringLedger, QuietLedger
    <2> QED BY <1>2, <2>1, <2>2 DEF Host
  <1>3. CASE ReuseBlock
    BY <1>3, AnewLedger
  <1>4. CASE UNCHANGED vars
    BY <1>4 DEF vars, Ledger, Covered, LedgerInv, FirstOwn, OwnMode, Threads, Begun, Paid,
                OwnPaid, OncePaid, Grid, Counted, Alts, Recorded, n
  <1> QED BY <1>1, <1>2, <1>3, <1>4 DEF Next

\* "One work budget per SEARCH" (bt_search.go), and after it is spent marks that
\* last as long as the search: whatever the number of calls it takes, a search
\* pops at most its budget before it is tripped, and then enters each Alt at each
\* position a fixed number of times.
THEOREM SearchStaysLinear == Spec => []SearchLinear
  <1>1. Init => MemoInv /\ Ledger
    <2> SUFFICES ASSUME Init
                 PROVE  MemoInv /\ LedgerInv
      BY DEF Ledger
    <2>1. /\ blk.len = 0 /\ ~blk.memo /\ memo = {} /\ owner = text /\ guards = 0
          /\ pc = "host" /\ host.status = "driving" /\ w = NoLocals
      BY DEF Init, ZeroBlock, HostAt
    <2>2. Inv /\ ~w.kept
      BY <2>1, Begins, Unfold DEF Placed
    <2>3. MemoInv
      BY <2>1, <2>2 DEF MemoInv
    <2>4. OncePaid \in Nat /\ Begun \in Nat /\ guards <= OncePaid + Begun
      <3>1. OncePaid \in Nat /\ Begun \in Nat
        BY <2>2, Numbers, Counts DEF OncePaid
      <3> QED BY <2>1, <3>1
    <2>5. LedgerInv
      BY <2>1, <2>4 DEF LedgerInv, FirstOwn, OwnMode, Body
    <2> QED BY <2>3, <2>5
  <1>2. Inv /\ Inv' /\ MemoInv /\ Ledger /\ [Next]_vars => (MemoInv /\ Ledger)'
    BY MemoStep, LedgerStep
  <1>3. Inv /\ MemoInv /\ Ledger => GuardsBounded
    <2> SUFFICES ASSUME Inv, MemoInv, LedgerInv, Covered
                 PROVE  guards <= 9 * Cardinality(Alts) * (n + 1)
      BY DEF GuardsBounded, Ledger, Covered
    <2>1. 9 * Cardinality(Alts) * (n + 1) = 9 * Grid
      BY Numbers, Unfold DEF Grid
    <2>2. /\ guards \in Nat /\ Threads \in Nat /\ Begun \in Nat /\ Begun <= n + 1
          /\ Paid \in Nat /\ Paid <= 8 * Grid /\ Grid \in Nat /\ n \in Nat
      BY Numbers, Counts, Unfold
    <2>3. guards <= 8 * Grid + Begun
      <3>1. CASE blk.memo
        <4>1. guards + Threads <= Paid + Begun
          BY <3>1 DEF LedgerInv
        <4> QED BY <2>2, <4>1
      <3>2. CASE OwnMode
        <4>1. guards + Threads <= OwnPaid + Begun
          BY <3>2 DEF LedgerInv
        <4>2. OwnPaid \in Nat /\ OwnPaid <= 2 * Grid
          BY <3>2, Numbers DEF LedgerInv, OwnPaid
        <4> QED BY <2>2, <4>1, <4>2
      <3>3. CASE ~blk.memo /\ ~OwnMode
        <4>1. guards <= OncePaid + Begun
          BY <3>3 DEF LedgerInv
        <4> QED BY <2>2, <4>1 DEF OncePaid
      <3> QED BY <3>1, <3>2, <3>3
    <2>4. CASE guards = 0
      BY <2>1, <2>2, <2>4
    <2>5. CASE guards > 0
      <3>1. Alts # {}
        BY <2>5 DEF LedgerInv
      <3>2. Cardinality(Alts) >= 1
        <4>1. Cardinality(Alts) \in Nat /\ Cardinality(Alts) # 0
          BY <3>1, Numbers, FS_EmptySet
        <4> QED BY <4>1
      <3>3. n + 1 <= Grid
        BY <2>2, <3>2, Numbers DEF Grid
      <3> QED BY <2>1, <2>2, <2>3, <3>3
    <2> QED BY <2>2, <2>4, <2>5
  <1> QED BY <1>1, <1>2, <1>3, Invariant, BudgetPerSearch, PTL DEF Spec, SearchLinear

=============================================================================
