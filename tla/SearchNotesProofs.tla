------------------------- MODULE SearchNotesProofs -------------------------
(* Proofs about SearchNotes, for every automaton, text and bound. *)
EXTENDS SearchNotes, FindAutomatonProofs
-----------------------------------------------------------------------------
(* Facts about the operators. *)

\* What an automaton's fields are.
LEMMA AutomatonTyped ==
    ASSUME NEW d \in Automata
    PROVE  /\ d.start \in All /\ d.mid \in [Bytes -> All]
           /\ d.delta \in [All -> [Bytes -> All]]
           /\ d.acc \subseteq States /\ d.eof \subseteq States /\ d.imm \subseteq d.acc
           /\ d.acc \subseteq d.eof
           /\ d.bound \in BOOLEAN /\ (d.bound \/ \A s \in All : d.pre[s] = {})
           /\ \A c \in Bytes : d.delta[Dead][c] = Dead
BY AutomataAssumption DEF Automaton

\* A row is a live state that does not accept.
LEMMA RowsLive ==
    ASSUME NEW d \in Automata
    PROVE  /\ Plan(d).rows \cap d.acc = {} /\ Dead \notin Plan(d).rows
           /\ Plan(d).rows \subseteq States /\ Plan(d).cond = d.bound
BY StateAssumption DEF Plan, Rows

\* The bytes of a text, and the length.
LEMMA TextTyped ==
    ASSUME NEW t \in Texts
    PROVE  /\ LenOf(t) \in Nat /\ t.ptr \in Nat
           /\ \A p \in Nat : p < LenOf(t) => ByteAt(t, p) \in Bytes
<1>1. t \in Text
    BY TextAssumption
<1>2. t.bytes \in Seq(Bytes) /\ t.ptr \in Nat
    BY <1>1 DEF Text
<1>3. ASSUME NEW p \in Nat, p < Len(t.bytes)
      PROVE  t.bytes[p + 1] \in Bytes
    BY <1>2, <1>3
<1> QED BY <1>2, <1>3 DEF LenOf, ByteAt

\* Where a call is rounded to.
LEMMA SeedTyped ==
    ASSUME NEW d \in Automata, NEW t \in Texts, NEW k \in Nat
    PROVE  Seed(d, t, k) \in Nat
BY DEF Seed
-----------------------------------------------------------------------------
(* Type correctness. *)

\* Where a running call stands, which its types rest on.
Placed ==
    /\ pc \in {"host", "entry", "after"} => ~w.marked
    /\ pc = "check" => w.marked /\ blk.armed
    /\ w.marked => blk.given /\ blk.cap >= n + 1
    /\ pc = "scan" => w.pos <= n
    /\ pc = "record" => w.marked /\ w.lEnd < n /\ w.lEnd < blk.high
    /\ pc = "found" => w.last >= 0

Typed == TypeOK /\ Placed

\* The state's typing, unfolded once.
LEMMA Facts ==
    ASSUME TypeOK
    PROVE  /\ dfa \in Automata /\ text \in Texts /\ n \in Nat
           /\ blk \in Block /\ w \in Locals
           /\ host.from \in Nat /\ host.prevEnd \in Nat \union {NoMatch}
           /\ host.answers \in Seq(Nat \X Nat)
           /\ plan = Plan(dfa) /\ plan.rows \subseteq States
           /\ \A p \in Nat : p < n => ByteAt(text, p) \in Bytes
           /\ \A q \in All, x \in Bytes : dfa.delta[q][x] \in All
BY TextTyped, AutomatonTyped, RowsLive DEF TypeOK, n, Hosts

\* b is the block but for what the waste counter says of it.
Charged(b) ==
    /\ b \in Block
    /\ b.given = blk.given /\ b.cap = blk.cap /\ b.high = blk.high
    /\ b.ptr = blk.ptr /\ b.len = blk.len /\ b.resume = blk.resume
    /\ (blk.armed => b.armed) /\ (b.seen => blk.seen)

\* Charging a block changes the counter only; it arms and never disarms.
LEMMA ChargeTyped ==
    ASSUME TypeOK, NEW amount \in Nat
    PROVE  Charged(Charge(blk, amount))
<1> DEFINE first == IF blk.first = 0 THEN host.from + 1 ELSE blk.first
           wasted == blk.wasted + amount
           over == /\ host.from + 1 >= first
                   /\ wasted > Mult * (host.from + 1 - first) + Slack
           armed == blk.armed \/ over
           seen == blk.seen /\ ~over
<1>1. blk \in Block /\ first \in Nat /\ wasted \in Nat
    BY Facts DEF Block
<1>2. /\ armed \in BOOLEAN /\ seen \in BOOLEAN
      /\ (blk.armed => armed) /\ (seen => blk.seen)
    OBVIOUS
<1>3. Charge(blk, amount) =
        [blk EXCEPT !.first = first, !.wasted = wasted, !.armed = armed, !.seen = seen]
    BY DEF Charge
<1> HIDE DEF first, wasted, over, armed, seen
<1> QED BY <1>1, <1>2, <1>3 DEF Block, Charged

\* Nor does charging a match for what was read past it.
LEMMA ChargeReturnTyped ==
    ASSUME TypeOK
    PROVE  Charged(ChargeReturn(blk))
<1>1. CASE w.pos > w.last
    <2>1. w.pos - w.last \in Nat
        BY <1>1, Facts DEF Locals, NoMatch
    <2> QED BY <1>1, <2>1, ChargeTyped DEF ChargeReturn
<1>2. CASE ~(w.pos > w.last)
    BY <1>2, Facts DEF ChargeReturn, Charged
<1> QED BY <1>1, <1>2

\* Nor charging a failed read for what an earlier one covered.
LEMMA ChargeFailTyped ==
    ASSUME TypeOK
    PROVE  Charged(ChargeFail(blk))
<1> DEFINE again == Smaller(w.pos, blk.far) - w.start
<1>1. w.pos \in Nat /\ w.start \in Nat /\ blk.far \in Nat /\ blk \in Block
    BY Facts DEF Locals, Block
<1>2. again \in Int
    BY <1>1 DEF Smaller
<1>3. CASE w.pos - w.start <= ShortWalk
    BY <1>1, <1>3 DEF ChargeFail, Charged
<1>4. CASE ~(w.pos - w.start <= ShortWalk)
    <2> DEFINE b == IF again > 0 THEN Charge(blk, again) ELSE blk
    <2>1. Charged(b)
        BY <1>1, <1>2, ChargeTyped DEF Charged
    <2>2. ChargeFail(blk) = [b EXCEPT !.far = Larger(@, w.pos)]
        BY <1>4 DEF ChargeFail
    <2> HIDE DEF b
    <2>3. Larger(b.far, w.pos) \in Nat
        BY <1>1, <2>1 DEF Larger, Block, Charged
    <2> QED BY <2>1, <2>2, <2>3 DEF Block, Charged
<1> QED BY <1>3, <1>4

\* Handing the notes over leaves a block a block.
LEMMA HandNotesTyped ==
    ASSUME NEW b \in Block, NEW t \in Texts
    PROVE  /\ HandNotes(b, t) \in Block
           /\ HandNotes(b, t).given /\ HandNotes(b, t).cap = LenOf(t) + 1
           /\ HandNotes(b, t).armed = b.armed /\ HandNotes(b, t).seen = b.seen
           /\ HandNotes(b, t).ptr = b.ptr /\ HandNotes(b, t).len = b.len
           /\ HandNotes(b, t).high = b.high /\ HandNotes(b, t).resume = b.resume
<1> DEFINE yes == TRUE
           room == LenOf(t) + 1
<1>1. room \in Nat /\ yes \in BOOLEAN /\ yes
    BY TextTyped
<1>2. HandNotes(b, t) = [b EXCEPT !.given = yes, !.cap = room]
    BY DEF HandNotes
<1>3. room = LenOf(t) + 1
    OBVIOUS
<1> HIDE DEF yes, room
<1> QED BY <1>1, <1>2, <1>3 DEF Block

\* The initial states.
LEMMA TypedInit == Init => Typed
<1> SUFFICES ASSUME Init PROVE Typed
    OBVIOUS
<1>1. LenOf(text) \in Nat
    BY TextTyped DEF Init
<1>2. ZeroBlock \in Block
    BY DEF ZeroBlock, Block
<1>3. HandNotes(ZeroBlock, text) \in Block
    BY <1>2, HandNotesTyped DEF Init
<1>4. blk \in Block
    BY <1>2, <1>3 DEF Init
<1>5. NoLocals \in Locals /\ ~NoLocals.marked
    BY DEF NoLocals, Locals, All, NoMatch
<1>6. Placed
    BY <1>5 DEF Init, Placed
<1>7. NewHost \in Hosts
    BY DEF NewHost, Hosts, NoMatch
<1> QED BY <1>4, <1>5, <1>6, <1>7 DEF Init, Typed, TypeOK

\* Steps between calls.
LEMMA TypedHost == Typed /\ Host => Typed'
<1> SUFFICES ASSUME Typed, Host PROVE Typed'
    OBVIOUS
<1> USE DEF Typed
<1>0. NoLocals \in Locals /\ ~NoLocals.marked
    BY DEF NoLocals, Locals, All, NoMatch
<1>1. CASE CallFind
    <2>1. Seed(dfa, text, host.from) \in Nat
        BY Facts, SeedTyped
    <2>2. w' \in Locals /\ ~w'.marked
        BY <1>0, <1>1, <2>1 DEF CallFind, Locals, NoLocals
    <2>3. TypeOK'
        BY <1>1, <2>2 DEF CallFind, TypeOK
    <2> QED BY <1>1, <2>2, <2>3 DEF CallFind, Placed
<1>2. CASE PastTheEnd
    <2>1. host' \in Hosts
        BY <1>2, Facts DEF PastTheEnd, TypeOK, Hosts
    <2> QED BY <1>2, <2>1 DEF PastTheEnd, TypeOK, Placed, n
<1>3. CASE Allocate
    <2>1. blk' \in Block
        BY <1>3, Facts, HandNotesTyped DEF Allocate
    <2>2. TypeOK'
        BY <1>3, <2>1 DEF Allocate, TypeOK
    <2> QED BY <1>3, <2>2 DEF Allocate, Placed
<1>4. CASE AllocationFails
    <2>1. host' \in Hosts
        BY <1>4, Facts DEF AllocationFails, TypeOK, Hosts
    <2> QED BY <1>4, <2>1 DEF AllocationFails, TypeOK, Placed, n
<1>5. CASE NothingToAllocate
    BY <1>5 DEF NothingToAllocate, TypeOK, Placed, n
<1> QED BY <1>1, <1>2, <1>3, <1>4, <1>5 DEF Host

\* Entering a call.
LEMMA TypedEntry ==
    Typed /\ (EnterMarked \/ EnterOrdinary \/ CheckFirst \/ CheckSame \/ CheckOther)
    => Typed'
<1> SUFFICES ASSUME Typed,
                    EnterMarked \/ EnterOrdinary \/ CheckFirst \/ CheckSame \/ CheckOther
             PROVE  Typed'
    OBVIOUS
<1> USE DEF Typed
<1>0. /\ NoLocals \in Locals /\ ~NoLocals.marked
      /\ Cleared \subseteq Points /\ {} \subseteq Points
      /\ text.ptr \in Nat /\ n \in Nat /\ blk \in Block /\ w \in Locals
    BY Facts, TextTyped DEF NoLocals, Locals, All, NoMatch, Cleared, TypeOK
<1>1. CASE EnterMarked
    <2> DEFINE yes == TRUE
    <2>1. yes \in BOOLEAN /\ w' = [w EXCEPT !.marked = yes]
        BY <1>1 DEF EnterMarked
    <2> HIDE DEF yes
    <2>2. w' \in Locals
        BY <1>0, <2>1 DEF Locals
    <2> QED BY <1>1, <2>2 DEF EnterMarked, TypeOK, Placed, n
<1>2. CASE EnterOrdinary
    BY <1>2 DEF EnterOrdinary, TypeOK, Placed, n
<1>3. CASE CheckFirst
    <2> DEFINE yes == TRUE
    <2>1. /\ yes \in BOOLEAN
          /\ blk' = [blk EXCEPT !.high = 0, !.ptr = text.ptr, !.len = n, !.seen = yes]
        BY <1>3 DEF CheckFirst
    <2>2. fresh' \in BOOLEAN
        BY <1>3 DEF CheckFirst
    <2> HIDE DEF yes
    <2>3. blk' \in Block /\ blk'.given = blk.given /\ blk'.cap = blk.cap
        BY <1>0, <2>1 DEF Block
    <2>4. notes' \subseteq Points /\ proved' \subseteq Points
        BY <1>0, <1>3 DEF CheckFirst, TypeOK
    <2> QED BY <1>3, <2>2, <2>3, <2>4 DEF CheckFirst, TypeOK, Placed, n
<1>4. CASE CheckSame
    BY <1>4 DEF CheckSame, TypeOK, Placed, n
<1>5. CASE CheckOther
    <2> DEFINE no == FALSE
    <2>1. /\ no \in BOOLEAN
          /\ blk' = [blk EXCEPT !.high = 0, !.wasted = 0, !.first = 0, !.armed = no,
                                !.seen = no, !.far = 0]
        BY <1>5 DEF CheckOther
    <2>2. fresh' \in BOOLEAN
        BY <1>5 DEF CheckOther
    <2> HIDE DEF no
    <2>3. blk' \in Block
        BY <1>0, <2>1 DEF Block
    <2>4. Seed(dfa, text, host.from) \in Nat
        BY Facts, SeedTyped
    <2>5. w' \in Locals /\ ~w'.marked
        BY <1>0, <1>5, <2>4 DEF CheckOther, Locals
    <2>6. TypeOK'
        BY <1>0, <1>5, <2>2, <2>3, <2>5 DEF CheckOther, TypeOK
    <2> QED BY <1>5, <2>5, <2>6 DEF CheckOther, Placed
<1> QED BY <1>1, <1>2, <1>3, <1>4, <1>5

\* The points a walk passes are points.
LEMMA PassedTyped ==
    ASSUME TypeOK
    PROVE  Passed \subseteq Points /\ Read \in Nat
BY Facts DEF TypeOK, Passed, Point, Points, Locals, Read

\* A walk that ends, recorded or not.
EndsWith(v, end, why) ==
    /\ \/ v.marked /\ StartRecord(v, end, why)
       \/ w' = [v EXCEPT !.why = why] /\ pc' = "settle" /\ UNCHANGED <<blk, proved>>
    /\ trail' = {}
    /\ UNCHANGED <<dfa, plan, text, table, host, notes, fresh>>

\* Ending a walk, recorded or not, keeps the invariant.
LEMMA TypedEndWalk ==
    ASSUME Typed, reads' \in Nat,
           NEW v \in Locals, v.marked = w.marked,
           NEW end \in Int, end < n,
           NEW why \in {"dead", "eof", "stop"},
           EndsWith(v, end, why)
    PROVE  Typed'
<1> USE DEF Typed
<1>1. v \in Locals /\ n \in Nat /\ blk \in Block
    BY Facts
<1>2. ASSUME v.marked, StartRecord(v, end, why)
      PROVE  Typed'
    <2> DEFINE start == IF v.last >= 0 THEN v.last ELSE v.lStart
               high == Larger(blk.high, end + 1)
    <2>1. start \in Nat /\ high \in Nat /\ end < high
        BY <1>1 DEF Locals, Block, Larger, NoMatch
    <2>2. /\ w' = [v EXCEPT !.lEnd = end, !.rs = v.lAcc, !.why = why, !.rp = start]
          /\ blk' = [blk EXCEPT !.high = high]
        BY <1>2 DEF StartRecord
    <2> HIDE DEF start, high
    <2>3. w' \in Locals /\ w'.marked /\ w'.lEnd = end
        BY <1>1, <1>2, <2>1, <2>2 DEF Locals
    <2>4. blk' \in Block /\ blk'.high = high /\ blk'.given = blk.given /\ blk'.cap = blk.cap
        BY <1>1, <2>1, <2>2 DEF Block
    <2>5. proved' \subseteq Points
        BY <1>2, PassedTyped DEF StartRecord, TypeOK
    <2> QED
        BY <1>2, <2>1, <2>3, <2>4, <2>5 DEF EndsWith, StartRecord, TypeOK, Placed, n
<1>3. ASSUME w' = [v EXCEPT !.why = why], pc' = "settle", UNCHANGED <<blk, proved>>
      PROVE  Typed'
    <2>1. w' \in Locals /\ w'.marked = v.marked
        BY <1>1, <1>3 DEF Locals
    <2> QED BY <1>3, <2>1 DEF EndsWith, TypeOK, Placed, n
<1> QED BY <1>2, <1>3 DEF EndsWith

\* The state a walk begins in.
LEMMA BeginsTyped ==
    ASSUME TypeOK, NEW s \in Nat, s <= n
    PROVE  Begins(dfa, text, s) \in All
<1>1. CASE s = 0
    BY <1>1, Facts, AutomatonTyped DEF Begins
<1>2. CASE s # 0
    <2>1. s - 1 \in Nat /\ s - 1 < n
        BY <1>2, Facts
    <2>2. ByteAt(text, s - 1) \in Bytes
        BY <2>1, Facts
    <2> QED BY <1>2, <2>2, Facts, AutomatonTyped DEF Begins
<1> QED BY <1>1, <1>2

\* The next state, and the walk with an accept at this byte noted.
LEMMA StepTyped ==
    ASSUME Typed, pc = "scan", w.pos < n
    PROVE  /\ NextState \in All /\ ByteAt(text, w.pos) \in Bytes
           /\ Here \in Locals /\ Here.marked = w.marked /\ Here.pos = w.pos
           /\ Here.st = w.st /\ Here.start = w.start /\ Here.lStart = w.lStart
           /\ PreAccept => Here.last = w.pos /\ Here.lAcc = w.st
           /\ ~PreAccept => Here = w
<1>1. w \in Locals /\ w.pos \in Nat /\ w.st \in All
    BY Facts DEF Typed, Locals
<1>2. ByteAt(text, w.pos) \in Bytes /\ NextState \in All
    BY <1>1, Facts DEF Typed, NextState
<1> QED BY <1>1, <1>2 DEF Here, Locals

\* The scan for a start.
LEMMA TypedStart == Typed /\ (Attempt \/ NoMoreStarts) => Typed'
<1> SUFFICES ASSUME Typed, Attempt \/ NoMoreStarts PROVE Typed'
    OBVIOUS
<1> USE DEF Typed
<1>1. CASE Attempt
    <2>1. PICK s \in w.start..n :
            LET q == Begins(dfa, text, s)
            IN  /\ w' = [w EXCEPT !.start = s, !.pos = s, !.st = q,
                                  !.last = IF Accepting(q, s) THEN s ELSE NoMatch,
                                  !.lAcc = q, !.lStart = s]
                /\ pc' = IF q \in dfa.imm THEN "found" ELSE "scan"
        BY <1>1 DEF Attempt
    <2> DEFINE q == Begins(dfa, text, s)
               last == IF Accepting(q, s) THEN s ELSE NoMatch
    <2>2. w \in Locals /\ n \in Nat /\ s \in Nat /\ s <= n
        BY Facts DEF Locals
    <2>3. q \in All
        BY <2>2, BeginsTyped
    <2>4. last \in Nat \union {NoMatch} /\ (q \in dfa.imm => last >= 0)
        BY <2>2, Facts, AutomatonTyped DEF Accepting, NoMatch
    <2>5. w' = [w EXCEPT !.start = s, !.pos = s, !.st = q, !.last = last,
                         !.lAcc = q, !.lStart = s]
        BY <2>1
    <2>6. pc' = IF q \in dfa.imm THEN "found" ELSE "scan"
        BY <2>1
    <2> HIDE DEF q, last
    <2>7. w' \in Locals /\ w'.pos = s /\ w'.last = last /\ w'.marked = w.marked
        BY <2>2, <2>3, <2>4, <2>5 DEF Locals
    <2>8. TypeOK'
        BY <1>1, <2>6, <2>7 DEF Attempt, TypeOK, Points
    <2> QED BY <1>1, <2>2, <2>4, <2>6, <2>7, <2>8 DEF Attempt, Placed, n
<1>2. CASE NoMoreStarts
    BY <1>2 DEF NoMoreStarts, TypeOK, Placed, n
<1> QED BY <1>1, <1>2

\* A step of a walk.
LEMMA TypedWalk ==
    Typed /\ (AtEnd \/ DominantAccept \/ Dies \/ Stops \/ Moves) => Typed'
<1> SUFFICES ASSUME Typed, AtEnd \/ DominantAccept \/ Dies \/ Stops \/ Moves
             PROVE  Typed'
    OBVIOUS
<1> USE DEF Typed
<1>0. /\ w \in Locals /\ n \in Nat /\ w.pos \in Nat /\ reads \in Nat
      /\ Passed \subseteq Points /\ Read \in Nat
    BY Facts, PassedTyped DEF Locals, TypeOK
<1>1. CASE AtEnd
    <2> DEFINE v == IF w.st \in dfa.eof THEN [w EXCEPT !.last = w.pos] ELSE w
    <2>1. v \in Locals /\ v.marked = w.marked
        BY <1>0 DEF Locals
    <2>2. w.pos - 1 \in Int /\ w.pos - 1 < n
        BY <1>0, <1>1 DEF AtEnd, Placed
    <2>3. EndsWith(v, w.pos - 1, "eof") /\ reads' \in Nat
        BY <1>0, <1>1 DEF AtEnd, EndWalk, EndsWith
    <2> HIDE DEF v
    <2> QED BY <2>1, <2>2, <2>3, TypedEndWalk
<1>2. CASE DominantAccept
    <2>1. Here \in Locals /\ Here.marked = w.marked /\ Here.last = w.pos
        BY <1>2, StepTyped DEF DominantAccept, Dominant
    <2>2. TypeOK'
        BY <1>2, <2>1 DEF DominantAccept, TypeOK, Points
    <2> QED BY <1>0, <1>2, <2>1, <2>2 DEF DominantAccept, Placed, n
<1>3. CASE Dies
    <2>1. Here \in Locals /\ Here.marked = w.marked
        BY <1>3, StepTyped DEF Dies
    <2>2. EndsWith(Here, w.pos, "dead") /\ reads' \in Nat /\ w.pos < n
        BY <1>0, <1>3 DEF Dies, EndWalk, EndsWith
    <2>3. w.pos \in Int /\ "dead" \in {"dead", "eof", "stop"}
        BY <1>0
    <2> QED BY <2>1, <2>2, <2>3, TypedEndWalk
<1>4. CASE Stops
    <2>1. Here \in Locals /\ Here.marked = w.marked
        BY <1>4, StepTyped DEF Stops
    <2>2. EndsWith(Here, w.pos, "stop") /\ reads' \in Nat /\ w.pos < n
        BY <1>0, <1>4 DEF Stops, EndWalk, EndsWith
    <2> QED BY <1>0, <2>1, <2>2, TypedEndWalk
<1>5. CASE Moves
    <2> DEFINE v == [Here EXCEPT !.st = NextState]
    <2>1. /\ Here \in Locals /\ Here.marked = w.marked /\ Here.pos = w.pos
          /\ NextState \in All /\ w.pos < n
        BY <1>5, StepTyped DEF Moves
    <2>2. v \in Locals /\ v.marked = w.marked /\ v.pos = w.pos
        BY <2>1 DEF Locals
    <2>3. \/ w' = [v EXCEPT !.pos = @ + 1] /\ pc' = "scan" /\ trail' = Passed
          \/ /\ w' = [v EXCEPT !.pos = @ + 1, !.last = w.pos + 1, !.lAcc = NextState]
             /\ pc' = "scan" /\ trail' = {}
          \/ /\ w' = [v EXCEPT !.last = w.pos + 1, !.lAcc = NextState]
             /\ pc' = "found" /\ trail' = {}
        BY <1>5 DEF Moves
    <2> HIDE DEF v
    <2>4. /\ w' \in Locals /\ w'.marked = w.marked
          /\ pc' = "scan" => w'.pos <= n
          /\ pc' = "found" => w'.last >= 0
        <3>1. w.pos + 1 \in Nat /\ w.pos + 1 <= n /\ v.pos + 1 = w.pos + 1
            BY <1>0, <2>1, <2>2
        <3>2. CASE w' = [v EXCEPT !.pos = @ + 1] /\ pc' = "scan"
            BY <2>2, <3>1, <3>2 DEF Locals
        <3>3. CASE /\ w' = [v EXCEPT !.pos = @ + 1, !.last = w.pos + 1, !.lAcc = NextState]
                   /\ pc' = "scan"
            BY <2>1, <2>2, <3>1, <3>3 DEF Locals
        <3>4. CASE /\ w' = [v EXCEPT !.last = w.pos + 1, !.lAcc = NextState]
                   /\ pc' = "found"
            <4>1. w' \in Locals
                BY <2>1, <2>2, <3>1, <3>4 DEF Locals
            <4>2. w'.marked = v.marked /\ w'.last = w.pos + 1
                BY <2>2, <3>4 DEF Locals
            <4> QED BY <2>2, <3>1, <3>4, <4>1, <4>2
        <3> QED BY <2>3, <3>2, <3>3, <3>4
    <2>5. trail' \subseteq Points /\ pc' \in {"scan", "found"} /\ reads' \in Nat
        BY <1>0, <1>5, <2>3 DEF Moves
    <2>6. TypeOK'
        BY <1>5, <2>4, <2>5 DEF Moves, TypeOK
    <2> QED BY <1>5, <2>4, <2>5, <2>6 DEF Moves, Placed, n
<1> QED BY <1>1, <1>2, <1>3, <1>4, <1>5

\* A step of the re-walk stays inside the tail.
LEMMA RecordTyped ==
    ASSUME Typed, RecordStep
    PROVE  /\ RecordPoint \in Points /\ w.rp <= w.lEnd /\ w.rp < n
           /\ w.rp # w.lEnd => w.rp < w.lEnd
           /\ dfa.delta[w.rs][ByteAt(text, w.rp)] \in All
<1>1. /\ w \in Locals /\ w.rs \in All /\ w.rp \in Nat /\ w.lEnd \in Int
      /\ n \in Nat /\ w.lEnd < n
    BY Facts DEF Typed, Placed, RecordStep, Locals
<1>2. w.rp <= w.lEnd
    BY <1>1 DEF RecordStep, RecordEnds
<1>3. ByteAt(text, w.rp) \in Bytes
    BY <1>1, <1>2, Facts DEF Typed
<1> QED BY <1>1, <1>2, <1>3, Facts DEF Typed, RecordPoint, Points

\* The re-walk, and what follows a walk.
LEMMA TypedRecord ==
    Typed /\ (RecordStops \/ RecordStep \/ SettleFound \/ SettleFailed) => Typed'
<1> SUFFICES ASSUME Typed, RecordStops \/ RecordStep \/ SettleFound \/ SettleFailed
             PROVE  Typed'
    OBVIOUS
<1> USE DEF Typed
<1>0. w \in Locals /\ n \in Nat
    BY Facts
<1>1. CASE RecordStops
    BY <1>1 DEF RecordStops, TypeOK, Placed, n
<1>2. CASE RecordStep
    <2>1. notes' \subseteq Points
        BY <1>2, RecordTyped DEF RecordStep, TypeOK
    <2>2. CASE w.rp = w.lEnd
        BY <1>2, <2>1, <2>2 DEF RecordStep, TypeOK, Placed, n
    <2>3. CASE w.rp # w.lEnd
        <3>1. w' \in Locals /\ w'.lEnd = w.lEnd /\ w'.marked = w.marked
            <4> DEFINE r == dfa.delta[w.rs][ByteAt(text, w.rp)]
            <4>1. w' = [w EXCEPT !.rs = r, !.rp = w.rp + 1]
                BY <1>2, <2>3 DEF RecordStep
            <4>2. r \in All /\ w.rp + 1 \in Nat
                BY <1>0, <1>2, RecordTyped DEF Locals
            <4> HIDE DEF r
            <4> QED BY <1>0, <4>1, <4>2 DEF Locals
        <3>2. TypeOK'
            BY <1>2, <2>1, <2>3, <3>1 DEF RecordStep, TypeOK
        <3> QED BY <1>2, <2>3, <3>1, <3>2 DEF RecordStep, Placed, n
    <2> QED BY <2>2, <2>3
<1>3. CASE SettleFound
    BY <1>3 DEF SettleFound, TypeOK, Placed, n
<1>4. CASE SettleFailed
    <2>1. blk' \in Block /\ blk'.given = blk.given /\ blk'.cap = blk.cap
        BY <1>4, Facts, ChargeFailTyped DEF SettleFailed, Charged
    <2>2. w' \in Locals /\ w'.marked = w.marked
        <3>1. w' = w \/ w' = [w EXCEPT !.start = w.pos + 1] \/ w' = [w EXCEPT !.start = @ + 1]
            BY <1>4 DEF SettleFailed
        <3> QED BY <1>0, <3>1 DEF Locals
    <2>3. pc' \in {"none", "outer"}
        BY <1>4, Zenon DEF SettleFailed
    <2>4. TypeOK'
        BY <1>4, <2>1, <2>2, <2>3 DEF SettleFailed, TypeOK
    <2> QED BY <1>4, <2>1, <2>2, <2>3, <2>4 DEF SettleFailed, Placed, n
<1> QED BY <1>1, <1>2, <1>3, <1>4

\* A call that returns.
LEMMA TypedReturn == Typed /\ (Found \/ None) => Typed'
<1> SUFFICES ASSUME Typed, Found \/ None PROVE Typed'
    OBVIOUS
<1> USE DEF Typed
<1>0. NoLocals \in Locals /\ ~NoLocals.marked /\ w \in Locals /\ host \in Hosts
    BY Facts DEF NoLocals, Locals, All, NoMatch, TypeOK
<1>1. CASE Found
    <2> DEFINE resume == ResumeAfter(w.start, w.last)
               answers == IF w.start = w.last /\ w.start = host.prevEnd THEN host.answers
                          ELSE Append(host.answers, <<w.start, w.last>>)
    <2>1. w.start \in Nat /\ w.last \in Nat /\ resume \in Nat
        BY <1>0, <1>1 DEF Found, Placed, Locals, ResumeAfter, NoMatch
    <2>2. answers \in Seq(Nat \X Nat)
        BY <2>1, Facts
    <2>3. host' = [host EXCEPT !.from = resume, !.prevEnd = w.last, !.answers = answers]
        BY <1>1 DEF Found
    <2>4. blk' = IF w.marked THEN [blk EXCEPT !.resume = resume] ELSE ChargeReturn(blk)
        BY <1>1 DEF Found, StoredResume
    <2> HIDE DEF resume, answers
    <2>5. host' \in Hosts
        BY <1>0, <2>1, <2>2, <2>3 DEF Hosts
    <2>6. blk' \in Block
        BY <2>1, <2>4, Facts, ChargeReturnTyped DEF Block, Charged
    <2>7. TypeOK'
        BY <1>0, <1>1, <2>5, <2>6 DEF Found, TypeOK
    <2> QED BY <1>0, <1>1, <2>7 DEF Found, Placed
<1>2. CASE None
    <2>1. host' \in Hosts
        BY <1>0, <1>2 DEF None, Hosts
    <2>2. TypeOK'
        BY <1>0, <1>2, <2>1 DEF None, TypeOK
    <2> QED BY <1>0, <1>2, <2>2 DEF None, Placed
<1> QED BY <1>1, <1>2

\* A new search on an old block.
LEMMA TypedReuse == Typed /\ ReuseBlock => Typed'
<1> SUFFICES ASSUME Typed, ReuseBlock PROVE Typed'
    OBVIOUS
<1> USE DEF Typed
<1>1. NewHost \in Hosts
    BY DEF NewHost, Hosts, NoMatch
<1>2. /\ text' \in Texts /\ table' = Table(dfa, text')
      /\ UNCHANGED <<blk, notes>> \/ (blk' = HandNotes(blk, text') /\ notes' = {})
    BY DEF ReuseBlock
<1>3. blk' \in Block /\ notes' \subseteq Points
    BY <1>2, Facts, HandNotesTyped DEF TypeOK
<1>4. fresh' \in BOOLEAN
    BY DEF ReuseBlock
<1>5. TypeOK'
    BY <1>1, <1>2, <1>3, <1>4 DEF ReuseBlock, TypeOK
<1> QED BY <1>5 DEF ReuseBlock, Placed

\* Every step keeps the types, and where a running call stands.
LEMMA TypedNext == Typed /\ [Next]_vars => Typed'
<1>1. ASSUME Typed, UNCHANGED vars PROVE Typed'
    BY <1>1 DEF Typed, TypeOK, Placed, vars, n
<1> QED
    BY <1>1, TypedHost, TypedEntry, TypedStart, TypedWalk, TypedRecord, TypedReturn, TypedReuse
    DEF Next, Call

\* The module's memory keeps its types whatever the pattern, the texts and the
\* host's choices: a walk never leaves its text, a re-walk never leaves the tail
\* it records (search_notes.go's emitRecord).
THEOREM TypeCorrect == Spec => []TypeOK
<1>1. Spec => []Typed
    BY TypedInit, TypedNext, PTL DEF Spec
<1>2. Typed => TypeOK
    BY DEF Typed
<1> QED BY <1>1, <1>2, PTL

\* A marked body runs only over notes that cover its text, and its re-walk only
\* below the high-water mark the next clear goes up to (emitEntry's test of
\* notes_cap, emitRecord's raise of notes_high).
THEOREM BodiesPlaced == Spec => []Placed
<1>1. Spec => []Typed
    BY TypedInit, TypedNext, PTL DEF Spec
<1>2. Typed => Placed
    BY DEF Typed
<1> QED BY <1>1, <1>2, PTL
-----------------------------------------------------------------------------
(* The inductive invariant. *)

Successor(pt) == <<dfa.delta[pt[1]][ByteAt(text, pt[2])], pt[2] + 1>>
Leads(pt, S) == Successor(pt)[1] = Dead \/ Successor(pt) \in S

\* What a walk has passed since its last accept leads to where it stands.
Walked == trail \union {Point}
TrailHolds ==
    pc = "scan" => \A pt \in trail : ~AcceptsAt(pt[1], pt[2]) /\ pt[2] < n /\ Leads(pt, Walked)

\* Where emitRecord will begin: the last accept, or the walk's first point.  It
\* is on the trail, or it accepts and the trail begins after it.
TailOf(v) == <<v.lAcc, IF v.last >= 0 THEN v.last ELSE v.lStart>>
Anchor == TailOf(w)
Skipped(pt) == pt[1] \in dfa.acc \/ (dfa.bound /\ pt[2] = w.last)
AnchorHolds ==
    pc = "scan" =>
        /\ Anchor \in Walked \/ (Skipped(Anchor) /\ Anchor[2] < n /\ Leads(Anchor, Walked))
        /\ w.st \in dfa.acc => Anchor = Point

\* The re-walk stands on a recorded point, or on the accept before one.
RecordHolds ==
    pc = "record" /\ fresh =>
        \/ w.rp > w.lEnd
        \/ RecordPoint \in proved
        \/ w.rs = Dead
        \/ Skipped(RecordPoint) /\ Leads(RecordPoint, proved)

\* Only a marked body over this text's notes is past its check.
MarkedFresh == w.marked /\ pc # "check" => fresh

\* A block that recorded a text is armed and has its notes.
SeenArmed == blk.seen => blk.armed /\ blk.given

\* What gives another text's notes away before they are read.
Betrayed ==
    \/ blk.ptr # text.ptr \/ blk.len # n \/ blk.cap < n + 1
    \/ /\ pc \in {"host", "entry", "check"}
       /\ Seed(dfa, text, host.from) # blk.resume
       /\ pc # "host" => w.start = Seed(dfa, text, host.from)
StaleBetrayed == ~fresh => proved = {} /\ (blk.seen => Betrayed)

\* The notes' own facts.
NotesHold == fresh => notes \subseteq proved /\ Closed(proved)
NotesPlaced == NotesInBuffer /\ (~blk.given => notes = {})

Sound == /\ TrailHolds /\ AnchorHolds /\ RecordHolds
         /\ MarkedFresh /\ SeenArmed /\ StaleBetrayed
         /\ NotesHold /\ NotesPlaced
IInv == Typed /\ Sound
-----------------------------------------------------------------------------
(* The initial states, and the steps that leave the notes and the trail alone. *)

\* The invariant holds when the iterator opens.
LEMMA SoundInit == Init => IInv
<1> SUFFICES ASSUME Init PROVE Sound
    BY TypedInit DEF IInv
<1>1. ZeroBlock \in Block /\ ~ZeroBlock.seen
    BY DEF ZeroBlock, Block
<1>2. ~blk.seen
    BY <1>1, HandNotesTyped DEF Init
<1>3. ~w.marked
    BY DEF Init, NoLocals
<1> QED
    BY <1>2, <1>3 DEF Init, Sound, TrailHolds, AnchorHolds, RecordHolds, MarkedFresh, SeenArmed,
       StaleBetrayed, NotesHold, NotesPlaced, NotesInBuffer, Closed

\* A step that touches no note.
LEMMA Still ==
    ASSUME IInv,
           UNCHANGED <<dfa, text, notes, proved, fresh>>,
           blk'.high = blk.high, blk'.cap = blk.cap, blk'.given = blk.given,
           (blk.armed => blk'.armed) /\ (blk'.seen => blk.seen),
           ~fresh /\ blk'.seen => Betrayed'
    PROVE  SeenArmed' /\ StaleBetrayed' /\ NotesHold' /\ NotesPlaced'
<1> USE DEF IInv, Sound
<1>2. SeenArmed' /\ StaleBetrayed'
    BY DEF SeenArmed, StaleBetrayed
<1>3. NotesHold'
    BY DEF NotesHold, Closed, AcceptsAt, n
<1>4. NotesPlaced'
    BY DEF NotesPlaced, NotesInBuffer
<1> QED BY <1>2, <1>3, <1>4

\* Nor begins or goes on with a walk.
LEMMA Calm ==
    ASSUME IInv,
           UNCHANGED <<dfa, text, notes, proved, fresh>>,
           pc' \notin {"scan", "record"},
           blk'.high = blk.high, blk'.cap = blk.cap, blk'.given = blk.given,
           (blk.armed => blk'.armed) /\ (blk'.seen => blk.seen),
           MarkedFresh',
           ~fresh /\ blk'.seen => Betrayed'
    PROVE  Sound'
<1>1. TrailHolds' /\ AnchorHolds' /\ RecordHolds'
    BY DEF TrailHolds, AnchorHolds, RecordHolds
<1> QED BY <1>1, Still DEF Sound

\* Once a body reads another text, the block gives that away by itself.
LEMMA StaleInside ==
    ASSUME IInv, ~fresh, blk.seen, pc \notin {"host", "entry", "check"}
    PROVE  blk.ptr # text.ptr \/ blk.len # n \/ blk.cap < n + 1
BY DEF IInv, Sound, StaleBetrayed, Betrayed

\* Steps between calls.
LEMMA SoundHost == IInv /\ Host => Sound'
<1> SUFFICES ASSUME IInv, Host PROVE Sound'
    OBVIOUS
<1>0. /\ pc \in {"host", "after"} => ~w.marked
      /\ blk.seen => blk.armed /\ blk.given
      /\ ~fresh /\ blk.seen => Betrayed
    BY DEF IInv, Typed, Placed, Sound, SeenArmed, StaleBetrayed
<1>1. CASE CallFind
    <2>1. ~w'.marked /\ w'.start = Seed(dfa, text, host.from)
        BY <1>1 DEF CallFind, NoLocals
    <2>2. MarkedFresh'
        BY <2>1 DEF MarkedFresh
    <2>3. ~fresh /\ blk'.seen => Betrayed'
        BY <1>0, <1>1, <2>1 DEF CallFind, Betrayed, n
    <2> QED BY <1>1, <2>2, <2>3, Calm DEF CallFind
<1>2. CASE PastTheEnd
    <2>1. MarkedFresh'
        BY <1>0, <1>2 DEF MarkedFresh, PastTheEnd
    <2>2. host'.from = host.from
        BY <1>2 DEF PastTheEnd, IInv, Typed, TypeOK, Hosts
    <2>3. ~fresh /\ blk'.seen => Betrayed'
        BY <1>0, <1>2, <2>2 DEF PastTheEnd, Betrayed, n
    <2> QED BY <1>2, <2>1, <2>3, Calm DEF PastTheEnd
<1>3. CASE Allocate
    <2>1. ~blk.given /\ ~blk.seen /\ notes = {} /\ blk \in Block
        BY <1>0, <1>3 DEF Allocate, IInv, Sound, NotesPlaced, Typed, TypeOK
    <2>2. ~blk'.seen /\ blk'.given
        BY <1>3, <2>1, HandNotesTyped DEF Allocate, IInv, Typed, TypeOK
    <2>3. MarkedFresh' /\ SeenArmed' /\ StaleBetrayed'
        BY <1>0, <1>3, <2>2 DEF Allocate, MarkedFresh, SeenArmed, StaleBetrayed, IInv, Sound
    <2>4. TrailHolds' /\ AnchorHolds' /\ RecordHolds'
        BY <1>3 DEF Allocate, TrailHolds, AnchorHolds, RecordHolds
    <2>5. NotesHold' /\ NotesPlaced'
        BY <1>3, <2>1, <2>2 DEF Allocate, NotesHold, NotesPlaced, NotesInBuffer, Closed,
           AcceptsAt, n, IInv, Sound
    <2> QED BY <2>3, <2>4, <2>5 DEF Sound
<1>4. CASE AllocationFails
    <2>1. MarkedFresh' /\ ~blk.seen
        BY <1>0, <1>4 DEF MarkedFresh, AllocationFails
    <2> QED BY <1>4, <2>1, Calm DEF AllocationFails
<1>5. CASE NothingToAllocate
    <2>1. MarkedFresh'
        BY <1>0, <1>5 DEF MarkedFresh, NothingToAllocate
    <2>2. ~fresh /\ blk'.seen => Betrayed'
        BY <1>5, StaleInside DEF NothingToAllocate, Betrayed, n
    <2> QED BY <1>5, <2>1, <2>2, Calm DEF NothingToAllocate
<1> QED BY <1>1, <1>2, <1>3, <1>4, <1>5 DEF Host

\* The handful of typing facts the steps below need.
LEMMA InvFacts ==
    ASSUME IInv
    PROVE  /\ Typed /\ Sound /\ w \in Locals /\ blk \in Block /\ n \in Nat
           /\ (pc \in {"host", "entry", "after"} => ~w.marked)
           /\ (pc = "check" => w.marked /\ blk.armed)
           /\ (w.marked => blk.given /\ blk.cap >= n + 1)
           /\ notes \subseteq Points
BY Facts DEF IInv, Typed, Placed, TypeOK

\* Below the high-water mark and inside the buffer is all there is.
LEMMA ClearedEmpty == IInv => Cleared = {}
<1> SUFFICES ASSUME IInv PROVE Cleared = {}
    OBVIOUS
<1>1. NotesInBuffer /\ notes \subseteq Points /\ blk \in Block
    BY InvFacts DEF Sound, NotesPlaced
<1>2. ASSUME NEW pt \in notes PROVE ~(pt[2] >= Smaller(blk.high, blk.cap))
    <2>1. pt[2] \in Nat /\ blk.high \in Nat /\ blk.cap \in Nat
        BY <1>1 DEF Points, Block
    <2> QED BY <1>1, <2>1 DEF NotesInBuffer, Smaller
<1> QED BY <1>2 DEF Cleared

\* The text check passes only over this text's notes.
LEMMA SameFresh == IInv /\ CheckSame => fresh
<1> SUFFICES ASSUME IInv, CheckSame, ~fresh PROVE FALSE
    OBVIOUS
<1>1. blk.cap >= n + 1 /\ n \in Nat /\ blk \in Block
    BY InvFacts DEF CheckSame
<1>2. ~(blk.cap < n + 1)
    BY <1>1 DEF Block
<1> QED BY <1>2, InvFacts DEF CheckSame, SameText, Sound, StaleBetrayed, Betrayed

\* Entering a call.
LEMMA SoundEntry ==
    IInv /\ (EnterMarked \/ EnterOrdinary \/ CheckFirst \/ CheckSame \/ CheckOther)
    => Sound'
<1> SUFFICES ASSUME IInv,
                    EnterMarked \/ EnterOrdinary \/ CheckFirst \/ CheckSame \/ CheckOther
             PROVE  Sound'
    OBVIOUS
<1>0. /\ blk.seen => blk.armed /\ blk.given
      /\ ~fresh /\ blk.seen => Betrayed
      /\ blk \in Block /\ n \in Nat /\ w \in Locals
    BY InvFacts DEF Sound, SeenArmed, StaleBetrayed
<1>1. CASE EnterMarked
    <2>1. MarkedFresh' /\ w'.start = w.start
        BY <1>0, <1>1 DEF EnterMarked, MarkedFresh, Locals
    <2>2. ~fresh /\ blk'.seen => Betrayed'
        BY <1>0, <1>1, <2>1 DEF EnterMarked, Betrayed, n
    <2> QED BY <1>1, <2>1, <2>2, Calm DEF EnterMarked
<1>2. CASE EnterOrdinary
    <2>1. MarkedFresh'
        BY <1>2, InvFacts DEF EnterOrdinary, MarkedFresh
    <2>2. blk.seen => blk.cap < n + 1
        BY <1>0, <1>2 DEF EnterOrdinary, Block
    <2>3. ~fresh /\ blk'.seen => Betrayed'
        BY <1>2, <2>2 DEF EnterOrdinary, Betrayed, n
    <2> QED BY <1>2, <2>1, <2>3, Calm DEF EnterOrdinary
<1>3. CASE CheckFirst
    <2>1. notes' = {} /\ Closed(proved')
        <3>1. CASE blk.high # 0
            BY <1>3, <3>1, ClearedEmpty DEF CheckFirst, Closed
        <3>2. CASE blk.high = 0
            <4>1. notes' = notes /\ proved' = proved /\ NotesInBuffer
                BY <1>3, <3>2, InvFacts DEF CheckFirst, Sound, NotesPlaced
            <4>2. ASSUME NEW pt \in notes PROVE FALSE
                BY <3>2, <4>1, <4>2, InvFacts DEF NotesInBuffer, Points
            <4>3. Closed(proved)
                BY InvFacts DEF Sound, NotesHold, StaleBetrayed, Closed
            <4> QED BY <4>1, <4>2, <4>3
        <3> QED BY <3>1, <3>2
    <2>2. fresh' /\ pc' = "outer" /\ UNCHANGED <<dfa, text>>
        BY <1>3 DEF CheckFirst
    <2>3. NotesHold'
        BY <2>1, <2>2 DEF NotesHold, Closed, AcceptsAt, n
    <2>4. blk'.armed = blk.armed /\ blk'.given = blk.given
        BY <1>0, <1>3 DEF CheckFirst, Block
    <2>5. SeenArmed'
        BY <1>3, <2>4, InvFacts DEF CheckFirst, SeenArmed
    <2> QED BY <2>1, <2>2, <2>3, <2>5 DEF Sound, TrailHolds, AnchorHolds, RecordHolds,
            MarkedFresh, StaleBetrayed, NotesPlaced, NotesInBuffer
<1>4. CASE CheckSame
    BY <1>0, <1>4, SameFresh, Calm DEF CheckSame, MarkedFresh
<1>5. CASE CheckOther
    <2>1. notes' = {} /\ proved' = {} /\ fresh' /\ pc' = "entry"
        BY <1>5, ClearedEmpty DEF CheckOther
    <2>2. ~blk'.seen
        BY <1>0, <1>5 DEF CheckOther, Block
    <2> QED BY <2>1, <2>2 DEF Sound, TrailHolds, AnchorHolds, RecordHolds, MarkedFresh,
            SeenArmed, StaleBetrayed, NotesHold, Closed, NotesPlaced, NotesInBuffer
<1> QED BY <1>1, <1>2, <1>3, <1>4, <1>5
-----------------------------------------------------------------------------
(* The find body. *)

\* Inside a body the block's account of another text does not change.
LEMMA InBody ==
    ASSUME IInv, pc \notin {"host", "entry", "check"},
           UNCHANGED <<dfa, text, notes, proved, fresh>>,
           blk' = blk \/ Charged(blk'),
           pc' \notin {"scan", "record"},
           pc' \notin {"host", "entry", "check", "after"} => w'.marked = w.marked,
           pc' \in {"host", "entry", "check", "after"} => ~w'.marked
    PROVE  Sound'
<1>1. MarkedFresh'
    BY DEF MarkedFresh, IInv, Sound
<1>2. /\ blk'.high = blk.high /\ blk'.cap = blk.cap /\ blk'.given = blk.given
      /\ blk'.ptr = blk.ptr /\ blk'.len = blk.len
      /\ (blk.armed => blk'.armed) /\ (blk'.seen => blk.seen)
    BY DEF Charged
<1>3. ~fresh /\ blk'.seen => Betrayed'
    BY <1>2, StaleInside DEF Betrayed, n
<1> QED BY <1>1, <1>2, <1>3, Calm

\* The scan for a start.
LEMMA SoundStart == IInv /\ (Attempt \/ NoMoreStarts) => Sound'
<1> SUFFICES ASSUME IInv, Attempt \/ NoMoreStarts PROVE Sound'
    OBVIOUS
<1>1. CASE Attempt
    <2>1. PICK s \in w.start..n :
            LET q == Begins(dfa, text, s)
            IN  /\ w' = [w EXCEPT !.start = s, !.pos = s, !.st = q,
                                  !.last = IF Accepting(q, s) THEN s ELSE NoMatch,
                                  !.lAcc = q, !.lStart = s]
                /\ pc' = IF q \in dfa.imm THEN "found" ELSE "scan"
        BY <1>1 DEF Attempt
    <2> DEFINE q == Begins(dfa, text, s)
               last == IF Accepting(q, s) THEN s ELSE NoMatch
    <2>2. /\ w' = [w EXCEPT !.start = s, !.pos = s, !.st = q, !.last = last,
                            !.lAcc = q, !.lStart = s]
          /\ pc' \in {"found", "scan"}
          /\ last \in {s, NoMatch} /\ s \in Nat
        BY <2>1, InvFacts DEF Locals
    <2> HIDE DEF q, last
    <2>3. /\ w'.marked = w.marked /\ w'.st = q /\ w'.pos = s /\ w'.lAcc = q
          /\ w'.lStart = s /\ w'.last = last
        BY <2>2, InvFacts DEF Locals
    <2>4. CASE pc' = "found"
        BY <1>1, <2>3, <2>4, InBody DEF Attempt
    <2>5. CASE pc' = "scan"
        <3>1. Anchor' = Point' /\ trail' = {}
            <4>1. trail' = {}
                BY <1>1 DEF Attempt
            <4>2. (IF last >= 0 THEN last ELSE s) = s
                BY <2>2 DEF NoMatch
            <4> QED BY <2>3, <4>1, <4>2 DEF Anchor, TailOf, Point
        <3>2. TrailHolds' /\ AnchorHolds' /\ RecordHolds'
            BY <2>5, <3>1 DEF TrailHolds, AnchorHolds, RecordHolds, Walked
        <3>3. ~fresh /\ blk'.seen => Betrayed'
            BY <1>1, StaleInside DEF Attempt, Betrayed, n
        <3>4. MarkedFresh'
            BY <1>1, <2>3 DEF Attempt, MarkedFresh, IInv, Sound
        <3> QED BY <1>1, <3>2, <3>3, <3>4, Still DEF Attempt, Sound
    <2> QED BY <2>2, <2>4, <2>5
<1>2. CASE NoMoreStarts
    BY <1>2, InBody DEF NoMoreStarts
<1> QED BY <1>1, <1>2

\* The point a walk stands on either accepts, or carries the trail on.
LEMMA PointFacts ==
    ASSUME IInv, pc = "scan"
    PROVE  /\ AcceptsHere <=> AcceptsAt(w.st, w.pos)
           /\ w.st \in dfa.acc => Anchor = Point
           /\ ~AcceptsHere => Passed = Walked
           /\ AcceptsHere => Passed = {}
           /\ w.pos \in Nat /\ w.pos <= n
           /\ w.pos < n => Successor(Point) = <<NextState, w.pos + 1>>
           /\ PreAccept => dfa.bound
<1>1. w.pos \in Nat /\ w.pos <= n /\ w.st \in All
    BY InvFacts DEF Locals, Typed, Placed
<1>2. dfa.bound \/ dfa.pre[w.st] = {}
    BY <1>1, Facts, AutomatonTyped DEF IInv, Typed
<1> QED
    BY <1>1, <1>2 DEF AcceptsHere, AcceptsAt, PreAccept, Passed, Walked, Successor, Point,
       NextState, IInv, Sound, AnchorHolds

\* A step that reads on.
LEMMA SoundMoves == IInv /\ Moves => Sound'
<1> SUFFICES ASSUME IInv, Moves PROVE Sound'
    OBVIOUS
<1> DEFINE v == [Here EXCEPT !.st = NextState]
<1>1. /\ pc = "scan" /\ w.pos < n /\ w.pos \in Nat /\ Here \in Locals
      /\ NextState \in All /\ Here.marked = w.marked /\ Here.pos = w.pos
    BY StepTyped, InvFacts DEF Moves, Locals
<1>2. /\ v \in Locals /\ v.marked = w.marked /\ v.pos = w.pos /\ v.st = NextState
      /\ v.last = Here.last /\ v.lAcc = Here.lAcc /\ v.lStart = Here.lStart
    BY <1>1 DEF Locals
<1>3. \/ /\ NextState \notin dfa.acc
         /\ w' = [v EXCEPT !.pos = @ + 1] /\ pc' = "scan" /\ trail' = Passed
      \/ /\ w' = [v EXCEPT !.pos = @ + 1, !.last = w.pos + 1, !.lAcc = NextState]
         /\ pc' = "scan" /\ trail' = {}
      \/ /\ w' = [v EXCEPT !.last = w.pos + 1, !.lAcc = NextState]
         /\ pc' = "found" /\ trail' = {}
    BY DEF Moves
<1> HIDE DEF v
<1>4. w'.marked = w.marked
    BY <1>2, <1>3 DEF Locals
<1>5. UNCHANGED <<dfa, text, blk, notes, proved, fresh>>
    BY DEF Moves
<1>6. CASE pc' = "found"
    BY <1>1, <1>4, <1>5, <1>6, InBody
<1>7. CASE pc' = "scan"
    <2>1. MarkedFresh'
        BY <1>1, <1>4, <1>5 DEF MarkedFresh, IInv, Sound
    <2>2. ~fresh /\ blk'.seen => Betrayed'
        BY <1>1, <1>5, StaleInside DEF Betrayed, n
    <2>3. TrailHolds' /\ AnchorHolds'
        <3>1. CASE /\ NextState \notin dfa.acc
                   /\ w' = [v EXCEPT !.pos = @ + 1] /\ trail' = Passed
            <4>1. /\ w'.st = NextState /\ w'.pos = w.pos + 1 /\ w'.last = Here.last
                  /\ w'.lAcc = Here.lAcc /\ w'.lStart = w.lStart
                BY <1>1, <1>2, <3>1, StepTyped DEF Locals, IInv
            <4>2. Point' = <<NextState, w.pos + 1>> /\ Point' = Successor(Point)
                BY <1>1, <4>1, PointFacts DEF Point
            <4>3. TrailHolds'
                BY <1>1, <1>5, <3>1, <4>2, PointFacts
                   DEF TrailHolds, IInv, Sound, Walked, Leads, Successor, AcceptsAt, n, Point
            <4>4. AnchorHolds'
                <5>1. CASE PreAccept
                    <6>1. Anchor' = Point /\ w'.last = w.pos
                        BY <1>1, <4>1, <5>1, StepTyped DEF Anchor, TailOf, Point, IInv
                    <6> QED BY <1>1, <1>5, <3>1, <4>1, <4>2, <5>1, <6>1, PointFacts
                            DEF AnchorHolds, Skipped, Leads, Successor, Walked, Point, n
                <5>2. CASE ~PreAccept
                    <6>1. Anchor' = Anchor /\ w'.last = w.last
                        BY <1>1, <4>1, <5>2, StepTyped DEF Anchor, TailOf, IInv
                    <6>2. CASE w.st \in dfa.acc
                        BY <1>1, <1>5, <3>1, <4>1, <4>2, <6>1, <6>2, PointFacts
                           DEF AnchorHolds, Skipped, Leads, Successor, Walked, Point, n
                    <6>3. CASE w.st \notin dfa.acc
                        <7>1. trail' = Walked
                            BY <1>1, <3>1, <5>2, <6>3, PointFacts DEF AcceptsHere
                        <7> QED BY <1>1, <1>5, <3>1, <4>1, <6>1, <7>1
                                DEF AnchorHolds, IInv, Sound, Skipped, Leads, Successor, Walked, n
                    <6> QED BY <6>2, <6>3
                <5> QED BY <5>1, <5>2
            <4> QED BY <4>3, <4>4
        <3>2. CASE /\ w' = [v EXCEPT !.pos = @ + 1, !.last = w.pos + 1, !.lAcc = NextState]
                   /\ trail' = {}
            <4>1. /\ w'.st = NextState /\ w'.pos = w.pos + 1 /\ w'.last = w.pos + 1
                  /\ w'.lAcc = NextState
                BY <1>1, <1>2, <3>2 DEF Locals
            <4>2. Anchor' = Point'
                BY <1>1, <4>1 DEF Anchor, TailOf, Point
            <4> QED BY <3>2, <4>2 DEF TrailHolds, AnchorHolds, Walked
        <3> QED BY <1>3, <1>7, <3>1, <3>2
    <2> QED BY <1>5, <1>7, <2>1, <2>2, <2>3, Still DEF Sound, RecordHolds
<1> QED BY <1>3, <1>6, <1>7

\* What a walk passed joins the recorded points, if it ends where they go on.
LEMMA ClosedPassed ==
    ASSUME IInv, pc = "scan", fresh,
           w.pos < n => Leads(Point, proved)
    PROVE  Closed(proved \union Passed)
<1>1. Closed(proved)
    BY DEF IInv, Sound, NotesHold
<1>2. CASE AcceptsHere
    BY <1>1, <1>2, PointFacts
<1>3. CASE ~AcceptsHere
    <2>1. Passed = trail \union {Point} /\ ~AcceptsAt(w.st, w.pos)
        BY <1>3, PointFacts DEF Walked
    <2>2. \A pt \in trail : ~AcceptsAt(pt[1], pt[2]) /\ pt[2] < n /\ Leads(pt, Walked)
        BY DEF IInv, Sound, TrailHolds
    <2> QED BY <1>1, <2>1, <2>2 DEF Closed, Leads, Successor, Walked, Point
<1> QED BY <1>2, <1>3

\* Where the tail of the ended walk v begins, P being what is then recorded.
Begun(v, end, P) ==
    \/ TailOf(v)[2] > end
    \/ TailOf(v) \in P
    \/ /\ v.lAcc \in dfa.acc \/ (dfa.bound /\ TailOf(v)[2] = v.last)
       /\ Leads(TailOf(v), P)

\* A tail that ends before the text does begins on a recorded point, or on the
\* accept before one.
LEMMA TailBegins ==
    ASSUME IInv, pc = "scan", w.pos < n,
           NEW P, Passed \subseteq P, Leads(Point, P), NEW end
    PROVE  Begun(Here, end, P)
<1>1. w.pos \in Nat /\ Here \in Locals /\ Here.lStart = w.lStart
    BY InvFacts, StepTyped, PointFacts DEF IInv
<1>2. CASE PreAccept
    <2>1. Here.last = w.pos /\ Here.lAcc = w.st
        BY <1>2, InvFacts, StepTyped
    <2>2. TailOf(Here) = Point /\ Point[2] = w.pos
        BY <1>1, <2>1 DEF TailOf, Point
    <2> QED BY <1>2, <2>1, <2>2, PointFacts DEF Begun
<1>3. CASE ~PreAccept
    <2>1. Here = w
        BY <1>3, InvFacts, StepTyped
    <2>2. CASE w.st \in dfa.acc
        <3>1. TailOf(w) = Point /\ w.lAcc = w.st
            BY <2>2, PointFacts DEF Anchor, TailOf, Point
        <3> QED BY <2>1, <2>2, <3>1 DEF Begun
    <2>3. CASE w.st \notin dfa.acc
        <3>1. Walked \subseteq P
            BY <1>1, <1>3, <2>3, PointFacts DEF AcceptsHere
        <3>2. Anchor \in Walked \/ (Skipped(Anchor) /\ Leads(Anchor, Walked))
            BY DEF IInv, Sound, AnchorHolds
        <3>3. Anchor = TailOf(w) /\ TailOf(w)[1] = w.lAcc
            BY DEF Anchor, TailOf
        <3> QED BY <2>1, <3>1, <3>2, <3>3 DEF Skipped, Leads, Begun
    <2> QED BY <2>2, <2>3
<1> QED BY <1>2, <1>3

\* A walk that ends and is not recorded.
LEMMA SoundUnrecorded ==
    ASSUME IInv, pc = "scan", UNCHANGED <<dfa, text, notes, fresh, blk, proved>>,
           NEW v \in Locals, v.marked = w.marked, NEW why,
           w' = [v EXCEPT !.why = why], pc' = "settle"
    PROVE  Sound'
<1>1. w'.marked = w.marked
    BY DEF Locals
<1> QED BY <1>1, InBody

\* A walk that ends and is.
LEMMA SoundRecorded ==
    ASSUME IInv, pc = "scan", UNCHANGED <<dfa, text, notes, fresh>>,
           fresh, NEW v \in Locals,
           NEW end \in Int, end < n, NEW why \in {"dead", "eof", "stop"},
           StartRecord(v, end, why),
           Closed(proved \union Passed), Begun(v, end, proved \union Passed)
    PROVE  Sound'
<1> DEFINE start == IF v.last >= 0 THEN v.last ELSE v.lStart
           high == Larger(blk.high, end + 1)
<1>1. /\ fresh /\ blk \in Block /\ n \in Nat /\ w \in Locals
      /\ start \in Nat /\ high \in Nat /\ blk.high <= high
    BY InvFacts DEF Sound, MarkedFresh, Locals, Block, Larger, NoMatch
<1>2. /\ w' = [v EXCEPT !.lEnd = end, !.rs = v.lAcc, !.why = why, !.rp = start]
      /\ blk' = [blk EXCEPT !.high = high]
      /\ proved' = proved \union Passed /\ pc' = "record"
    BY DEF StartRecord
<1>3. \/ start > end \/ <<v.lAcc, start>> \in proved'
      \/ /\ v.lAcc \in dfa.acc \/ (dfa.bound /\ start = v.last)
         /\ Leads(<<v.lAcc, start>>, proved')
    BY <1>2 DEF Begun, TailOf
<1> HIDE DEF start, high
<1>4. /\ w'.lEnd = end /\ w'.rs = v.lAcc /\ w'.rp = start /\ w'.last = v.last
      /\ blk'.high = high /\ blk'.cap = blk.cap /\ blk'.given = blk.given
      /\ blk'.armed = blk.armed /\ blk'.seen = blk.seen
    BY <1>1, <1>2 DEF Locals, Block
<1>5. TrailHolds' /\ AnchorHolds' /\ MarkedFresh' /\ SeenArmed' /\ StaleBetrayed'
    BY <1>1, <1>2, <1>4, InvFacts
       DEF TrailHolds, AnchorHolds, MarkedFresh, SeenArmed, StaleBetrayed, Sound
<1>6. RecordHolds'
    BY <1>2, <1>3, <1>4 DEF RecordHolds, RecordPoint, Skipped, Leads, Successor
<1>7. NotesHold'
    BY <1>1, <1>2, InvFacts DEF Sound, NotesHold, Closed, AcceptsAt, n
<1>8. NotesPlaced'
    <2>1. \A pt \in notes : pt[2] \in Nat /\ blk.high \in Nat
        BY <1>1, InvFacts DEF Points, Block
    <2> QED BY <1>1, <1>4, <2>1, InvFacts DEF Sound, NotesPlaced, NotesInBuffer
<1> QED BY <1>5, <1>6, <1>7, <1>8 DEF Sound

\* The four ways a walk ends.
LEMMA SoundEnds == IInv /\ (AtEnd \/ DominantAccept \/ Dies \/ Stops) => Sound'
<1> SUFFICES ASSUME IInv, AtEnd \/ DominantAccept \/ Dies \/ Stops PROVE Sound'
    OBVIOUS
<1>0. /\ pc = "scan" /\ w.pos \in Nat /\ w.pos <= n /\ n \in Nat /\ w \in Locals
      /\ w.marked => fresh
    BY InvFacts, PointFacts DEF AtEnd, DominantAccept, Dies, Stops, Sound, MarkedFresh
<1>1. CASE AtEnd
    <2> DEFINE v == IF w.st \in dfa.eof THEN [w EXCEPT !.last = w.pos] ELSE w
    <2>1. /\ v \in Locals /\ v.marked = w.marked /\ w.pos = n
          /\ w.st \in dfa.eof => v.last = n
          /\ w.st \notin dfa.eof => v = w
        BY <1>0, <1>1 DEF Locals, AtEnd
    <2>2. \/ v.marked /\ StartRecord(v, w.pos - 1, "eof")
          \/ w' = [v EXCEPT !.why = "eof"] /\ pc' = "settle" /\ UNCHANGED <<blk, proved>>
        BY <1>1 DEF AtEnd, EndWalk
    <2>3. UNCHANGED <<dfa, text, notes, fresh>>
        BY <1>1 DEF AtEnd, EndWalk
    <2> HIDE DEF v
    <2>4. CASE v.marked /\ StartRecord(v, w.pos - 1, "eof")
        <3>0. w.pos - 1 \in Int /\ w.pos - 1 < n /\ "eof" \in {"dead", "eof", "stop"} /\ fresh
            BY <1>0, <2>1, <2>4
        <3>1. Closed(proved \union Passed)
            BY <1>0, <2>1, <2>4, ClosedPassed
        <3>2. CASE w.st \in dfa.eof
            <4>1. TailOf(v)[2] = n
                BY <1>0, <2>1, <3>2 DEF TailOf
            <4>2. Begun(v, w.pos - 1, proved \union Passed)
                BY <1>0, <2>1, <4>1 DEF Begun
            <4> QED BY <1>0, <2>1, <2>3, <2>4, <3>0, <3>1, <4>2, SoundRecorded
        <3>3. CASE w.st \notin dfa.eof
            <4>1. w.st \notin dfa.acc
                BY <3>3, Facts, AutomatonTyped, InvFacts DEF Typed
            <4>2. Passed = Walked
                BY <1>0, <2>1, <3>3, <4>1, PointFacts DEF AcceptsHere
            <4>3. Anchor \in Walked \/ (Skipped(Anchor) /\ Leads(Anchor, Walked))
                BY <1>0, InvFacts DEF Sound, AnchorHolds
            <4>4. Begun(v, w.pos - 1, proved \union Passed)
                BY <2>1, <3>3, <4>2, <4>3 DEF Leads, Begun, Anchor, Skipped, TailOf
            <4> QED BY <1>0, <2>1, <2>3, <2>4, <3>0, <3>1, <4>4, SoundRecorded
        <3> QED BY <3>2, <3>3
    <2> QED BY <1>0, <2>1, <2>2, <2>3, <2>4, SoundUnrecorded
<1>2. CASE DominantAccept
    <2>1. Here.marked = w.marked
        BY <1>2, InvFacts, StepTyped DEF DominantAccept
    <2> QED BY <1>0, <1>2, <2>1, InBody DEF DominantAccept
<1>3. CASE Dies
    <2>1. Here \in Locals /\ Here.marked = w.marked
        BY <1>3, InvFacts, StepTyped DEF Dies
    <2>2. \/ Here.marked /\ StartRecord(Here, w.pos, "dead")
          \/ w' = [Here EXCEPT !.why = "dead"] /\ pc' = "settle" /\ UNCHANGED <<blk, proved>>
        BY <1>3 DEF Dies, EndWalk
    <2>3. UNCHANGED <<dfa, text, notes, fresh>> /\ w.pos < n /\ NextState = Dead
        BY <1>3 DEF Dies, EndWalk
    <2>4. CASE Here.marked /\ StartRecord(Here, w.pos, "dead")
        <3>1. \A P : Leads(Point, P)
            BY <1>0, <2>3, PointFacts DEF Leads
        <3>2. Closed(proved \union Passed)
            BY <1>0, <2>1, <2>4, <3>1, ClosedPassed
        <3>3. Passed \subseteq proved \union Passed
            OBVIOUS
        <3> QED BY <1>0, <2>1, <2>3, <2>4, <3>1, <3>2, <3>3, TailBegins, SoundRecorded
    <2> QED BY <1>0, <2>1, <2>2, <2>3, <2>4, SoundUnrecorded
<1>4. CASE Stops
    <2>1. Here \in Locals /\ Here.marked = w.marked
        BY <1>4, InvFacts, StepTyped DEF Stops
    <2>2. \/ Here.marked /\ StartRecord(Here, w.pos, "stop")
          \/ w' = [Here EXCEPT !.why = "stop"] /\ pc' = "settle" /\ UNCHANGED <<blk, proved>>
        BY <1>4 DEF Stops, EndWalk
    <2>3. /\ UNCHANGED <<dfa, text, notes, fresh>> /\ w.pos < n
          /\ w.marked /\ <<NextState, w.pos + 1>> \in notes
        BY <1>4 DEF Stops, EndWalk, Noted
    <2>4. CASE Here.marked /\ StartRecord(Here, w.pos, "stop")
        <3>1. <<NextState, w.pos + 1>> \in proved
            BY <1>0, <2>3, InvFacts DEF Sound, NotesHold
        <3>2. Leads(Point, proved) /\ Leads(Point, proved \union Passed)
            BY <1>0, <2>3, <3>1, PointFacts DEF Leads
        <3>3. Closed(proved \union Passed)
            BY <1>0, <2>3, <3>2, ClosedPassed
        <3>4. Passed \subseteq proved \union Passed
            OBVIOUS
        <3> QED BY <1>0, <2>1, <2>3, <2>4, <3>2, <3>3, <3>4, TailBegins, SoundRecorded
    <2> QED BY <1>0, <2>1, <2>2, <2>3, <2>4, SoundUnrecorded
<1> QED BY <1>1, <1>2, <1>3, <1>4

\* A step of the re-walk notes a recorded point, and goes on to the next.
LEMMA SoundRecordStep == IInv /\ RecordStep => Sound'
<1> SUFFICES ASSUME IInv, RecordStep PROVE Sound'
    OBVIOUS
<1>1. /\ pc = "record" /\ w.marked /\ fresh /\ n \in Nat /\ w \in Locals /\ blk \in Block
      /\ blk.given /\ blk.cap >= n + 1 /\ w.lEnd < n /\ w.lEnd < blk.high
    BY InvFacts DEF RecordStep, Sound, MarkedFresh, Typed, Placed
<1>2. /\ w.rp \in Nat /\ w.rp <= w.lEnd /\ w.rp < n /\ w.lEnd \in Int
      /\ w.rp # w.lEnd => w.rp < w.lEnd
    BY <1>1, InvFacts, RecordTyped DEF Locals
<1>3. UNCHANGED <<dfa, text, host, blk, proved, fresh>>
    BY DEF RecordStep
<1>4. notes \subseteq proved /\ Closed(proved)
    BY <1>1, InvFacts DEF Sound, NotesHold
<1>5. \/ RecordPoint \in proved \/ w.rs = Dead
      \/ Skipped(RecordPoint) /\ Leads(RecordPoint, proved)
    BY <1>1, <1>2, InvFacts DEF Sound, RecordHolds
<1>6. HasRow => RecordPoint \in proved
    <2> SUFFICES ASSUME HasRow PROVE RecordPoint \in proved
        OBVIOUS
    <2>1. w.rs # Dead /\ w.rs \notin dfa.acc /\ ~(dfa.bound /\ w.rp = w.last)
        BY Facts, RowsLive DEF HasRow, IInv, Typed, TypeOK
    <2> QED BY <1>5, <2>1 DEF Skipped, RecordPoint
<1>7. notes' \subseteq notes \union {RecordPoint} /\ notes' \subseteq proved
    BY <1>4, <1>6 DEF RecordStep
<1>8. NotesHold'
    BY <1>3, <1>4, <1>7 DEF NotesHold, Closed, AcceptsAt, n
<1>9. NotesPlaced'
    <2>1. w.rp < blk.high /\ w.rp < blk.cap
        BY <1>1, <1>2 DEF Block
    <2> QED BY <1>1, <1>3, <1>7, <2>1, InvFacts
            DEF Sound, NotesPlaced, NotesInBuffer, RecordPoint
<1>10. RecordHolds'
    <2>1. CASE w.rp = w.lEnd
        BY <2>1 DEF RecordStep, RecordHolds
    <2>2. CASE w.rp # w.lEnd
        <3> DEFINE r == dfa.delta[w.rs][ByteAt(text, w.rp)]
        <3>1. w' = [w EXCEPT !.rs = r, !.rp = w.rp + 1]
            BY <2>2 DEF RecordStep
        <3>2. RecordPoint' = Successor(RecordPoint) /\ w'.rs = r
            BY <1>1, <3>1 DEF RecordPoint, Successor, Locals
        <3>3. r = Dead \/ Successor(RecordPoint) \in proved
            <4>1. CASE w.rs = Dead
                BY <1>2, <4>1, Facts, AutomatonTyped DEF IInv, Typed
            <4>2. CASE RecordPoint \in proved
                BY <1>2, <1>4, <4>2 DEF Closed, RecordPoint, Successor
            <4>3. CASE Leads(RecordPoint, proved)
                BY <4>3 DEF Leads, RecordPoint, Successor
            <4> QED BY <1>5, <4>1, <4>2, <4>3
        <3> QED BY <1>3, <3>2, <3>3 DEF RecordHolds
    <2> QED BY <2>1, <2>2
<1>11. TrailHolds' /\ AnchorHolds' /\ pc' \in {"record", "settle"}
    BY <1>1 DEF RecordStep, TrailHolds, AnchorHolds
<1>12. MarkedFresh' /\ SeenArmed' /\ StaleBetrayed'
    BY <1>1, <1>3, InvFacts DEF Sound, MarkedFresh, SeenArmed, StaleBetrayed
<1> QED BY <1>8, <1>9, <1>10, <1>11, <1>12 DEF Sound

\* What follows a walk, and the return.
LEMMA SoundRest ==
    IInv /\ (RecordStops \/ SettleFound \/ SettleFailed \/ Found \/ None) => Sound'
<1> SUFFICES ASSUME IInv, RecordStops \/ SettleFound \/ SettleFailed \/ Found \/ None
             PROVE  Sound'
    OBVIOUS
<1>0. TypeOK /\ w \in Locals /\ blk \in Block
    BY InvFacts DEF Typed
<1>1. CASE RecordStops
    BY <1>1, InBody DEF RecordStops
<1>2. CASE SettleFound
    BY <1>2, InBody DEF SettleFound
<1>3. CASE SettleFailed
    <2>1. blk' = blk \/ Charged(blk')
        BY <1>0, <1>3, ChargeFailTyped DEF SettleFailed
    <2>2. w' = w \/ w' = [w EXCEPT !.start = w.pos + 1] \/ w' = [w EXCEPT !.start = @ + 1]
        BY <1>3 DEF SettleFailed
    <2>3. w'.marked = w.marked
        BY <1>0, <2>2 DEF Locals
    <2>4. pc' \in {"none", "outer"}
        BY <1>3, Zenon DEF SettleFailed
    <2> QED BY <1>3, <2>1, <2>3, <2>4, InBody DEF SettleFailed
<1>4. CASE Found
    <2>1. ~w'.marked /\ pc = "found" /\ pc' = "after"
        BY <1>4 DEF Found, NoLocals
    <2>2. UNCHANGED <<dfa, text, notes, proved, fresh>>
        BY <1>4 DEF Found
    <2>3. CASE w.marked
        <3>1. fresh /\ blk' = [blk EXCEPT !.resume = StoredResume]
            BY <1>4, <2>1, <2>3, InvFacts DEF Found, Sound, MarkedFresh
        <3>2. /\ blk'.high = blk.high /\ blk'.cap = blk.cap /\ blk'.given = blk.given
              /\ blk'.armed = blk.armed /\ blk'.seen = blk.seen
            BY <1>0, <3>1 DEF Block
        <3>3. MarkedFresh'
            BY <2>1 DEF MarkedFresh
        <3> QED BY <2>1, <2>2, <3>1, <3>2, <3>3, Calm
    <2>4. CASE ~w.marked
        BY <1>0, <1>4, <2>1, <2>2, <2>4, ChargeReturnTyped, InBody DEF Found
    <2> QED BY <2>3, <2>4
<1>5. CASE None
    <2>1. ~w'.marked
        BY <1>5 DEF None, NoLocals
    <2>2. MarkedFresh'
        BY <2>1 DEF MarkedFresh
    <2>3. ~fresh /\ blk'.seen => Betrayed'
        BY <1>5, StaleInside DEF None, Betrayed, n
    <2> QED BY <1>5, <2>2, <2>3, Calm DEF None
<1> QED BY <1>1, <1>2, <1>3, <1>4, <1>5

\* A new search over an old block.
LEMMA SoundReuse == IInv /\ ReuseBlock => Sound'
<1> SUFFICES ASSUME IInv, ReuseBlock PROVE Sound'
    OBVIOUS
<1>1. /\ ~w.marked /\ blk \in Block /\ (blk.seen => blk.armed /\ blk.given)
      /\ NotesInBuffer /\ (~blk.given => notes = {})
    BY InvFacts DEF ReuseBlock, Sound, SeenArmed, NotesPlaced
<1>2. /\ text' \in Texts /\ ~Undetectable(text', blk)
      /\ UNCHANGED <<blk, notes>> \/ (blk' = HandNotes(blk, text') /\ notes' = {})
    BY DEF ReuseBlock
<1>3. /\ host'.from = 0 /\ pc' = "host" /\ proved' = {} /\ ~fresh'
      /\ w' = w /\ dfa' = dfa
    BY DEF ReuseBlock, NewHost
<1>4. /\ blk'.ptr = blk.ptr /\ blk'.len = blk.len /\ blk'.resume = blk.resume
      /\ (blk'.seen => blk.seen) /\ (blk.armed => blk'.armed) /\ (blk.given => blk'.given)
    BY <1>1, <1>2, HandNotesTyped
<1>5. Betrayed'
    BY <1>2, <1>3, <1>4 DEF Undetectable, Betrayed, n
<1>6. NotesPlaced'
    BY <1>1, <1>2, <1>4, HandNotesTyped DEF NotesPlaced, NotesInBuffer
<1> QED BY <1>1, <1>3, <1>4, <1>5, <1>6 DEF Sound, TrailHolds, AnchorHolds, RecordHolds,
        MarkedFresh, SeenArmed, StaleBetrayed, NotesHold
-----------------------------------------------------------------------------
(* The theorems. *)

\* Every step keeps the invariant.
LEMMA SoundNext == IInv /\ [Next]_vars => IInv'
<1> SUFFICES ASSUME IInv, [Next]_vars PROVE Sound'
    BY TypedNext DEF IInv
<1>1. CASE UNCHANGED vars
    BY <1>1 DEF vars, IInv, Sound, TrailHolds, AnchorHolds, RecordHolds, MarkedFresh,
       SeenArmed, StaleBetrayed, Betrayed, NotesHold, NotesPlaced, NotesInBuffer, Closed,
       AcceptsAt, Leads, Successor, Walked, Anchor, TailOf, Skipped, Point, RecordPoint, n
<1> QED
    BY <1>1, SoundHost, SoundEntry, SoundStart, SoundMoves, SoundEnds, SoundRecordStep,
       SoundRest, SoundReuse
    DEF Next, Call

\* So it holds throughout.
LEMMA Invariant == Spec => []IInv
BY SoundInit, SoundNext, PTL DEF Spec

\* Notes are sound for every pattern, text and way of driving the calls: what a
\* marked walk may stop at was passed by a walk over this very text, and leads to
\* no accept (search_notes.go's header: "nothing matches from" a noted point).
THEOREM NotesSound == Spec => []NotesClosed
<1>1. IInv => NotesClosed
    BY DEF IInv, Sound, MarkedFresh, NotesHold, NotesClosed, InUse
<1> QED BY <1>1, Invariant, PTL

\* Every note lies below the mark a clear goes up to, and inside the buffer the
\* stub sized (emitClear), also when a block is reused for another text.
THEOREM NotesBounded == Spec => []NotesInBuffer
<1>1. IInv => NotesInBuffer
    BY DEF IInv, Sound, NotesPlaced
<1> QED BY <1>1, Invariant, PTL
-----------------------------------------------------------------------------
(* From closed points to the automaton's own run. *)

\* The run from a state is defined.
LEMMA RunDefined ==
    ASSUME TypeOK, NEW q, NEW p \in Nat, p <= n
    PROVE  LET run == RunFrom(q, p)
           IN  run = [i \in p..n |->
                        IF i = p THEN q ELSE dfa.delta[run[i - 1]][ByteAt(text, i - 1)]]
<1> DEFINE Step(f, i) == IF i = p THEN q ELSE dfa.delta[f[i - 1]][ByteAt(text, i - 1)]
           Good(k) == \E f : f = [i \in p..k |-> Step(f, i)]
<1>0. n \in Nat
    BY Facts
<1>1. Good(n)
    <2> SUFFICES ASSUME ~Good(n) PROVE FALSE
        OBVIOUS
    <2> DEFINE Bad == {k \in p..n : ~Good(k)}
    <2>1. Bad \subseteq Nat /\ Bad # {}
        <3> HIDE DEF Good
        <3>1. n \in Bad
            BY <1>0
        <3> QED BY <1>0, <3>1
    <2>2. PICK k \in Bad : \A y \in Bad : k <= y
        BY <2>1, LeastNat
    <2>3. CASE k = p
        <3> DEFINE f == [i \in p..k |-> q]
        <3>1. f = [i \in p..k |-> Step(f, i)]
            BY <2>3
        <3> QED BY <2>2, <3>1
    <2>4. CASE k # p
        <3>1. k - 1 \in p..n /\ k \in p..n /\ ~(k <= k - 1)
            BY <1>0, <2>2, <2>4
        <3>2. Good(k - 1)
            BY <2>2, <3>1
        <3>3. PICK f : f = [i \in p..(k - 1) |-> Step(f, i)]
            BY <3>2
        <3> DEFINE g == [i \in p..k |-> IF i = k THEN Step(f, k) ELSE f[i]]
        <3>4. \A i \in p..k : g[i] = Step(g, i)
            <4> TAKE i \in p..k
            <4>1. CASE i = p
                BY <2>4, <3>1, <3>3, <4>1
            <4>2. CASE i # p
                <5>1. i - 1 \in p..(k - 1) /\ i - 1 \in p..k /\ i - 1 # k
                    BY <3>1, <4>2
                <5>2. g[i - 1] = f[i - 1]
                    BY <5>1
                <5>3. CASE i = k
                    BY <4>2, <5>2, <5>3
                <5>4. CASE i # k
                    <6>1. i \in p..(k - 1)
                        BY <3>1, <5>4
                    <6>2. f[i] = Step(f, i)
                        BY <3>3, <6>1
                    <6> QED BY <4>2, <5>2, <5>4, <6>2
                <5> QED BY <5>3, <5>4
            <4> QED BY <4>1, <4>2
        <3>5. g = [i \in p..k |-> Step(g, i)]
            BY <3>4
        <3> HIDE DEF g
        <3> QED BY <2>2, <3>5
    <2> QED BY <2>3, <2>4
<1> QED BY <1>1 DEF RunFrom

\* From a closed point the run meets no accept: it stays on closed points, or it
\* has died.
LEMMA ClosedBarren ==
    ASSUME Typed, NEW S, Closed(S), NEW q \in All, NEW p \in Nat, <<q, p>> \in S
    PROVE  Barren(q, p)
<1>0. TypeOK /\ n \in Nat
    BY Facts DEF Typed
<1>1. CASE p <= n
    <2> DEFINE run == RunFrom(q, p)
               On(i) == <<run[i], i>> \in S \/ run[i] = Dead
    <2>1. run = [i \in p..n |->
                    IF i = p THEN q ELSE dfa.delta[run[i - 1]][ByteAt(text, i - 1)]]
        BY <1>0, <1>1, RunDefined
    <2> HIDE DEF run
    <2>2. \A i \in p..n : On(i)
        <3> SUFFICES ASSUME \E i \in p..n : ~On(i) PROVE FALSE
            OBVIOUS
        <3> DEFINE Off == {i \in p..n : ~On(i)}
        <3>1. Off \subseteq Nat /\ Off # {}
            BY <1>0
        <3>2. PICK k \in Off : \A y \in Off : k <= y
            BY <3>1, LeastNat
        <3>3. k # p
            BY <1>0, <2>1, <3>2
        <3>4. k - 1 \in p..n /\ ~(k <= k - 1) /\ k - 1 < n /\ k - 1 \in Nat /\ k \in p..n
            BY <1>0, <3>2, <3>3
        <3>5. On(k - 1)
            BY <3>2, <3>4
        <3>6. run[k] = dfa.delta[run[k - 1]][ByteAt(text, k - 1)]
            BY <2>1, <3>3, <3>4
        <3>7. ByteAt(text, k - 1) \in Bytes
            BY <1>0, <3>4, Facts
        <3>8. CASE run[k - 1] = Dead
            BY <1>0, <3>2, <3>6, <3>7, <3>8, Facts, AutomatonTyped
        <3>9. CASE <<run[k - 1], k - 1>> \in S
            <4>1. run[k] = Dead \/ <<run[k], k - 1 + 1>> \in S
                BY <3>4, <3>6, <3>9 DEF Closed
            <4> QED BY <3>2, <3>4, <4>1
        <3> QED BY <3>5, <3>8, <3>9
    <2>3. \A i \in p..n : ~AcceptsAt(Dead, i)
        BY <1>0, Facts, AutomatonTyped, AutomataAssumption, StateAssumption DEF AcceptsAt
    <2>4. \A i \in p..n : ~AcceptsAt(run[i], i)
        BY <2>2, <2>3 DEF Closed
    <2> QED BY <2>4 DEF Barren, run
<1>2. CASE ~(p <= n)
    BY <1>0, <1>2 DEF Barren
<1> QED BY <1>1, <1>2

\* The same in terms of the pattern alone: from a noted point in use, the
\* automaton run on to the end of this text meets no accept, so a walk that stops
\* there loses no match.
THEOREM NotesBarren == Spec => []NotesTrue
<1>1. IInv => NotesTrue
    <2> SUFFICES ASSUME IInv, InUse, NEW pt \in notes PROVE Barren(pt[1], pt[2])
        BY DEF NotesTrue
    <2>1. pt \in proved /\ Closed(proved)
        BY DEF IInv, Sound, MarkedFresh, NotesHold, InUse
    <2>2. pt[1] \in All /\ pt[2] \in Nat /\ pt = <<pt[1], pt[2]>>
        BY InvFacts DEF Points
    <2> QED BY <2>1, <2>2, ClosedBarren, InvFacts
<1> QED BY <1>1, Invariant, PTL
-----------------------------------------------------------------------------
(* Where a search keeps its notes: outside the seed rule, once the block is  *)
(* known to be this text's.                                                  *)

\* While a search is recorded, every call it makes is a marked one, at the
\* resume point the last one stored.
Calling == {"host", "entry", "check", "after"}
Resumes == blk.seen /\ pc \in Calling /\ host.status = "driving" => host.from = blk.resume
Starts == pc \in {"entry", "check"} => host.status = "driving" /\ w.start = host.from
Marked == blk.seen /\ pc \notin Calling => w.marked
Recorded == blk.seen => blk.ptr = text.ptr /\ blk.len = n /\ blk.cap >= n + 1
OneSearch == Starts /\ (fresh => Resumes /\ Marked /\ Recorded) /\ (~Reuse => fresh)
KInv == IInv /\ OneSearch

\* The text check finds another text only where there is one.
LEMMA NeverOther == KInv /\ fresh => ~CheckOther
<1> SUFFICES ASSUME KInv, fresh, CheckOther PROVE FALSE
    OBVIOUS
<1>1. /\ host.status = "driving" /\ w.start = host.from /\ host.from = blk.resume
      /\ blk.ptr = text.ptr /\ blk.len = n
    BY DEF KInv, OneSearch, Resumes, Starts, Recorded, CheckOther, Calling
<1> QED BY <1>1 DEF CheckOther, SameText

\* A new iterator has recorded nothing.
LEMMA KeptInit == Init => OneSearch
<1> SUFFICES ASSUME Init PROVE OneSearch
    OBVIOUS
<1>1. ZeroBlock \in Block /\ ~ZeroBlock.seen
    BY DEF ZeroBlock, Block
<1>2. ~blk.seen
    BY <1>1, HandNotesTyped DEF Init
<1> QED BY <1>2 DEF Init, OneSearch, Resumes, Starts, Marked, Recorded, Calling

\* Steps that leave the call's record of the search alone.
LEMMA KeptQuiet ==
    ASSUME KInv, UNCHANGED <<text, host, fresh>>,
           blk'.cap = blk.cap, blk'.ptr = blk.ptr,
           blk'.len = blk.len, blk'.resume = blk.resume, blk'.seen => blk.seen,
           w'.marked = w.marked, pc \notin Calling, pc' \notin Calling
    PROVE  OneSearch'
BY DEF KInv, OneSearch, Resumes, Starts, Marked, Recorded, Calling, n

\* The same of the steps of a body, which run between entry and return.
LEMMA KeptBody ==
    ASSUME KInv,
           \/ Attempt \/ NoMoreStarts \/ AtEnd \/ DominantAccept \/ Dies \/ Stops \/ Moves
           \/ RecordStops \/ RecordStep \/ SettleFound \/ SettleFailed
    PROVE  OneSearch'
<1> DEFINE Same == /\ blk'.cap = blk.cap /\ blk'.ptr = blk.ptr
                   /\ blk'.len = blk.len /\ blk'.resume = blk.resume
                   /\ (blk'.seen => blk.seen)
<1>0. TypeOK /\ w \in Locals /\ blk \in Block /\ IInv
    BY InvFacts DEF KInv, Typed
<1>1. CASE Attempt
    <2>1. w'.marked = w.marked
        BY <1>0, <1>1 DEF Attempt, Locals
    <2>2. pc' \in {"found", "scan"}
        BY <1>1 DEF Attempt
    <2> QED BY <1>1, <2>1, <2>2, KeptQuiet DEF Attempt, Calling
<1>2. CASE NoMoreStarts \/ RecordStops \/ SettleFound
    BY <1>2, KeptQuiet DEF NoMoreStarts, RecordStops, SettleFound, Calling
<1>3. ASSUME pc = "scan", UNCHANGED <<text, host, fresh>>,
             NEW v \in Locals, v.marked = w.marked, NEW end \in Int, NEW why,
             \/ StartRecord(v, end, why)
             \/ w' = [v EXCEPT !.why = why] /\ pc' = "settle" /\ blk' = blk
      PROVE  OneSearch'
    <2>1. CASE StartRecord(v, end, why)
        <3>1. Same
            BY <1>0, <2>1 DEF StartRecord, Block
        <3>2. w'.marked = w.marked /\ pc' = "record"
            BY <1>3, <2>1 DEF StartRecord, Locals
        <3> QED BY <1>3, <3>1, <3>2, KeptQuiet DEF Calling
    <2>2. CASE w' = [v EXCEPT !.why = why] /\ pc' = "settle" /\ blk' = blk
        <3>1. w'.marked = w.marked
            BY <1>3, <2>2 DEF Locals
        <3> QED BY <1>3, <2>2, <3>1, KeptQuiet DEF Calling
    <2> QED BY <1>3, <2>1, <2>2
<1>4. CASE AtEnd
    <2> DEFINE v == IF w.st \in dfa.eof THEN [w EXCEPT !.last = w.pos] ELSE w
    <2>1. v \in Locals /\ v.marked = w.marked /\ w.pos - 1 \in Int
        BY <1>0 DEF Locals
    <2>2. /\ pc = "scan" /\ UNCHANGED <<text, host, fresh>>
          /\ \/ StartRecord(v, w.pos - 1, "eof")
             \/ w' = [v EXCEPT !.why = "eof"] /\ pc' = "settle" /\ blk' = blk
        BY <1>4 DEF AtEnd, EndWalk
    <2> HIDE DEF v
    <2> QED BY <1>3, <2>1, <2>2
<1>5. CASE Dies
    <2>1. Here \in Locals /\ Here.marked = w.marked /\ w.pos \in Int
        BY <1>0, <1>5, StepTyped, InvFacts DEF Dies, Locals
    <2>2. /\ pc = "scan" /\ UNCHANGED <<text, host, fresh>>
          /\ \/ StartRecord(Here, w.pos, "dead")
             \/ w' = [Here EXCEPT !.why = "dead"] /\ pc' = "settle" /\ blk' = blk
        BY <1>5 DEF Dies, EndWalk
    <2> QED BY <1>3, <2>1, <2>2
<1>6. CASE Stops
    <2>1. Here \in Locals /\ Here.marked = w.marked /\ w.pos \in Int
        BY <1>0, <1>6, StepTyped, InvFacts DEF Stops, Locals
    <2>2. /\ pc = "scan" /\ UNCHANGED <<text, host, fresh>>
          /\ \/ StartRecord(Here, w.pos, "stop")
             \/ w' = [Here EXCEPT !.why = "stop"] /\ pc' = "settle" /\ blk' = blk
        BY <1>6 DEF Stops, EndWalk
    <2> QED BY <1>3, <2>1, <2>2
<1>7. CASE DominantAccept
    <2>1. Here.marked = w.marked
        BY <1>0, <1>7, StepTyped, InvFacts DEF DominantAccept
    <2> QED BY <1>7, <2>1, KeptQuiet DEF DominantAccept, Calling
<1>8. CASE Moves
    <2> DEFINE v == [Here EXCEPT !.st = NextState]
    <2>1. Here \in Locals /\ Here.marked = w.marked /\ NextState \in All
        BY <1>0, <1>8, StepTyped, InvFacts DEF Moves
    <2>2. v \in Locals /\ v.marked = w.marked
        BY <2>1 DEF Locals
    <2>3. /\ \/ w' = [v EXCEPT !.pos = @ + 1]
             \/ w' = [v EXCEPT !.pos = @ + 1, !.last = w.pos + 1, !.lAcc = NextState]
             \/ w' = [v EXCEPT !.last = w.pos + 1, !.lAcc = NextState]
          /\ pc = "scan" /\ pc' \in {"scan", "found"} /\ UNCHANGED <<text, host, blk, fresh>>
        BY <1>8 DEF Moves
    <2> HIDE DEF v
    <2>4. w'.marked = w.marked
        BY <2>2, <2>3 DEF Locals
    <2> QED BY <2>3, <2>4, KeptQuiet DEF Calling
<1>9. CASE RecordStep
    <2>1. w' = w \/ w' = [w EXCEPT !.rs = dfa.delta[@][ByteAt(text, w.rp)], !.rp = @ + 1]
        BY <1>9 DEF RecordStep
    <2>2. w'.marked = w.marked
        BY <1>0, <2>1 DEF Locals
    <2>3. pc' \in {"record", "settle"}
        BY <1>9 DEF RecordStep
    <2> QED BY <1>9, <2>2, <2>3, KeptQuiet DEF RecordStep, Calling
<1>10. CASE SettleFailed
    <2>1. Same
        BY <1>0, <1>10, ChargeFailTyped DEF SettleFailed, Charged
    <2>2. w' = w \/ w' = [w EXCEPT !.start = w.pos + 1] \/ w' = [w EXCEPT !.start = @ + 1]
        BY <1>10 DEF SettleFailed
    <2>3. w'.marked = w.marked
        BY <1>0, <2>2 DEF Locals
    <2>4. pc' \in {"none", "outer"}
        BY <1>10, Zenon DEF SettleFailed
    <2> QED BY <1>10, <2>1, <2>3, <2>4, KeptQuiet DEF SettleFailed, Calling
<1> QED BY <1>1, <1>2, <1>4, <1>5, <1>6, <1>7, <1>8, <1>9, <1>10

\* The steps at a call's two ends.
LEMMA KeptCall ==
    ASSUME KInv, dfa.rule # "seed",
           \/ Host \/ EnterMarked \/ EnterOrdinary \/ CheckFirst \/ CheckSame \/ CheckOther
           \/ Found \/ None
    PROVE  OneSearch'
<1> USE DEF OneSearch, Resumes, Starts, Marked, Recorded, Calling
<1>0. /\ TypeOK /\ w \in Locals /\ blk \in Block /\ IInv /\ OneSearch /\ n \in Nat
      /\ blk.seen => blk.armed /\ blk.given
      /\ host \in Hosts
    BY InvFacts DEF KInv, Typed, TypeOK, Sound, SeenArmed
<1>1. CASE CallFind
    <2>1. w'.start = host.from
        BY <1>1 DEF CallFind, Seed, NoLocals
    <2> QED BY <1>0, <1>1, <2>1 DEF CallFind, n
<1>2. CASE PastTheEnd
    BY <1>0, <1>2 DEF PastTheEnd, n, Hosts
<1>3. CASE Allocate
    <2>1. ~blk.seen /\ ~blk'.seen
        BY <1>0, <1>3, HandNotesTyped DEF Allocate, n, TypeOK
    <2> QED BY <1>0, <1>3, <2>1 DEF Allocate, n
<1>4. CASE AllocationFails
    BY <1>0, <1>4 DEF AllocationFails, n, Hosts
<1>5. CASE NothingToAllocate
    BY <1>0, <1>5 DEF NothingToAllocate, n
<1>6. CASE EnterMarked
    <2>1. w'.start = w.start
        BY <1>0, <1>6 DEF EnterMarked, Locals
    <2> QED BY <1>0, <1>6, <2>1 DEF EnterMarked, n
<1>7. CASE EnterOrdinary
    <2>1. fresh => ~blk.seen
        BY <1>0, <1>7 DEF EnterOrdinary
    <2> QED BY <1>0, <1>7, <2>1 DEF EnterOrdinary, n
<1>8. CASE CheckFirst
    <2>1. w.marked /\ pc' = "outer" /\ UNCHANGED <<text, host, w>>
        BY <1>0, <1>8, InvFacts DEF CheckFirst
    <2>2. blk'.ptr = text.ptr /\ blk'.len = n /\ blk'.cap >= n + 1 /\ fresh'
        BY <1>0, <1>8, <2>1, InvFacts DEF CheckFirst, Block
    <2> QED BY <1>0, <1>8, <2>1, <2>2 DEF CheckFirst, n
<1>9. CASE CheckSame
    BY <1>0, <1>9, InvFacts DEF CheckSame, n
<1>10. CASE Found
    <2>1. /\ host'.from = ResumeAfter(w.start, w.last) /\ pc = "found" /\ pc' = "after"
          /\ UNCHANGED <<text, fresh>>
        BY <1>0, <1>10 DEF Found, Hosts
    <2>2. CASE w.marked
        <3>1. /\ blk'.resume = host'.from /\ blk'.cap = blk.cap
              /\ blk'.ptr = blk.ptr /\ blk'.len = blk.len /\ blk'.seen = blk.seen
            BY <1>0, <1>10, <2>1, <2>2 DEF Found, StoredResume, Block
        <3> QED BY <1>0, <2>1, <3>1 DEF n
    <2>3. CASE ~w.marked
        <3>1. Charged(blk') /\ (fresh => ~blk.seen)
            BY <1>0, <1>10, <2>1, <2>3, ChargeReturnTyped DEF Found
        <3> QED BY <1>0, <2>1, <3>1 DEF Charged, n
    <2> QED BY <2>2, <2>3
<1>11. CASE None
    <2>1. host'.status = "done"
        BY <1>0, <1>11 DEF None, Hosts
    <2> QED BY <1>0, <1>11, <2>1 DEF None, n
<1>12. CASE CheckOther
    <2>1. ~blk'.seen /\ pc' = "entry" /\ fresh' /\ UNCHANGED <<text, host>>
        BY <1>0, <1>12 DEF CheckOther, Block
    <2>2. w'.start = host.from /\ host.status = "driving"
        BY <1>0, <1>12 DEF CheckOther, NoLocals, Seed
    <2> QED BY <2>1, <2>2 DEF n
<1> QED BY <1>1, <1>2, <1>3, <1>4, <1>5, <1>6, <1>7, <1>8, <1>9, <1>10, <1>11, <1>12 DEF Host

\* Every step keeps it.
LEMMA KeptNext ==
    ASSUME \A d \in Automata : d.rule # "seed"
    PROVE  KInv /\ [Next]_vars => KInv'
<1> SUFFICES ASSUME KInv, [Next]_vars PROVE OneSearch'
    BY SoundNext DEF KInv
<1>1. CASE UNCHANGED vars
    BY <1>1 DEF vars, KInv, OneSearch, Resumes, Starts, Marked, Recorded, Calling, n
<1>2. CASE ReuseBlock
    BY <1>2 DEF ReuseBlock, OneSearch, Starts
<1>3. dfa.rule # "seed"
    BY InvFacts DEF KInv, Typed, TypeOK
<1> QED BY <1>1, <1>2, <1>3, KeptBody, KeptCall DEF Next, Call

\* No step but the text check's takes a note back, and within one search it does
\* not: search_notes.go's "within one search that never happens", for every
\* pattern and text, where the find does not round its start (startRuleSeed).
THEOREM KeptOutsideSeedRule ==
    ASSUME \A d \in Automata : d.rule # "seed", ~Reuse
    PROVE  Spec => NotesKept
<1>1. Spec => []KInv
    <2>1. Init => KInv
        BY SoundInit, KeptInit DEF KInv
    <2> QED BY <2>1, KeptNext, PTL DEF Spec
<1>2. KInv /\ [Next]_vars => [blk.seen => notes \subseteq notes']_vars
    <2> SUFFICES ASSUME KInv, Next PROVE blk.seen => notes \subseteq notes'
        OBVIOUS
    <2>1. ~CheckOther /\ ~ReuseBlock
        BY NeverOther, ~Reuse DEF ReuseBlock, KInv, OneSearch
    <2>2. CASE Host
        BY <2>2 DEF Host, CallFind, PastTheEnd, Allocate, AllocationFails, NothingToAllocate
    <2>3. CASE EnterMarked \/ EnterOrdinary \/ CheckFirst \/ CheckSame
        BY <2>3 DEF EnterMarked, EnterOrdinary, CheckFirst, CheckSame
    <2>4. CASE Attempt \/ NoMoreStarts \/ AtEnd \/ DominantAccept \/ Dies \/ Stops \/ Moves
        BY <2>4 DEF Attempt, NoMoreStarts, AtEnd, DominantAccept, Dies, Stops, Moves, EndWalk
    <2>5. CASE RecordStops \/ RecordStep \/ SettleFound \/ SettleFailed \/ Found \/ None
        BY <2>5 DEF RecordStops, RecordStep, SettleFound, SettleFailed, Found, None
    <2> QED BY <2>1, <2>2, <2>3, <2>4, <2>5 DEF Next, Call
<1> QED BY <1>1, <1>2, PTL DEF Spec, NotesKept
-----------------------------------------------------------------------------
(* The notes are complete: the re-walk leaves no gap. *)

\* What a later walk could arrive at and read: a point with a row, behind the
\* text's first byte and before its end.
Needed(S) == {pt \in S : pt[1] \in plan.rows /\ 0 < pt[2] /\ pt[2] < n}
Missing == Needed(proved) \ notes

\* The points passed since the last accept, in a row behind it.
PathHolds ==
    pc = "scan" =>
        /\ w.lStart = w.start /\ w.start <= Anchor[2] /\ Anchor[2] <= w.pos
        /\ w.st \in dfa.acc => w.last = w.pos
        /\ \A pt \in trail : Anchor[2] <= pt[2] /\ pt[2] < w.pos
        /\ \A pt \in Walked :
              /\ pt[2] = w.last => pt[2] = 0 \/ pt[1] \in dfa.acc
              /\ \/ pt = Anchor
                 \/ pt[1] # Dead /\ \E pr \in trail \union {Anchor} : Successor(pr) = pt
              /\ w.marked /\ pt[1] \in plan.rows /\ Anchor[2] < pt[2] => pt \notin notes

\* What the re-walk has yet to note lies on its way, in a row of points of which
\* none is noted.
RecordOwes ==
    pc = "record" =>
        /\ \A pt \in Missing : pt[2] <= w.lEnd /\ pt[2] # w.last
        /\ \E C \in SUBSET Points :
              /\ Missing \subseteq C /\ C \cap notes = {}
              /\ \A pt \in C : /\ w.rp <= pt[2]
                               /\ pt = RecordPoint \/ \E pr \in C : Successor(pr) = pt

Complete == fresh /\ pc # "record" => Missing = {}

CInv == IInv /\ PathHolds /\ RecordOwes /\ Complete

\* How a walk ends that runs into the text's end, the dead state or a note.
Ended(v, end, why) ==
    /\ EndsWith(v, end, why)
    /\ v.marked = w.marked /\ v.pos = w.pos /\ v.start = w.start /\ v.lStart = w.lStart
    /\ AcceptsHere => v.last = w.pos
    /\ ~AcceptsHere => v.last = w.last /\ v.lAcc = w.lAcc
    /\ why = "eof" => w.pos = n /\ end = n - 1 /\ reads' = reads
    /\ why # "eof" => w.pos < n /\ end = w.pos /\ reads' = Read
    /\ v.marked => \/ StartRecord(v, end, why)
                   \/ /\ v.last < 0 /\ UNCHANGED <<blk, proved>>
                      /\ w' = [v EXCEPT !.why = why] /\ pc' = "settle"
                      /\ why = "eof" => plan.eofSkip
                      /\ why # "eof" => why = "dead" /\ plan.skip

LEMMA WalkEnds ==
    ASSUME IInv, PathHolds, AtEnd \/ Dies \/ Stops
    PROVE  /\ pc = "scan"
           /\ \E v \in Locals, end \in Int, why \in {"dead", "eof", "stop"} :
                 end < n /\ Ended(v, end, why)
<1>0. /\ pc = "scan" /\ w.pos \in Nat /\ w.pos <= n /\ n \in Nat /\ w \in Locals
    BY InvFacts, PointFacts DEF AtEnd, Dies, Stops
<1>1. CASE AtEnd
    <2> DEFINE v == IF w.st \in dfa.eof THEN [w EXCEPT !.last = w.pos] ELSE w
    <2>1. /\ v \in Locals /\ v.marked = w.marked /\ w.pos = n /\ v.pos = w.pos
          /\ v.start = w.start /\ v.lStart = w.lStart /\ v.lAcc = w.lAcc
          /\ w.st \in dfa.eof => v.last = n
          /\ w.st \notin dfa.eof => v = w
        BY <1>0, <1>1 DEF Locals, AtEnd
    <2>2. EndWalk(v, w.pos - 1, "eof", plan.eofSkip) /\ reads' = reads
        BY <1>1 DEF AtEnd
    <2> HIDE DEF v
    <2>3. EndsWith(v, n - 1, "eof")
        BY <2>1, <2>2 DEF EndWalk, EndsWith
    <2>4. w.st \in dfa.acc => w.st \in dfa.eof
        BY InvFacts, Facts, AutomatonTyped DEF Typed
    <2>5. AcceptsHere <=> w.st \in dfa.eof
        BY <1>0, <2>1, <2>4 DEF AcceptsHere
    <2>6. Ended(v, n - 1, "eof")
        BY <2>1, <2>2, <2>3, <2>5 DEF Ended, EndWalk
    <2>7. n - 1 \in Int /\ n - 1 < n
        BY <1>0
    <2> QED BY <1>0, <2>1, <2>6, <2>7
<1>2. ASSUME NEW why \in {"dead", "stop"}, NEW skips,
             w.pos < n, EndWalk(Here, w.pos, why, skips), reads' = Read,
             why = "dead" => skips = plan.skip, why = "stop" => skips = FALSE
      PROVE  Ended(Here, w.pos, why) /\ Here \in Locals
    <2>1. /\ Here \in Locals /\ Here.marked = w.marked /\ Here.pos = w.pos
          /\ Here.start = w.start /\ Here.lStart = w.lStart
          /\ PreAccept => Here.last = w.pos
          /\ ~PreAccept => Here = w
        BY <1>0, <1>2, StepTyped, InvFacts
    <2>2. EndsWith(Here, w.pos, why)
        BY <1>2, <2>1 DEF EndWalk, EndsWith
    <2>3. AcceptsHere => Here.last = w.pos
        BY <1>0, <1>2, <2>1, StepTyped, InvFacts DEF AcceptsHere, PathHolds
    <2>4. ~AcceptsHere => Here = w
        BY <1>0, <1>2, <2>1 DEF AcceptsHere
    <2> QED BY <1>2, <2>1, <2>2, <2>3, <2>4 DEF Ended, EndWalk
<1>3. CASE Dies
    <2>1. Ended(Here, w.pos, "dead") /\ Here \in Locals /\ w.pos < n
        BY <1>2, <1>3 DEF Dies
    <2> QED BY <1>0, <2>1
<1>4. CASE Stops
    <2>1. Ended(Here, w.pos, "stop") /\ Here \in Locals /\ w.pos < n
        BY <1>2, <1>4 DEF Stops
    <2> QED BY <1>0, <2>1
<1> QED BY <1>1, <1>3, <1>4

\* A walk begins with nothing passed.
LEMMA PathStart == CInv /\ Attempt => PathHolds'
<1> SUFFICES ASSUME CInv, Attempt, pc' = "scan" PROVE PathHolds'
    BY DEF PathHolds
<1>1. PICK s \in w.start..n :
        LET q == Begins(dfa, text, s)
        IN  w' = [w EXCEPT !.start = s, !.pos = s, !.st = q,
                           !.last = IF Accepting(q, s) THEN s ELSE NoMatch,
                           !.lAcc = q, !.lStart = s]
    BY DEF Attempt
<1> DEFINE q == Begins(dfa, text, s)
           last == IF Accepting(q, s) THEN s ELSE NoMatch
<1>2. /\ w' = [w EXCEPT !.start = s, !.pos = s, !.st = q, !.last = last,
                        !.lAcc = q, !.lStart = s]
      /\ last \in {s, NoMatch} /\ s \in Nat
      /\ q \in dfa.acc => last = s
      /\ last = s => q \in dfa.acc \/ s = 0
    BY <1>1, InvFacts DEF Locals, CInv, Accepting, NoMatch
<1>3. w \in Locals /\ dfa' = dfa /\ trail' = {}
    BY InvFacts DEF CInv, Attempt
<1> HIDE DEF q, last
<1>4. /\ w'.start = s /\ w'.pos = s /\ w'.st = q /\ w'.last = last /\ w'.lAcc = q
      /\ w'.lStart = s
    BY <1>2, <1>3 DEF Locals
<1>5. Point' = <<q, s>> /\ Anchor' = <<q, s>>
    BY <1>2, <1>4 DEF Point, Anchor, TailOf, NoMatch
<1>6. Walked' = {<<q, s>>}
    BY <1>3, <1>5 DEF Walked
<1> QED BY <1>2, <1>3, <1>4, <1>5, <1>6 DEF PathHolds

\* Where a walk goes on, it has not been.
LEMMA PathMoves == CInv /\ Moves => PathHolds'
<1> SUFFICES ASSUME CInv, Moves, pc' = "scan" PROVE PathHolds'
    BY DEF PathHolds
<1> USE DEF CInv
<1> DEFINE v == [Here EXCEPT !.st = NextState]
<1>1. /\ pc = "scan" /\ w.pos < n /\ w.pos \in Nat /\ Here \in Locals /\ w \in Locals
      /\ NextState \in All /\ Here.marked = w.marked /\ Here.pos = w.pos /\ NextState # Dead
      /\ Here.start = w.start /\ Here.lStart = w.lStart /\ ~Noted
      /\ PreAccept => Here.last = w.pos /\ Here.lAcc = w.st
      /\ ~PreAccept => Here = w
    BY StepTyped, InvFacts DEF Moves, Locals
<1>2. /\ v \in Locals /\ v.marked = w.marked /\ v.pos = w.pos /\ v.st = NextState
      /\ v.last = Here.last /\ v.lAcc = Here.lAcc /\ v.lStart = Here.lStart
      /\ v.start = w.start
    BY <1>1 DEF Locals
<1>3. \/ /\ NextState \notin dfa.acc /\ w' = [v EXCEPT !.pos = @ + 1] /\ trail' = Passed
      \/ /\ w' = [v EXCEPT !.pos = @ + 1, !.last = w.pos + 1, !.lAcc = NextState]
         /\ trail' = {} /\ NextState \in dfa.acc
    BY <1>1 DEF Moves, Sound, IInv
<1> HIDE DEF v
<1>4. UNCHANGED <<dfa, plan, text, notes, proved, fresh>> /\ plan.rows \cap dfa.acc = {}
    BY Facts, RowsLive DEF Moves, IInv, Typed
<1>5. /\ w'.marked = w.marked /\ w'.pos = w.pos + 1 /\ w'.st = NextState
      /\ w'.start = w.start /\ w'.lStart = w.lStart
    <2>1. v.pos + 1 = w.pos + 1 /\ v.pos + 1 \in Nat /\ w.pos + 1 \in Nat
        BY <1>1, <1>2
    <2>2. CASE w' = [v EXCEPT !.pos = @ + 1]
        <3>1. w' = [v EXCEPT !.pos = w.pos + 1]
            BY <1>2, <2>2
        <3> QED BY <1>1, <1>2, <2>1, <3>1 DEF Locals
    <2>3. CASE w' = [v EXCEPT !.pos = @ + 1, !.last = w.pos + 1, !.lAcc = NextState]
        BY <1>1, <1>2, <2>1, <2>3 DEF Locals
    <2> QED BY <1>3, <2>2, <2>3
<1>6. Point' = <<NextState, w.pos + 1>> /\ Point' = Successor(Point)
    BY <1>1, <1>5, PointFacts DEF Point
<1>7. /\ w.lStart = w.start /\ w.start <= Anchor[2] /\ Anchor[2] <= w.pos
      /\ w.st \in dfa.acc => w.last = w.pos
      /\ \A pt \in trail : Anchor[2] <= pt[2] /\ pt[2] < w.pos
      /\ w.start \in Nat /\ Anchor[2] \in Nat
      /\ trail \subseteq Points
    BY <1>1, InvFacts DEF PathHolds, Locals, Anchor, TailOf, IInv, Typed, TypeOK, NoMatch
<1>8. \A pt \in Walked :
              /\ pt[2] = w.last => pt[2] = 0 \/ pt[1] \in dfa.acc
              /\ \/ pt = Anchor
                 \/ pt[1] # Dead /\ \E pr \in trail \union {Anchor} : Successor(pr) = pt
              /\ w.marked /\ pt[1] \in plan.rows /\ Anchor[2] < pt[2] => pt \notin notes
    BY <1>1 DEF PathHolds
<1>9. w.marked /\ NextState \in plan.rows => Point' \notin notes
    BY <1>1, <1>6 DEF Noted
<1>10. \A pt : Successor(pt)' = Successor(pt)
    BY <1>4 DEF Successor
<1>11. CASE /\ w' = [v EXCEPT !.pos = @ + 1, !.last = w.pos + 1, !.lAcc = NextState]
            /\ trail' = {} /\ NextState \in dfa.acc
    <2>1. w'.last = w.pos + 1 /\ w'.lAcc = NextState /\ trail' = {}
        BY <1>1, <1>2, <1>11 DEF Locals
    <2>2. Anchor' = Point'
        BY <1>1, <1>6, <2>1 DEF Anchor, TailOf
    <2>3. Walked' = {Point'}
        BY <2>1 DEF Walked
    <2>4. Point'[1] = NextState /\ Point'[2] = w.pos + 1
        BY <1>6
    <2> QED BY <1>1, <1>4, <1>5, <1>7, <1>11, <2>1, <2>2, <2>3, <2>4 DEF PathHolds
<1>12. CASE /\ NextState \notin dfa.acc /\ w' = [v EXCEPT !.pos = @ + 1] /\ trail' = Passed
    <2>1. w'.last = Here.last /\ w'.lAcc = Here.lAcc
        BY <1>1, <1>2, <1>12 DEF Locals
    <2>2. Point'[1] = NextState /\ Point'[2] = w.pos + 1
        BY <1>6
    <2>3. CASE AcceptsHere
        <3>1. trail' = {} /\ Walked' = {Point'}
            BY <1>1, <1>12, <2>3, PointFacts DEF Walked
        <3>2. w'.last = w.pos
            BY <1>1, <1>7, <2>1, <2>3 DEF AcceptsHere
        <3>3. w'.lAcc = w.st
            <4>1. CASE PreAccept
                BY <1>1, <2>1, <4>1
            <4>2. CASE ~PreAccept
                <5>1. Anchor = Point
                    BY <1>1, <2>3, <4>2, PointFacts DEF AcceptsHere
                <5> QED BY <1>1, <2>1, <4>2, <5>1 DEF Anchor, TailOf, Point
            <4> QED BY <4>1, <4>2
        <3>4. Anchor' = Point
            BY <1>1, <3>2, <3>3 DEF Anchor, TailOf, Point
        <3>5. Point[2] = w.pos
            BY DEF Point
        <3>6. Successor(Anchor)' = Point'
            BY <1>6, <1>10, <3>4
        <3> QED BY <1>1, <1>4, <1>5, <1>7, <1>9, <1>12, <2>2, <3>1, <3>2, <3>4, <3>5, <3>6
                DEF PathHolds
    <2>4. CASE ~AcceptsHere
        <3>1. trail' = Walked /\ Walked' = Walked \union {Point'} /\ ~PreAccept
            BY <1>1, <1>12, <2>4, PointFacts DEF Walked, AcceptsHere
        <3>2. w'.last = w.last /\ Anchor' = Anchor
            BY <1>1, <1>5, <2>1, <3>1 DEF Anchor, TailOf
        <3>3. Point \in Walked /\ Point[2] = w.pos /\ \A pt \in Walked : pt \in trail \/ pt = Point
            BY DEF Walked, Point
        <3>4. \A pt \in trail' : Anchor'[2] <= pt[2] /\ pt[2] < w'.pos
            BY <1>1, <1>5, <1>7, <3>1, <3>2, <3>3 DEF Points
        <3>5. w.last <= w.pos
            BY <1>1, <1>7 DEF Anchor, TailOf, NoMatch, Locals
        <3>6. \A pt \in Walked' : pt[2] = w'.last => pt[2] = 0 \/ pt[1] \in dfa'.acc
            BY <1>1, <1>4, <1>8, <2>2, <3>1, <3>2, <3>5 DEF Locals, NoMatch
        <3>7. \A pt \in Walked' :
                 \/ pt = Anchor'
                 \/ pt[1] # Dead /\ \E pr \in trail' \union {Anchor'} : Successor(pr) = pt
            <4>1. PICK here, there : here = Point /\ there = Point'
                OBVIOUS
            <4>2. there[1] # Dead /\ here \in Walked /\ Successor(here) = there
                BY <1>1, <1>6, <2>2, <3>3, <4>1
            <4> QED BY <1>8, <3>1, <3>2, <4>1, <4>2 DEF Walked
        <3>8. \A pt \in Walked' :
                 w'.marked /\ pt[1] \in plan'.rows /\ Anchor'[2] < pt[2] => pt \notin notes'
            <4> SUFFICES ASSUME NEW pt \in Walked', w'.marked, pt[1] \in plan'.rows,
                                Anchor'[2] < pt[2]
                         PROVE  pt \notin notes'
                OBVIOUS
            <4>1. CASE pt = Point'
                BY <1>4, <1>5, <1>9, <2>2, <4>1
            <4>2. CASE pt \in Walked
                BY <1>4, <1>5, <1>8, <3>2, <4>2
            <4> QED BY <3>1, <4>1, <4>2
        <3>9. Anchor'[2] <= w'.pos /\ w'.st \notin dfa'.acc
            BY <1>1, <1>4, <1>5, <1>7, <1>12, <3>2
        <3> QED BY <1>5, <1>7, <1>10, <3>2, <3>4, <3>6, <3>7, <3>8, <3>9 DEF PathHolds
    <2> QED BY <2>3, <2>4
<1> QED BY <1>3, <1>11, <1>12

\* What a walk that is recorded adds lies on the re-walk's way.
LEMMA OwesEnds ==
    ASSUME CInv, AtEnd \/ Dies \/ Stops
    PROVE  RecordOwes' /\ Complete'
<1> USE DEF CInv
<1>1. PICK v \in Locals, end \in Int, why \in {"dead", "eof", "stop"} :
            end < n /\ Ended(v, end, why)
    BY WalkEnds
<1>2. /\ pc = "scan" /\ UNCHANGED <<dfa, plan, text, notes, fresh>>
      /\ n \in Nat /\ w \in Locals /\ w.pos \in Nat /\ w.pos <= n
    BY <1>1, WalkEnds, InvFacts, PointFacts DEF Ended, EndsWith
<1>3. n' = n /\ \A S : Needed(S)' = Needed(S')
    BY <1>2 DEF n, Needed
<1>4. CASE w' = [v EXCEPT !.why = why] /\ pc' = "settle" /\ UNCHANGED <<blk, proved>>
    <2>1. Missing' = Missing
        BY <1>2, <1>4 DEF Missing, Needed, n
    <2> QED BY <1>2, <1>4, <2>1 DEF RecordOwes, Complete
<1>5. CASE v.marked /\ StartRecord(v, end, why)
    <2> DEFINE start == IF v.last >= 0 THEN v.last ELSE v.lStart
    <2>1. /\ w' = [v EXCEPT !.lEnd = end, !.rs = v.lAcc, !.why = why, !.rp = start]
          /\ proved' = proved \union Passed /\ pc' = "record"
        BY <1>5 DEF StartRecord
    <2>2. start \in Nat
        BY DEF Locals, NoMatch
    <2> HIDE DEF start
    <2>3. w'.lEnd = end /\ w'.rs = v.lAcc /\ w'.rp = start /\ w'.last = v.last
        BY <2>1, <2>2 DEF Locals
    <2>4. fresh /\ Missing = {} /\ notes \subseteq proved /\ Closed(proved)
        BY <1>1, <1>2, <1>5, InvFacts DEF Complete, Sound, MarkedFresh, NotesHold, Ended
    <2>5. Missing' \subseteq Passed \ proved /\ Missing' \subseteq Needed(Passed)
        BY <1>2, <2>1, <2>4 DEF Missing, Needed, n
    <2>6. CASE AcceptsHere
        <3>1. Missing' = {}
            BY <1>2, <2>5, <2>6, PointFacts
        <3>2. RecordOwes'
            BY <3>1 DEF RecordOwes
        <3> QED BY <2>1, <3>2 DEF Complete
    <2>7. CASE ~AcceptsHere
        <3>1. Passed = Walked /\ v.last = w.last /\ v.lAcc = w.lAcc /\ v.lStart = w.lStart
            BY <1>1, <1>2, <2>7, PointFacts DEF Ended
        <3>2. Anchor = <<v.lAcc, start>> /\ RecordPoint' = Anchor /\ Anchor[2] = start
            BY <2>3, <3>1 DEF Anchor, TailOf, start, RecordPoint
        <3>3. /\ \A pt \in trail : Anchor[2] <= pt[2] /\ pt[2] < w.pos
              /\ Anchor[2] <= w.pos /\ Walked \subseteq Points
              /\ Point \in Walked /\ Point[2] = w.pos
              /\ \A pt \in Walked : pt \in trail \/ pt = Point
            BY <1>2, InvFacts DEF PathHolds, Walked, Point, Points, Locals, IInv, Typed, TypeOK
        <3>4. \A pt \in Walked :
                 /\ pt[2] = w.last => pt[2] = 0 \/ pt[1] \in dfa.acc
                 /\ \/ pt = Anchor
                    \/ pt[1] # Dead /\ \E pr \in trail \union {Anchor} : Successor(pr) = pt
            BY <1>2 DEF PathHolds
        <3>5. ASSUME NEW pt \in Missing' PROVE pt[2] <= end /\ pt[2] # w'.last
            <4>1. /\ pt \in Walked /\ pt[1] \in plan.rows /\ 0 < pt[2] /\ pt[2] < n
                  /\ pt[1] \notin dfa.acc /\ pt[2] \in Nat
                BY <1>2, <2>5, <3>1, <3>3, Facts, RowsLive DEF Needed, IInv, Typed, Points
            <4>2. pt[2] <= w.pos
                BY <1>2, <3>3, <4>1
            <4>3. pt[2] <= end
                BY <1>1, <1>2, <4>1, <4>2 DEF Ended
            <4> QED BY <2>3, <3>1, <3>4, <4>1, <4>3
        <3> DEFINE C == (Walked \union {Anchor}) \ proved
        <3>6. C \in SUBSET Points
            <4>1. Anchor \in Points
                BY <2>2, <3>2 DEF Points, Locals
            <4> QED BY <3>3, <4>1
        <3>7. Missing' \subseteq C /\ C \cap notes' = {}
            BY <1>2, <2>4, <2>5, <3>1
        <3>8. ASSUME NEW pt \in C
              PROVE  w'.rp <= pt[2] /\ (pt = RecordPoint' \/ \E pr \in C : Successor(pr) = pt)
            <4>1. CASE pt = Anchor
                BY <2>2, <2>3, <3>2, <4>1
            <4>2. CASE pt # Anchor
                <5>1. pt \in Walked /\ pt \notin proved /\ pt \in All \X Nat
                    BY <3>3, <4>2 DEF Points
                <5>2. w'.rp <= pt[2]
                    BY <1>2, <2>3, <3>2, <3>3, <5>1
                <5>3. pt[1] # Dead /\ \E pr \in trail \union {Anchor} : Successor(pr) = pt
                    BY <3>4, <4>2, <5>1
                <5>4. PICK pr \in trail \union {Anchor} : Successor(pr) = pt
                    BY <5>3
                <5>5. pr \in Points /\ pt[2] = pr[2] + 1 /\ pt[2] <= n
                    <6>1. Anchor \in Points /\ trail \subseteq Points
                        BY <2>2, <3>2, <3>3 DEF Points, Locals, Walked
                    <6>2. pt[2] <= n
                        BY <1>2, <3>3, <5>1
                    <6> QED BY <5>4, <6>1, <6>2 DEF Successor
                <5>6. pr \notin proved
                    <6> SUFFICES ASSUME pr \in proved PROVE FALSE
                        OBVIOUS
                    <6>1. pr[2] < n
                        BY <1>2, <5>5 DEF Points
                    <6> QED BY <2>4, <5>1, <5>3, <5>4, <6>1 DEF Closed, Successor
                <5> QED BY <5>2, <5>4, <5>6 DEF Walked
            <4> QED BY <4>1, <4>2
        <3>9. \A pt : Successor(pt)' = Successor(pt)
            BY <1>2 DEF Successor
        <3> HIDE DEF C
        <3>10. RecordOwes'
            BY <2>3, <3>5, <3>6, <3>7, <3>8, <3>9 DEF RecordOwes
        <3> QED BY <2>1, <3>10 DEF Complete
    <2> QED BY <2>6, <2>7
<1>6. v.marked = w.marked
    BY <1>1 DEF Ended
<1> QED BY <1>1, <1>4, <1>5, <1>6 DEF Ended, EndsWith

\* A point already noted: so is everything after it.
LEMMA OwesNothing ==
    ASSUME CInv, RecordStops
    PROVE  Missing = {}
<1> USE DEF CInv
<1>1. /\ pc = "record" /\ w \in Locals /\ RecordEnds
    BY InvFacts DEF RecordStops
<1>2. PICK C \in SUBSET Points :
              /\ Missing \subseteq C /\ C \cap notes = {}
              /\ \A pt \in C : /\ w.rp <= pt[2]
                               /\ pt = RecordPoint \/ \E pr \in C : Successor(pr) = pt
    BY <1>1 DEF RecordOwes
<1>3. \A pt \in Missing : pt[2] <= w.lEnd
    BY <1>1 DEF RecordOwes
<1>4. CASE w.rp > w.lEnd
    <2> SUFFICES ASSUME NEW pt \in Missing PROVE FALSE
        OBVIOUS
    <2>1. pt[2] \in Nat /\ w.rp <= pt[2] /\ pt[2] <= w.lEnd /\ w.rp \in Nat /\ w.lEnd \in Int
        BY <1>1, <1>2, <1>3 DEF Points, Locals
    <2> QED BY <1>4, <2>1
<1>5. CASE RecordPoint \in notes
    <2> SUFFICES ASSUME C # {} PROVE FALSE
        BY <1>2
    <2> DEFINE Places == {pt[2] : pt \in C}
    <2>1. Places \subseteq Nat /\ Places # {}
        BY DEF Points
    <2>2. PICK k \in Places : \A y \in Places : k <= y
        BY <2>1, LeastNat
    <2>3. PICK pt \in C : pt[2] = k
        BY <2>2
    <2>4. pt # RecordPoint
        BY <1>2, <1>5
    <2>5. PICK pr \in C : Successor(pr) = pt
        BY <1>2, <2>4
    <2>6. pt[2] = pr[2] + 1 /\ pr[2] \in Nat /\ pr[2] \in Places
        BY <2>5 DEF Successor, Points
    <2> HIDE DEF Places
    <2>7. k <= pr[2]
        BY <2>2, <2>6
    <2> QED BY <2>3, <2>6, <2>7
<1> QED BY <1>1, <1>4, <1>5 DEF RecordEnds

\* A step of the re-walk notes what it stands on, and leaves the rest.
LEMMA OwesStep ==
    ASSUME CInv, RecordStep
    PROVE  RecordOwes' /\ Complete'
<1> USE DEF CInv
<1>1. /\ pc = "record" /\ w \in Locals /\ n \in Nat
      /\ w.rp \in Nat /\ w.rp <= w.lEnd /\ w.rp < n /\ w.lEnd \in Int
      /\ w.rp # w.lEnd => w.rp < w.lEnd
      /\ RecordPoint \in Points
    BY InvFacts, RecordTyped DEF RecordStep, Locals
<1>2. UNCHANGED <<dfa, plan, text, proved, fresh>> /\ plan.cond = dfa.bound
    BY Facts, RowsLive DEF RecordStep, IInv, Typed
<1>3. PICK C \in SUBSET Points :
              /\ Missing \subseteq C /\ C \cap notes = {}
              /\ \A pt \in C : /\ w.rp <= pt[2]
                               /\ pt = RecordPoint \/ \E pr \in C : Successor(pr) = pt
    BY <1>1 DEF RecordOwes
<1>4. \A pt \in Missing : pt[2] <= w.lEnd /\ pt[2] # w.last
    BY <1>1 DEF RecordOwes
<1>5. PICK here : here = RecordPoint
    OBVIOUS
<1>6. here[1] = w.rs /\ here[2] = w.rp
    BY <1>5 DEF RecordPoint
<1>7. Missing' \subseteq Missing \ {here} /\ notes' \subseteq notes \union {here}
    <2>1. CASE HasRow
        BY <1>2, <1>5, <2>1 DEF RecordStep, Missing, Needed, n
    <2>2. CASE ~HasRow
        <3>1. notes' = notes
            BY <2>2 DEF RecordStep
        <3>2. here \notin Missing
            BY <1>4, <1>6, <2>2 DEF HasRow, Missing, Needed
        <3> QED BY <1>2, <3>1, <3>2 DEF Missing, Needed, n
    <2> QED BY <2>1, <2>2
<1> DEFINE D == C \ {here}
<1>8. ASSUME NEW pt \in D
      PROVE  /\ w.rp + 1 <= pt[2]
             /\ pt = Successor(here) \/ \E pr \in D : Successor(pr) = pt
    <2>1. PICK pr \in C : Successor(pr) = pt
        BY <1>3, <1>5
    <2>2. pt[2] = pr[2] + 1 /\ pr[2] \in Nat /\ w.rp <= pr[2]
        BY <1>3, <2>1 DEF Successor, Points
    <2> QED BY <1>1, <2>1, <2>2
<1>9. CASE w.rp = w.lEnd
    <2>1. pc' = "settle"
        BY <1>9 DEF RecordStep
    <2>2. ASSUME NEW pt \in Missing' PROVE FALSE
        <3>1. pt \in D /\ pt[2] <= w.lEnd /\ pt[2] \in Nat
            BY <1>3, <1>4, <1>7 DEF Points
        <3> QED BY <1>1, <1>8, <1>9, <3>1
    <2> QED BY <2>1, <2>2 DEF RecordOwes, Complete
<1>10. CASE w.rp # w.lEnd
    <2> DEFINE r == dfa.delta[w.rs][ByteAt(text, w.rp)]
    <2>1. w' = [w EXCEPT !.rs = r, !.rp = w.rp + 1] /\ pc' = "record"
        BY <1>1, <1>10 DEF RecordStep
    <2>2. RecordPoint' = Successor(here)
        BY <1>1, <1>6, <2>1 DEF RecordPoint, Successor, Locals
    <2> HIDE DEF r
    <2>3. w'.rp = w.rp + 1 /\ w'.lEnd = w.lEnd /\ w'.last = w.last
        BY <1>1, <2>1 DEF Locals
    <2>4. \A pt : Successor(pt)' = Successor(pt)
        BY <1>2 DEF Successor
    <2>5. D \in SUBSET Points /\ Missing' \subseteq D /\ D \cap notes' = {}
        BY <1>3, <1>7
    <2> HIDE DEF D
    <2>6. RecordOwes'
        BY <1>4, <1>7, <1>8, <2>2, <2>3, <2>4, <2>5 DEF RecordOwes
    <2> QED BY <2>1, <2>6 DEF Complete
<1> QED BY <1>9, <1>10

\* A new iterator has nothing to note.
LEMMA CompleteInit == Init => CInv
<1> SUFFICES ASSUME Init PROVE PathHolds /\ RecordOwes /\ Complete
    BY SoundInit DEF CInv
<1> QED BY DEF Init, PathHolds, RecordOwes, Complete, Missing, Needed

\* A step outside a walk and a re-walk, that touches no note or drops them all.
LEMMA CompleteQuiet ==
    ASSUME CInv, pc' \notin {"scan", "record"},
           \/ /\ UNCHANGED <<plan, text, notes, proved>> /\ (fresh' => fresh)
              /\ pc = "record" => Missing = {}
           \/ proved' = {}
    PROVE  PathHolds' /\ RecordOwes' /\ Complete'
BY DEF CInv, PathHolds, RecordOwes, Complete, Missing, Needed, n

\* Every step keeps it.
LEMMA CompleteNext == CInv /\ [Next]_vars => CInv'
<1> SUFFICES ASSUME CInv, [Next]_vars PROVE PathHolds' /\ RecordOwes' /\ Complete'
    BY SoundNext DEF CInv
<1>1. CASE UNCHANGED vars
    BY <1>1 DEF vars, CInv, PathHolds, RecordOwes, Complete, Missing, Needed, n, Walked, Point,
       Anchor, TailOf, Successor, RecordPoint
<1>2. CASE Host
    BY <1>2, CompleteQuiet
    DEF Host, CallFind, PastTheEnd, Allocate, AllocationFails, NothingToAllocate
<1>3. CASE EnterMarked \/ EnterOrdinary \/ CheckOther \/ ReuseBlock
    BY <1>3, CompleteQuiet DEF EnterMarked, EnterOrdinary, CheckOther, ReuseBlock
<1>4. CASE CheckFirst
    <2>1. ~fresh => proved = {}
        BY DEF CInv, IInv, Sound, StaleBetrayed
    <2>2. Missing' = {}
        BY <1>4, <2>1 DEF CheckFirst, CInv, Complete, Missing, Needed, n
    <2> QED BY <1>4, <2>2 DEF CheckFirst, PathHolds, RecordOwes, Complete
<1>5. CASE CheckSame
    BY <1>5, CompleteQuiet DEF CheckSame
<1>6. CASE Attempt
    <2>1. Missing' = Missing /\ fresh' = fresh /\ pc = "outer"
        BY <1>6 DEF Attempt, Missing, Needed, n
    <2>2. pc' \in {"found", "scan"}
        BY <1>6 DEF Attempt
    <2> QED BY <1>6, <2>1, <2>2, PathStart DEF RecordOwes, Complete, CInv
<1>7. CASE NoMoreStarts \/ DominantAccept \/ SettleFound \/ Found \/ None
    BY <1>7, CompleteQuiet DEF NoMoreStarts, DominantAccept, SettleFound, Found, None
<1>8. CASE Moves
    <2>1. Missing' = Missing /\ fresh' = fresh /\ pc = "scan" /\ pc' \in {"found", "scan"}
        BY <1>8 DEF Moves, Missing, Needed, n
    <2> QED BY <1>8, <2>1, PathMoves DEF RecordOwes, Complete, CInv
<1>9. CASE AtEnd \/ Dies \/ Stops
    <2>1. pc' # "scan"
        BY <1>9 DEF AtEnd, Dies, Stops, EndWalk, StartRecord
    <2> QED BY <1>9, <2>1, OwesEnds DEF PathHolds
<1>10. CASE RecordStops
    BY <1>10, OwesNothing, CompleteQuiet DEF RecordStops
<1>11. CASE RecordStep
    <2>1. pc' # "scan"
        BY <1>11 DEF RecordStep
    <2> QED BY <1>11, <2>1, OwesStep DEF PathHolds
<1>12. CASE SettleFailed
    <2>1. pc' \in {"none", "outer"}
        BY <1>12, Zenon DEF SettleFailed
    <2> QED BY <1>12, <2>1, CompleteQuiet DEF SettleFailed
<1> QED BY <1>1, <1>2, <1>3, <1>4, <1>5, <1>6, <1>7, <1>8, <1>9, <1>10, <1>11, <1>12
        DEF Next, Call

LEMMA CompleteInvariant == Spec => []CInv
BY CompleteInit, CompleteNext, PTL DEF Spec

\* emitRecord stops its re-walk at the first point it finds noted, because "so is
\* everything after it" (search_notes.go): for every pattern and text, and over a
\* block that is reused, a re-walk leaves no point of the tail without its note.
THEOREM NotesLeaveNoGap == Spec => []NotesComplete
<1>1. CInv => NotesComplete
    BY DEF CInv, Complete, Missing, Needed, NotesComplete
<1> QED BY <1>1, CompleteInvariant, PTL
-----------------------------------------------------------------------------
(* The armed search is linear: a ledger of the bytes it read in states with a *)
(* row.                                                                      *)

\* What is read is read by a marked body, while the search is recorded.
SeenInv ==
    /\ ~blk.seen \/ ~fresh => reads = 0
    /\ w.marked /\ pc # "check" => blk.seen

LEMMA SeenInit == Init => SeenInv
BY DEF Init, SeenInv, NoLocals

\* A step that reads nothing.
LEMMA SeenQuiet ==
    ASSUME KInv, SeenInv, UNCHANGED <<fresh, reads>>,
           blk'.seen = blk.seen \/ (~w'.marked /\ (fresh => ~blk.seen)),
           w'.marked => w.marked, pc # "check"
    PROVE  SeenInv'
BY DEF SeenInv

LEMMA SeenNext == CInv /\ KInv /\ SeenInv /\ [Next]_vars => SeenInv'
<1> SUFFICES ASSUME CInv, KInv, SeenInv, [Next]_vars PROVE SeenInv'
    OBVIOUS
<1>0. /\ TypeOK /\ w \in Locals /\ blk \in Block /\ IInv /\ n \in Nat
      /\ pc \in {"host", "entry", "after"} => ~w.marked
      /\ pc = "check" => w.marked
      /\ w.marked /\ pc # "check" => fresh /\ blk.seen
      /\ fresh /\ blk.seen /\ pc \notin Calling => w.marked
    BY InvFacts DEF KInv, OneSearch, Marked, Typed, SeenInv, Sound, MarkedFresh
<1>1. CASE UNCHANGED vars
    BY <1>1 DEF vars, SeenInv
<1>2. CASE ReuseBlock
    BY <1>0, <1>2 DEF ReuseBlock, SeenInv
<1>3. CASE CallFind \/ EnterOrdinary
    <2>1. ~w'.marked /\ blk' = blk /\ pc # "check" /\ UNCHANGED <<fresh, reads>>
        BY <1>0, <1>3 DEF CallFind, EnterOrdinary, NoLocals
    <2> QED BY <2>1, SeenQuiet
<1>4. CASE PastTheEnd \/ AllocationFails \/ NothingToAllocate
    BY <1>0, <1>4, SeenQuiet DEF PastTheEnd, AllocationFails, NothingToAllocate
<1>5. CASE Allocate
    <2>1. blk'.seen = blk.seen
        BY <1>0, <1>5, HandNotesTyped DEF Allocate, TypeOK
    <2> QED BY <1>0, <1>5, <2>1, SeenQuiet DEF Allocate
<1>6. CASE EnterMarked
    BY <1>6 DEF EnterMarked, SeenInv
<1>7. CASE CheckFirst
    <2>1. blk'.seen /\ reads' = reads /\ fresh'
        BY <1>0, <1>7 DEF CheckFirst, Block
    <2> QED BY <2>1 DEF SeenInv
<1>8. CASE CheckSame
    BY <1>8, <1>0, SameFresh DEF CheckSame, SeenInv
<1>9. CASE CheckOther
    <2>1. ~fresh /\ reads' = reads /\ ~w'.marked
        BY <1>0, <1>9, NeverOther DEF CheckOther, NoLocals
    <2> QED BY <2>1 DEF SeenInv
<1>10. CASE Attempt
    <2>1. w'.marked = w.marked
        BY <1>0, <1>10 DEF Attempt, Locals
    <2> QED BY <1>10, <2>1, SeenQuiet DEF Attempt
<1>11. CASE NoMoreStarts \/ RecordStops \/ SettleFound
    BY <1>11, SeenQuiet DEF NoMoreStarts, RecordStops, SettleFound
<1>12. CASE DominantAccept
    <2>1. Here.marked = w.marked
        BY <1>0, <1>12, StepTyped DEF DominantAccept, IInv
    <2> QED BY <1>12, <2>1, SeenQuiet DEF DominantAccept
<1>13. CASE AtEnd \/ Dies \/ Stops
    <2>1. PICK v \in Locals, end \in Int, why \in {"dead", "eof", "stop"} :
            end < n /\ Ended(v, end, why)
        BY <1>13, WalkEnds DEF CInv
    <2>2. pc = "scan"
        BY <1>13, WalkEnds DEF CInv
    <2>3. w'.marked = w.marked /\ blk'.seen = blk.seen /\ fresh' = fresh
        <3>1. CASE StartRecord(v, end, why)
            BY <1>0, <2>1, <3>1 DEF StartRecord, Ended, EndsWith, Block, Locals
        <3>2. CASE w' = [v EXCEPT !.why = why] /\ UNCHANGED blk
            BY <2>1, <3>2 DEF Ended, EndsWith, Locals
        <3> QED BY <2>1, <3>1, <3>2 DEF Ended, EndsWith
    <2>4. ~w.marked => reads' = reads
        BY <1>0, <2>1 DEF Ended, Read, TypeOK
    <2> QED BY <1>0, <2>2, <2>3, <2>4 DEF SeenInv
<1>14. CASE Moves
    <2> DEFINE v == [Here EXCEPT !.st = NextState]
    <2>1. Here \in Locals /\ Here.marked = w.marked /\ NextState \in All
        BY <1>0, <1>14, StepTyped DEF Moves, IInv
    <2>2. v \in Locals /\ v.marked = w.marked
        BY <2>1 DEF Locals
    <2>3. /\ \/ w' = [v EXCEPT !.pos = @ + 1]
             \/ w' = [v EXCEPT !.pos = @ + 1, !.last = w.pos + 1, !.lAcc = NextState]
             \/ w' = [v EXCEPT !.last = w.pos + 1, !.lAcc = NextState]
          /\ pc = "scan" /\ reads' = Read /\ UNCHANGED <<blk, fresh>>
        BY <1>14 DEF Moves
    <2> HIDE DEF v
    <2>4. w'.marked = w.marked
        BY <2>2, <2>3 DEF Locals
    <2>5. ~w.marked => reads' = reads
        BY <2>3, <1>0 DEF Read, TypeOK
    <2> QED BY <1>0, <2>3, <2>4, <2>5 DEF SeenInv
<1>15. CASE RecordStep
    <2>1. w' = w \/ w' = [w EXCEPT !.rs = dfa.delta[@][ByteAt(text, w.rp)], !.rp = @ + 1]
        BY <1>15 DEF RecordStep
    <2>2. w'.marked = w.marked
        BY <1>0, <2>1 DEF Locals
    <2> QED BY <1>15, <2>2, SeenQuiet DEF RecordStep
<1>16. CASE SettleFailed
    <2>1. w' = w \/ w' = [w EXCEPT !.start = w.pos + 1] \/ w' = [w EXCEPT !.start = @ + 1]
        BY <1>16 DEF SettleFailed
    <2>2. w'.marked = w.marked
        BY <1>0, <2>1 DEF Locals
    <2>3. (blk'.seen => blk.seen) /\ (w.marked => blk' = blk)
        BY <1>0, <1>16, ChargeFailTyped DEF SettleFailed, Charged
    <2>4. pc \notin Calling
        BY <1>16 DEF SettleFailed, Calling
    <2> QED BY <1>0, <1>16, <2>2, <2>3, <2>4, SeenQuiet DEF SettleFailed
<1>17. CASE Found
    <2>1. ~w'.marked /\ pc \notin Calling
        BY <1>17 DEF Found, NoLocals, Calling
    <2>2. /\ w.marked => blk'.seen = blk.seen
          /\ ~w.marked => (blk'.seen => blk.seen)
        BY <1>0, <1>17, ChargeReturnTyped DEF Found, Charged, Block
    <2> QED BY <1>0, <1>17, <2>1, <2>2, SeenQuiet DEF Found
<1>18. CASE None
    BY <1>18, SeenQuiet DEF None, NoLocals
<1> QED BY <1>1, <1>2, <1>3, <1>4, <1>5, <1>6, <1>7, <1>8, <1>9, <1>10, <1>11, <1>12,
           <1>13, <1>14, <1>15, <1>16, <1>17, <1>18 DEF Next, Host, Call

\* The ledger's entries: the points recorded that a walk could read, the points
\* of this walk that will be, the bytes behind both, and the answers.
Kept == Needed(proved)
NewTail == {pt \in trail : pt[1] \in plan.rows /\ Anchor[2] < pt[2]}
Behind == Anchor[2] + (IF Anchor[2] < w.pos THEN 1 ELSE 0)
Answered == Len(host.answers)

\* The bytes before k are paid for, each once, and so are those of the text.
Spent(k) == /\ reads <= Cardinality(Kept) + k + Answered
            /\ reads <= Cardinality(Kept) + n + Answered
Walking == /\ reads <= Cardinality(Kept) + Cardinality(NewTail) + Behind + Answered
           /\ Cardinality(NewTail) + Behind <= w.pos

\* Where the search goes on from a walk that has ended.
PassedBy ==
    IF w.last >= 0 THEN w.last + 1
    ELSE IF w.why = "dead" /\ plan.skip THEN w.pos + 1
    ELSE IF w.why = "eof" /\ plan.eofSkip THEN n ELSE w.start + 1

Ledger ==
    /\ pc \in Calling => Spent(IF host.status = "driving" THEN host.from ELSE n)
    /\ pc = "outer" \/ (pc = "scan" /\ ~w.marked) => Spent(w.start)
    /\ pc = "scan" /\ w.marked => Walking
    /\ pc \in {"record", "settle"} => Spent(PassedBy)
    /\ pc = "found" => Spent(w.last + 1)
    /\ pc = "none" => Spent(n)

LInv == CInv /\ KInv /\ SeenInv /\ Ledger

\* Points of rows before the text's end are counted row by row.
LEMMA PointsCounted ==
    ASSUME IInv, NEW S, S \subseteq plan.rows \X (1..n)
    PROVE  /\ IsFiniteSet(S) /\ Cardinality(S) \in Nat
           /\ Cardinality(plan.rows) \in Nat
           /\ Cardinality(S) <= Cardinality(plan.rows) * n
<1>1. plan.rows \subseteq States /\ n \in Nat
    BY Facts DEF IInv, Typed
<1>2. IsFiniteSet(plan.rows) /\ Cardinality(plan.rows) \in Nat
    BY <1>1, StatesAssumption, FS_Subset, FS_CardinalityType
<1>3. IsFiniteSet(1..n) /\ Cardinality(1..n) = n
    <2>1. 1 \in Int /\ n \in Int
        BY <1>1
    <2>2. IsFiniteSet(1..n) /\ Cardinality(1..n) = IF 1 > n THEN 0 ELSE n - 1 + 1
        BY <2>1, FS_Interval
    <2> QED BY <1>1, <2>2
<1>4. /\ IsFiniteSet(plan.rows \X (1..n))
      /\ Cardinality(plan.rows \X (1..n)) = Cardinality(plan.rows) * n
    BY <1>2, <1>3, FS_Product
<1>5. IsFiniteSet(S) /\ Cardinality(S) <= Cardinality(plan.rows) * n
    BY <1>4, FS_Subset
<1> QED BY <1>2, <1>5, FS_CardinalityType

\* The ledger's entries are numbers.
Numbers ==
    /\ IsFiniteSet(Kept) /\ Cardinality(Kept) \in Nat
    /\ Cardinality(plan.rows) \in Nat
    /\ Cardinality(Kept) <= Cardinality(plan.rows) * n
    /\ Answered \in Nat /\ reads \in Nat /\ n \in Nat
LEMMA Counted == IInv => Numbers
<1> SUFFICES ASSUME IInv PROVE Numbers
    OBVIOUS
<1>1. proved \subseteq Points /\ reads \in Nat /\ host.answers \in Seq(Nat \X Nat) /\ n \in Nat
    BY Facts DEF IInv, Typed, TypeOK
<1>2. Kept \subseteq plan.rows \X (1..n)
    BY <1>1 DEF Kept, Needed, Points
<1> QED BY <1>1, <1>2, PointsCounted DEF Numbers, Answered

\* The tail of a marked walk is new: not a point of it is noted.
LEMMA TailNew ==
    ASSUME LInv, pc = "scan"
    PROVE  /\ Anchor[2] \in Nat /\ Anchor[2] <= w.pos /\ w.pos \in Nat /\ w.pos <= n
           /\ w.start \in Nat /\ w.start <= Anchor[2]
           /\ Anchor[2] = IF w.last >= 0 THEN w.last ELSE w.start
           /\ IsFiniteSet(NewTail) /\ Cardinality(NewTail) \in Nat
           /\ ~AcceptsHere => NewTail \subseteq Needed(Passed)
           /\ w.marked => NewTail \cap Kept = {}
<1> USE DEF LInv, CInv
<1>1. /\ w \in Locals /\ n \in Nat /\ trail \subseteq Points /\ w.pos \in Nat /\ w.pos <= n
    BY InvFacts, PointFacts DEF IInv, Typed, TypeOK
<1>2. /\ Anchor[2] = IF w.last >= 0 THEN w.last ELSE w.start
      /\ w.start <= Anchor[2] /\ Anchor[2] <= w.pos
      /\ \A pt \in trail : pt[2] < w.pos
    BY DEF PathHolds, Anchor, TailOf
<1>3. Anchor[2] \in Nat /\ w.start \in Nat
    BY <1>1, <1>2 DEF Locals, NoMatch
<1> DEFINE a == Anchor[2]
<1>4. a \in Nat /\ NewTail = {pt \in trail : pt[1] \in plan.rows /\ a < pt[2]}
    BY <1>3 DEF NewTail
<1> HIDE DEF a
<1>5. \A pt \in NewTail : pt \in All \X Nat /\ pt[1] \in plan.rows /\ 0 < pt[2] /\ pt[2] < n
    BY <1>1, <1>2, <1>4 DEF Points
<1>6. NewTail \subseteq plan.rows \X (1..n)
    BY <1>1, <1>5
<1>7. IsFiniteSet(NewTail) /\ Cardinality(NewTail) \in Nat
    BY <1>6, PointsCounted
<1>8. ~AcceptsHere => NewTail \subseteq Needed(Passed)
    BY <1>4, <1>5, PointFacts DEF Needed, Walked
<1>9. w.marked => NewTail \cap Kept = {}
    <2> SUFFICES ASSUME w.marked PROVE NewTail \cap Kept = {}
        OBVIOUS
    <2>1. fresh /\ Missing = {}
        BY InvFacts DEF Sound, MarkedFresh, Complete
    <2>2. Kept \subseteq notes
        BY <2>1 DEF Missing, Kept
    <2>3. \A pt \in trail : pt[1] \in plan.rows /\ Anchor[2] < pt[2] => pt \notin notes
        BY DEF PathHolds, Walked
    <2> QED BY <2>2, <2>3 DEF NewTail
<1> QED BY <1>1, <1>2, <1>3, <1>7, <1>8, <1>9

\* So far a walk has paid for what it read with the bytes before it.
LEMMA WalkPaid ==
    ASSUME LInv, pc = "scan"
    PROVE  Spent(w.pos)
<1>1. Numbers /\ w.pos \in Nat /\ w.pos <= n /\ w.start \in Nat /\ w.start <= w.pos
    <2>1. /\ Numbers /\ w.pos \in Nat /\ w.pos <= n /\ w.start \in Nat /\ w.start <= Anchor[2]
          /\ Anchor[2] <= w.pos /\ Anchor[2] \in Nat
        BY TailNew, Counted DEF LInv, CInv
    <2> QED BY <2>1
<1>2. CASE w.marked
    <2>1. Walking /\ Cardinality(NewTail) \in Nat /\ Behind \in Nat
        BY <1>2, TailNew DEF LInv, Ledger, Behind
    <2> QED BY <1>1, <2>1 DEF Walking, Spent, Numbers
<1>3. CASE ~w.marked
    <2>1. Spent(w.start)
        BY <1>3 DEF LInv, Ledger
    <2> QED BY <1>1, <2>1 DEF Spent, Numbers
<1> QED BY <1>2, <1>3
\* The points of a walk that go into rows, the one it reads from included.
RowTail == {pt \in Walked : pt[1] \in plan.rows /\ Anchor[2] < pt[2]}

\* A byte read with no accept behind it is paid for by the point it is read from,
\* or it is the first behind the tail's beginning.
LEMMA ReadOn ==
    ASSUME LInv, pc = "scan", w.marked, w.pos < n, ~AcceptsHere
    PROVE  /\ IsFiniteSet(RowTail) /\ Cardinality(RowTail) \in Nat
           /\ RowTail \subseteq Needed(Passed) /\ RowTail \cap Kept = {}
           /\ Read <= Cardinality(Kept) + Cardinality(RowTail) + Anchor[2] + 1 + Answered
           /\ Cardinality(RowTail) + Anchor[2] <= w.pos
<1>1. /\ Numbers /\ w.pos \in Nat /\ Anchor[2] \in Nat /\ Anchor[2] <= w.pos
      /\ IsFiniteSet(NewTail) /\ Cardinality(NewTail) \in Nat
      /\ NewTail \subseteq Needed(Passed) /\ NewTail \cap Kept = {}
    BY TailNew, Counted DEF LInv, CInv
<1>2. Walking /\ Passed = Walked
    BY PointFacts DEF LInv, Ledger, CInv
<1>3. Point = <<w.st, w.pos>> /\ Point \notin trail /\ Point \in Walked
      /\ \A pt \in Walked : pt \in trail \/ pt = Point
    <2>1. \A pt \in trail : pt[2] < w.pos
        BY DEF LInv, CInv, PathHolds
    <2>2. ~(w.pos < w.pos)
        BY <1>1
    <2> QED BY <2>1, <2>2 DEF Point, Walked
<1>4. CASE w.st \in plan.rows /\ Anchor[2] < w.pos
    <2>1. RowTail = NewTail \union {Point} /\ Point \notin NewTail
        BY <1>3, <1>4 DEF RowTail, NewTail, Walked
    <2>2. IsFiniteSet(RowTail) /\ Cardinality(RowTail) = Cardinality(NewTail) + 1
        BY <1>1, <2>1, FS_AddElement
    <2>3. Point \notin notes /\ fresh /\ Missing = {}
        BY <1>3, <1>4, InvFacts
        DEF LInv, CInv, PathHolds, Sound, MarkedFresh, Complete
    <2>4. Point \in Needed(Passed) /\ Point \notin Kept
        BY <1>1, <1>2, <1>3, <1>4, <2>3 DEF Needed, Missing, Kept
    <2>5. Read = reads + 1 /\ Behind = Anchor[2] + 1
        BY <1>4 DEF Read, Behind
    <2> QED BY <1>1, <1>2, <2>1, <2>2, <2>4, <2>5 DEF Walking, Numbers
<1>5. CASE ~(w.st \in plan.rows /\ Anchor[2] < w.pos)
    <2>1. RowTail = NewTail
        BY <1>3, <1>5 DEF RowTail, NewTail, Walked
    <2>2. \/ Read = reads /\ Behind <= Anchor[2] + 1
          \/ Read <= reads + 1 /\ Behind = Anchor[2]
        BY <1>1, <1>5 DEF Read, Behind, Numbers
    <2>3. Behind \in Nat /\ Anchor[2] <= Behind /\ Read \in Int
        BY <1>1 DEF Behind, Read, Numbers
    <2> QED BY <1>1, <1>2, <2>1, <2>2, <2>3 DEF Walking, Numbers
<1> QED BY <1>4, <1>5

\* What is recorded for the first time adds to what is kept.
LEMMA KeptGains ==
    ASSUME IInv, IInv', NEW S, NEW T, proved' = proved \union S, UNCHANGED <<plan, text>>,
           T \subseteq Needed(S), T \cap Kept = {}, IsFiniteSet(T)
    PROVE  /\ Cardinality(Kept) \in Nat /\ Cardinality(Kept') \in Nat
           /\ Cardinality(Kept) + Cardinality(T) <= Cardinality(Kept')
<1>1. IsFiniteSet(Kept) /\ Cardinality(Kept) \in Nat
    BY Counted DEF Numbers
<1>2. Numbers'
    BY Counted, PTL
<1>3. IsFiniteSet(Kept') /\ Cardinality(Kept') \in Nat
    BY <1>2 DEF Numbers
<1>4. Kept' = Kept \union Needed(S)
    BY DEF Kept, Needed, n
<1>5. /\ IsFiniteSet(Kept \union T)
      /\ Cardinality(Kept \union T) = Cardinality(Kept) + Cardinality(T) - Cardinality(Kept \cap T)
    BY <1>1, FS_Union
<1>6. Cardinality(Kept \cap T) = 0
    <2>1. Kept \cap T = {}
        OBVIOUS
    <2> QED BY <2>1, FS_EmptySet
<1>7. Cardinality(T) \in Nat
    BY FS_CardinalityType
<1>8. Cardinality(Kept \union T) <= Cardinality(Kept')
    BY <1>3, <1>4, FS_Subset
<1>9. Cardinality(Kept \union T) = Cardinality(Kept) + Cardinality(T)
    BY <1>1, <1>5, <1>6, <1>7
<1> QED BY <1>1, <1>3, <1>8, <1>9

\* A walk that ends has paid, as far as where the search goes on.
LEMMA LedgerEnds ==
    ASSUME LInv, CInv', AtEnd \/ Dies \/ Stops
    PROVE  Ledger'
<1> USE DEF LInv, CInv
<1>1. PICK v \in Locals, end \in Int, why \in {"dead", "eof", "stop"} :
            end < n /\ Ended(v, end, why)
    BY WalkEnds
<1>2. /\ pc = "scan" /\ pc' \in {"record", "settle"} /\ w \in Locals
      /\ UNCHANGED <<plan, text, host>> /\ n' = n
      /\ \/ v.marked /\ StartRecord(v, end, why)
         \/ w' = [v EXCEPT !.why = why] /\ UNCHANGED <<blk, proved>>
    <2>1. pc = "scan" /\ EndsWith(v, end, why)
        BY <1>1, WalkEnds DEF Ended
    <2>2. UNCHANGED <<plan, text, host>> /\ n' = n /\ w \in Locals
        BY <2>1, InvFacts DEF EndsWith, n
    <2>3. pc' \in {"record", "settle"}
        BY <2>1 DEF EndsWith, StartRecord
    <2> QED BY <2>1, <2>2, <2>3 DEF EndsWith
<1>3. w'.last = v.last /\ w'.pos = w.pos /\ w'.start = w.start /\ w'.why = why
    BY <1>1, <1>2 DEF Ended, StartRecord, Locals
<1>4. Numbers /\ Numbers' /\ Answered' = Answered
    <2>1. Numbers /\ IInv'
        BY Counted
    <2>2. Numbers'
        BY <2>1, Counted, PTL
    <2> QED BY <1>2, <2>1, <2>2 DEF Answered
<1> DEFINE p == IF v.last >= 0 THEN v.last + 1
                ELSE IF why = "dead" /\ plan.skip THEN w.pos + 1
                ELSE IF why = "eof" /\ plan.eofSkip THEN n ELSE w.start + 1
           a == Anchor[2]
           K == Cardinality(Kept)
           L == Cardinality(Kept')
<1>5. PassedBy' = p
    BY <1>2, <1>3 DEF PassedBy
<1>6. SUFFICES reads' <= L + p + Answered /\ reads' <= L + n + Answered
    BY <1>2, <1>4, <1>5 DEF Ledger, Spent, Calling
<1>7. /\ w.pos \in Nat /\ w.pos <= n /\ n \in Nat /\ w.start \in Nat /\ a \in Nat
      /\ w.start <= a /\ a <= w.pos /\ a = IF w.last >= 0 THEN w.last ELSE w.start
      /\ IsFiniteSet(NewTail) /\ Cardinality(NewTail) \in Nat
      /\ K \in Nat /\ L \in Nat /\ Answered \in Nat /\ reads \in Nat /\ reads' \in Nat
    BY <1>2, <1>4, TailNew DEF Numbers
<1>8. /\ reads <= K + w.pos + Answered /\ reads <= K + n + Answered
      /\ reads' <= reads + 1
    BY <1>1, <1>2, <1>7, WalkPaid DEF Spent, Ended, Read
<1>9. v.last \in Nat \union {NoMatch} /\ v.marked = w.marked
      /\ (AcceptsHere => v.last = w.pos) /\ (~AcceptsHere => v.last = w.last)
      /\ (why = "eof" => w.pos = n /\ reads' = reads) /\ (why # "eof" => w.pos < n)
    BY <1>1 DEF Ended, Locals
<1>10. p \in Nat
    BY <1>7, <1>9 DEF NoMatch
<1> HIDE DEF a
<1>11. CASE ~w.marked
    <2>1. reads' = reads /\ Spent(w.start) /\ Kept' = Kept
        BY <1>1, <1>2, <1>7, <1>9, <1>11 DEF Ledger, Ended, Read, Kept, Needed
    <2>2. reads <= K + w.start + Answered /\ L = K
        BY <2>1 DEF Spent
    <2>3. w.start <= p \/ p = n
        BY <1>7, <1>9 DEF NoMatch
    <2> HIDE DEF p, K, L
    <2> QED BY <1>7, <1>8, <1>10, <2>1, <2>2, <2>3
<1>12. CASE w.marked /\ AcceptsHere
    <2>1. p = w.pos + 1
        BY <1>7, <1>9, <1>12
    <2>2. Kept' = Kept
        BY <1>2, <1>12, PointFacts DEF StartRecord, Kept, Needed
    <2>3. L = K
        BY <2>2
    <2> HIDE DEF p, K, L
    <2> QED BY <1>7, <1>8, <1>9, <2>1, <2>3
<1>13. CASE w.marked /\ ~AcceptsHere /\ ~StartRecord(v, end, why)
    <2>1. /\ v.last < 0 /\ Kept' = Kept
          /\ why = "eof" => plan.eofSkip
          /\ why # "eof" => why = "dead" /\ plan.skip
        BY <1>1, <1>2, <1>9, <1>13 DEF Ended, Kept, Needed
    <2>2. L = K
        BY <2>1
    <2>3. p = IF why = "eof" THEN n ELSE w.pos + 1
        BY <1>9, <2>1 DEF NoMatch
    <2> HIDE DEF p, K, L
    <2> QED BY <1>7, <1>8, <1>9, <2>2, <2>3
<1>14. CASE w.marked /\ ~AcceptsHere /\ StartRecord(v, end, why)
    <2>1. proved' = proved \union Passed /\ v.last = w.last
        BY <1>9, <1>14 DEF StartRecord
    <2>2. CASE why = "eof"
        <3>1. NewTail \subseteq Needed(Passed) /\ NewTail \cap Kept = {}
            BY <1>2, <1>14, TailNew
        <3>2. K + Cardinality(NewTail) <= L
            BY <1>2, <1>7, <2>1, <3>1, KeptGains
        <3>3. reads <= K + Cardinality(NewTail) + Behind + Answered
            BY <1>2, <1>14 DEF Ledger, Walking
        <3>4. Behind \in Nat /\ Behind <= a + 1 /\ Behind <= w.pos
            BY <1>7 DEF Behind, a
        <3>5. a + 1 <= p \/ p = n
            BY <1>7, <1>9, <2>1 DEF NoMatch
        <3> HIDE DEF p, K, L
        <3> QED BY <1>7, <1>9, <1>10, <2>2, <3>2, <3>3, <3>4, <3>5
    <2>3. CASE why # "eof"
        <3>1. /\ IsFiniteSet(RowTail) /\ Cardinality(RowTail) \in Nat
              /\ RowTail \subseteq Needed(Passed) /\ RowTail \cap Kept = {}
              /\ Read <= K + Cardinality(RowTail) + a + 1 + Answered
            BY <1>2, <1>9, <1>14, <2>3, ReadOn DEF a
        <3>2. K + Cardinality(RowTail) <= L
            BY <1>2, <2>1, <3>1, KeptGains
        <3>3. reads' = Read
            BY <1>1, <2>3 DEF Ended
        <3>4. a + 1 <= p
            BY <1>7, <1>9, <2>1, <2>3 DEF NoMatch
        <3>5. a + 1 <= n
            BY <1>7, <1>9, <2>3
        <3> HIDE DEF p, K, L
        <3> QED BY <1>7, <1>10, <3>1, <3>2, <3>3, <3>4, <3>5
    <2> QED BY <2>2, <2>3
<1> QED BY <1>11, <1>12, <1>13, <1>14

\* A walk that moves pays for the byte behind it: with the point it was read
\* from, or as the byte behind the walk's beginning or its last accept.
LEMMA LedgerMoves ==
    ASSUME LInv, CInv', Moves
    PROVE  Ledger'
<1> USE DEF LInv, CInv
<1> DEFINE v == [Here EXCEPT !.st = NextState]
           K == Cardinality(Kept)
           a == Anchor[2]
<1>1. /\ pc = "scan" /\ w.pos < n /\ w.pos \in Nat /\ Here \in Locals /\ w \in Locals
      /\ NextState \in All /\ Here.marked = w.marked /\ Here.pos = w.pos
      /\ Here.start = w.start /\ Here.lStart = w.lStart
      /\ PreAccept => Here.last = w.pos
      /\ ~PreAccept => Here = w
      /\ w.st \in dfa.acc => w.last = w.pos
    BY StepTyped, InvFacts DEF Moves, Locals, PathHolds
<1>2. /\ v \in Locals /\ v.marked = w.marked /\ v.pos = w.pos
      /\ v.last = Here.last /\ v.lAcc = Here.lAcc /\ v.lStart = Here.lStart
      /\ v.start = w.start
    BY <1>1 DEF Locals
<1>3. /\ \/ /\ w' = [v EXCEPT !.pos = @ + 1] /\ trail' = Passed /\ pc' = "scan"
         \/ /\ w' = [v EXCEPT !.pos = @ + 1, !.last = w.pos + 1, !.lAcc = NextState]
            /\ trail' = {} /\ pc' = "scan"
         \/ w' = [v EXCEPT !.last = w.pos + 1, !.lAcc = NextState] /\ pc' = "found"
      /\ UNCHANGED <<plan, text, host, proved>> /\ reads' = Read
    BY DEF Moves
<1> HIDE DEF v
<1>4. /\ Kept' = Kept /\ n' = n /\ Answered' = Answered
      /\ ~w.marked => reads' = reads
    <2>1. reads \in Nat
        BY Counted DEF Numbers
    <2> QED BY <1>3, <2>1 DEF Kept, Needed, n, Answered, Read
<1>5. /\ K \in Nat /\ Answered \in Nat /\ reads \in Nat /\ reads' \in Nat /\ n \in Nat
      /\ reads' <= reads + 1 /\ reads <= K + w.pos + Answered
      /\ w.start \in Nat /\ w.start <= w.pos /\ a \in Nat /\ a <= w.pos
    <2>1. Numbers /\ Spent(w.pos)
        BY <1>1, Counted, WalkPaid
    <2>2. w.start \in Nat /\ w.start <= a /\ a \in Nat /\ a <= w.pos
        BY <1>1, TailNew
    <2> QED BY <1>1, <1>3, <2>1, <2>2 DEF Numbers, Spent, Read
<1>6. CASE w' = [v EXCEPT !.last = w.pos + 1, !.lAcc = NextState] /\ pc' = "found"
    <2>1. w'.last = w.pos + 1
        BY <1>1, <1>2, <1>6 DEF Locals
    <2>2. Spent(w.last + 1)'
        BY <1>1, <1>4, <1>5, <2>1 DEF Spent
    <2> QED BY <1>6, <2>2 DEF Ledger, Calling
<1>7. ASSUME pc' = "scan", w'.marked = w.marked, w'.start = w.start, w'.pos = w.pos + 1,
             w.marked => Walking'
      PROVE  Ledger'
    <2>1. ~w.marked => Spent(w.start)'
        BY <1>1, <1>4, <1>7 DEF Ledger, Spent
    <2> QED BY <1>7, <2>1 DEF Ledger, Calling
<1>8. ASSUME trail' = {}, w'.pos = w.pos + 1, Anchor'[2] \in {w.pos, w.pos + 1}
      PROVE  Walking'
    <2>1. NewTail' = {}
        BY <1>8 DEF NewTail
    <2>2. Cardinality(NewTail') = 0
        BY <2>1, FS_EmptySet
    <2>3. Behind' = w.pos + 1
        BY <1>1, <1>8 DEF Behind
    <2>4. /\ reads' <= K + 0 + (w.pos + 1) + Answered
          /\ 0 + (w.pos + 1) <= w.pos + 1
        BY <1>1, <1>5
    <2> QED BY <1>4, <1>8, <2>2, <2>3, <2>4 DEF Walking
<1>9. CASE /\ w' = [v EXCEPT !.pos = @ + 1, !.last = w.pos + 1, !.lAcc = NextState]
           /\ trail' = {} /\ pc' = "scan"
    <2>1. /\ w'.last = w.pos + 1 /\ w'.marked = w.marked /\ w'.start = w.start
          /\ w'.pos = w.pos + 1
        BY <1>1, <1>2, <1>9 DEF Locals
    <2>2. Anchor'[2] = w.pos + 1
        BY <1>1, <2>1 DEF Anchor, TailOf
    <2> QED BY <1>7, <1>8, <1>9, <2>1, <2>2
<1>10. CASE w' = [v EXCEPT !.pos = @ + 1] /\ trail' = Passed /\ pc' = "scan"
    <2>1. w' = [v EXCEPT !.pos = w.pos + 1]
        BY <1>2, <1>10
    <2>2. /\ w'.last = Here.last /\ w'.marked = w.marked /\ w'.start = w.start
          /\ w'.pos = w.pos + 1 /\ w'.lAcc = Here.lAcc /\ w'.lStart = w.lStart
        BY <1>1, <1>2, <2>1 DEF Locals
    <2>3. CASE AcceptsHere
        <3>1. trail' = {} /\ w'.last = w.pos
            BY <1>1, <1>10, <2>2, <2>3, PointFacts DEF AcceptsHere
        <3>2. Anchor'[2] = w.pos
            BY <1>1, <3>1 DEF Anchor, TailOf
        <3> QED BY <1>7, <1>8, <1>10, <2>2, <3>1, <3>2
    <2>4. CASE ~AcceptsHere
        <3>1. trail' = Walked /\ Here = w
            BY <1>1, <1>10, <2>4, PointFacts DEF AcceptsHere
        <3>2. Anchor' = Anchor
            BY <2>2, <3>1 DEF Anchor, TailOf
        <3>3. NewTail' = RowTail
            BY <1>3, <3>1, <3>2 DEF NewTail, RowTail
        <3>4. Behind' = a + 1
            BY <1>1, <1>5, <2>2, <3>2 DEF Behind
        <3>5. ASSUME w.marked PROVE Walking'
            <4>1. /\ Cardinality(RowTail) \in Nat
                  /\ Read <= K + Cardinality(RowTail) + a + 1 + Answered
                  /\ Cardinality(RowTail) + a <= w.pos
                BY <1>1, <2>4, <3>5, ReadOn
            <4> DEFINE R == Cardinality(RowTail)
            <4>2. Cardinality(NewTail') = R /\ R \in Nat
                BY <3>3, <4>1
            <4> HIDE DEF R, a, K
            <4>3. reads' <= K + R + (a + 1) + Answered /\ R + (a + 1) <= w.pos + 1
                BY <1>1, <1>3, <1>5, <4>1, <4>2 DEF R
            <4> QED BY <1>4, <2>2, <3>4, <4>2, <4>3 DEF Walking, K
        <3> QED BY <1>7, <1>10, <2>2, <3>5
    <2> QED BY <2>3, <2>4
<1> QED BY <1>3, <1>6, <1>9, <1>10

\* A search that has read nothing owes nothing.
Unread == IInv /\ reads = 0 /\ pc \in Calling \union {"outer"}
LEMMA LedgerZero == Unread => Ledger
<1> SUFFICES ASSUME Unread PROVE Ledger
    OBVIOUS
<1>1. Numbers /\ host.from \in Nat /\ w.start \in Nat
    BY Counted, Facts DEF Unread, IInv, Typed, Locals
<1>2. Spent(host.from) /\ Spent(n) /\ Spent(w.start)
    BY <1>1 DEF Unread, Spent, Numbers
<1> QED BY <1>2 DEF Unread, Ledger, Calling

\* What is paid stays paid, and so it is further on.
LEMMA StaysSpent ==
    ASSUME IInv, UNCHANGED <<plan, text, proved, reads>>, host'.answers = host.answers,
           NEW k \in Nat, Spent(k)
    PROVE  /\ \A j \in Nat : k <= j => reads' <= Cardinality(Kept') + j + Answered'
           /\ reads' <= Cardinality(Kept') + n' + Answered'
<1>1. Numbers
    BY Counted
<1>2. Kept' = Kept /\ n' = n /\ Answered' = Answered
    BY DEF Kept, Needed, n, Answered
<1> QED BY <1>1, <1>2 DEF Numbers, Spent

\* The steps between two walks of a call.
LEMMA LedgerBetween ==
    ASSUME LInv, CInv',
           \/ Attempt \/ NoMoreStarts \/ DominantAccept \/ RecordStops \/ RecordStep
           \/ SettleFound \/ SettleFailed
    PROVE  Ledger'
<1> USE DEF LInv, CInv
<1>0. /\ w \in Locals /\ n \in Nat /\ w.start \in Nat /\ w.pos \in Nat
      /\ w.last \in Nat \union {NoMatch}
    BY InvFacts DEF Locals
<1>1. CASE NoMoreStarts
    <2>1. Spent(w.start) /\ pc' = "none" /\ host' = host /\ UNCHANGED <<plan, text, proved, reads>>
        BY <1>1 DEF NoMoreStarts, Ledger
    <2>2. n \in Nat /\ n' = n /\ w.start > n
        BY <1>0, <1>1 DEF NoMoreStarts, n
    <2>3. reads' <= Cardinality(Kept') + n' + Answered'
        BY <1>0, <2>1, StaysSpent
    <2>4. Spent(n)'
        BY <2>3 DEF Spent
    <2> QED BY <2>1, <2>4 DEF Ledger, Calling
<1>2. CASE DominantAccept
    <2>1. Spent(w.pos) /\ pc = "scan" /\ w.pos < n
        BY <1>2, WalkPaid DEF DominantAccept
    <2>2. Here.last = w.pos /\ w' = Here /\ pc' = "found" /\ host' = host
          /\ UNCHANGED <<plan, text, proved, reads>>
        BY <1>2, <2>1, StepTyped, InvFacts DEF DominantAccept, Dominant
    <2>3. w'.last = w.pos /\ w.pos + 1 \in Nat /\ w.pos <= w.pos + 1
        BY <1>0, <2>2
    <2>4. /\ reads' <= Cardinality(Kept') + (w.pos + 1) + Answered'
          /\ reads' <= Cardinality(Kept') + n' + Answered'
        BY <1>0, <2>1, <2>2, <2>3, StaysSpent
    <2>5. Spent(w.last + 1)'
        BY <2>3, <2>4 DEF Spent
    <2> QED BY <2>2, <2>5 DEF Ledger, Calling
<1> DEFINE p == PassedBy
<1>3. p \in Nat
    BY <1>0 DEF PassedBy, NoMatch
<1>4. CASE RecordStops \/ RecordStep
    <2>1. Spent(PassedBy) /\ pc' \in {"record", "settle"} /\ host' = host
          /\ UNCHANGED <<plan, text, proved, reads>>
        BY <1>4 DEF RecordStops, RecordStep, Ledger
    <2>2. w' = w \/ w' = [w EXCEPT !.rs = dfa.delta[@][ByteAt(text, w.rp)], !.rp = @ + 1]
        BY <1>4 DEF RecordStops, RecordStep
    <2>3. w'.last = w.last /\ w'.pos = w.pos /\ w'.start = w.start /\ w'.why = w.why
        BY <1>0, <2>2 DEF Locals
    <2>4. PassedBy' = p
        BY <2>1, <2>3 DEF PassedBy, n
    <2>5. /\ reads' <= Cardinality(Kept') + p + Answered'
          /\ reads' <= Cardinality(Kept') + n' + Answered'
        BY <1>3, <2>1, StaysSpent
    <2>6. Spent(PassedBy)'
        BY <2>4, <2>5 DEF Spent
    <2> QED BY <2>1, <2>6 DEF Ledger, Calling
<1>5. CASE SettleFound
    <2>1. Spent(PassedBy) /\ pc' = "found" /\ host' = host /\ w' = w
          /\ UNCHANGED <<plan, text, proved, reads>> /\ p = w.last + 1
        BY <1>5 DEF SettleFound, Ledger, PassedBy
    <2>2. /\ reads' <= Cardinality(Kept') + p + Answered'
          /\ reads' <= Cardinality(Kept') + n' + Answered'
        BY <1>3, <2>1, StaysSpent
    <2>3. Spent(w.last + 1)'
        BY <2>1, <2>2 DEF Spent
    <2> QED BY <2>1, <2>3 DEF Ledger, Calling
<1>6. CASE SettleFailed
    <2>1. Spent(PassedBy) /\ host' = host /\ UNCHANGED <<plan, text, proved, reads>> /\ n' = n
        BY <1>6 DEF SettleFailed, Ledger, n
    <2>2. /\ reads' <= Cardinality(Kept') + p + Answered'
          /\ reads' <= Cardinality(Kept') + n' + Answered'
        BY <1>3, <2>1, StaysSpent
    <2>3. w.last < 0
        BY <1>6 DEF SettleFailed
    <2>4. CASE w.why = "eof" /\ plan.eofSkip /\ pc' = "none"
        <3>1. Spent(n)'
            BY <2>2 DEF Spent
        <3> QED BY <2>4, <3>1 DEF Ledger, Calling
    <2>5. CASE /\ ~(w.why = "eof" /\ plan.eofSkip)
               /\ w' = [w EXCEPT !.start = IF w.why = "dead" /\ plan.skip
                                           THEN w.pos + 1 ELSE w.start + 1]
               /\ pc' = "outer"
        <3>1. w'.start = p
            BY <1>0, <2>3, <2>5 DEF Locals, PassedBy, NoMatch
        <3>2. Spent(w.start)'
            BY <2>2, <3>1 DEF Spent
        <3> QED BY <2>5, <3>2 DEF Ledger, Calling
    <2>6. \/ w.why = "eof" /\ plan.eofSkip /\ pc' = "none"
          \/ /\ ~(w.why = "eof" /\ plan.eofSkip)
             /\ w' = [w EXCEPT !.start = IF w.why = "dead" /\ plan.skip
                                         THEN w.pos + 1 ELSE w.start + 1]
             /\ pc' = "outer"
        BY <1>0, <1>6, Zenon DEF SettleFailed, Locals
    <2> QED BY <2>4, <2>5, <2>6
<1>7. CASE Attempt
    <2>1. PICK s \in w.start..n :
            LET q == Begins(dfa, text, s)
            IN  /\ w' = [w EXCEPT !.start = s, !.pos = s, !.st = q,
                                  !.last = IF Accepting(q, s) THEN s ELSE NoMatch,
                                  !.lAcc = q, !.lStart = s]
                /\ pc' = IF q \in dfa.imm THEN "found" ELSE "scan"
        BY <1>7 DEF Attempt
    <2> DEFINE q == Begins(dfa, text, s)
               last == IF Accepting(q, s) THEN s ELSE NoMatch
    <2>2. /\ w' = [w EXCEPT !.start = s, !.pos = s, !.st = q, !.last = last,
                            !.lAcc = q, !.lStart = s]
          /\ last \in {s, NoMatch} /\ s \in Nat /\ w.start <= s /\ s <= n
          /\ pc' \in {"found", "scan"} /\ (pc' = "found" => last = s)
        <3>1. \A d \in Automata : d.imm \subseteq d.acc
            BY AutomataAssumption
        <3>2. q \in dfa.imm => last = s
            BY <3>1, Facts DEF Accepting, IInv, Typed
        <3> QED BY <1>0, <2>1, <3>2
    <2> HIDE DEF q, last
    <2>3. /\ w'.start = s /\ w'.pos = s /\ w'.last = last /\ w'.lStart = s
          /\ w'.marked = w.marked
        BY <1>0, <2>2 DEF Locals
    <2>4. Spent(w.start) /\ host' = host /\ UNCHANGED <<plan, text, proved, reads>>
          /\ trail' = {}
        BY <1>7 DEF Attempt, Ledger
    <2>5. /\ reads' <= Cardinality(Kept') + s + Answered'
          /\ reads' <= Cardinality(Kept') + (s + 1) + Answered'
          /\ reads' <= Cardinality(Kept') + n' + Answered'
        <3>1. s + 1 \in Nat /\ w.start <= s + 1
            BY <1>0, <2>2
        <3> QED BY <1>0, <2>2, <2>4, <3>1, StaysSpent
    <2>6. CASE pc' = "found"
        <3>1. Spent(w.last + 1)'
            BY <2>2, <2>3, <2>5, <2>6 DEF Spent
        <3> QED BY <2>6, <3>1 DEF Ledger, Calling
    <2>7. CASE pc' = "scan"
        <3>1. Spent(w.start)'
            BY <2>3, <2>5 DEF Spent
        <3>2. Anchor'[2] = s
            BY <2>2, <2>3 DEF Anchor, TailOf, NoMatch
        <3>3. Behind' = s + 0
            BY <2>2, <2>3, <3>2 DEF Behind
        <3>4. Cardinality(NewTail') = 0
            <4>1. NewTail' = {}
                BY <2>4 DEF NewTail
            <4> QED BY <4>1, FS_EmptySet
        <3>5. Numbers'
            BY Counted, PTL
        <3>6. Walking'
            BY <2>2, <2>3, <2>5, <3>3, <3>4, <3>5 DEF Walking, Numbers
        <3> QED BY <2>7, <3>1, <3>6 DEF Ledger, Calling
    <2> QED BY <2>2, <2>6, <2>7
<1> QED BY <1>1, <1>2, <1>4, <1>5, <1>6, <1>7

\* A call's two ends, and the calls that only set out.
LEMMA LedgerCall ==
    ASSUME LInv, CInv', dfa.rule # "seed",
           \/ Host \/ EnterMarked \/ EnterOrdinary \/ CheckFirst \/ CheckSame \/ CheckOther
           \/ None \/ ReuseBlock
    PROVE  Ledger'
<1> USE DEF LInv, CInv, Calling
<1> DEFINE due == IF host.status = "driving" THEN host.from ELSE n
<1>0. /\ w \in Locals /\ n \in Nat /\ host.from \in Nat /\ due \in Nat /\ host \in Hosts
      /\ pc \in {"entry", "check"} => host.status = "driving" /\ w.start = host.from
    BY InvFacts, Facts DEF IInv, Typed, TypeOK, KInv, OneSearch, Starts
<1>1. ASSUME Spent(due), UNCHANGED <<plan, text, proved, reads>>,
             host'.answers = host.answers, host'.from = host.from,
             host'.status = host.status \/ host'.status # "driving",
             pc' \in Calling
      PROVE  Ledger'
    <2>1. due <= due /\ n' = n
        BY <1>0, <1>1 DEF n
    <2>2. /\ reads' <= Cardinality(Kept') + due + Answered'
          /\ reads' <= Cardinality(Kept') + n' + Answered'
        BY <1>0, <1>1, <2>1, StaysSpent
    <2>3. due' \in {due, n'}
        BY <1>1, <2>1
    <2>4. Spent(due)'
        BY <2>2, <2>3 DEF Spent
    <2> QED BY <1>1, <2>4 DEF Ledger
<1>2. CASE Host
    <2>1. pc \in Calling /\ pc' \in Calling /\ UNCHANGED <<plan, text, proved, reads>>
        BY <1>2 DEF Host, CallFind, PastTheEnd, Allocate, AllocationFails, NothingToAllocate
    <2>2. /\ host'.answers = host.answers /\ host'.from = host.from
          /\ host'.status = host.status \/ host'.status # "driving"
        BY <1>0, <1>2
        DEF Host, CallFind, PastTheEnd, Allocate, AllocationFails, NothingToAllocate, Hosts
    <2> QED BY <1>1, <2>1, <2>2 DEF Ledger
<1>3. CASE EnterMarked
    BY <1>1, <1>3 DEF EnterMarked, Ledger
<1>4. CASE EnterOrdinary \/ CheckSame
    <2>1. /\ pc \in {"entry", "check"} /\ pc' = "outer"
          /\ UNCHANGED <<plan, text, proved, reads, host, w>>
        BY <1>4 DEF EnterOrdinary, CheckSame
    <2>2. Spent(w.start) /\ w.start \in Nat /\ w.start <= w.start
        BY <1>0, <2>1 DEF Ledger
    <2>3. Spent(w.start)'
        BY <2>1, <2>2, StaysSpent DEF Spent
    <2> QED BY <2>1, <2>3 DEF Ledger
<1>5. CASE CheckFirst \/ CheckOther \/ ReuseBlock
    <2>1. reads' = 0
        BY <1>5, NeverOther DEF CheckFirst, CheckOther, ReuseBlock, SeenInv
    <2>2. pc' \in Calling \union {"outer"}
        BY <1>5 DEF CheckFirst, CheckOther, ReuseBlock
    <2>3. Unread'
        BY <2>1, <2>2 DEF Unread
    <2> QED BY <2>3, LedgerZero, PTL
<1>6. CASE None
    <2>1. Spent(n) /\ n <= n /\ pc' = "host" /\ UNCHANGED <<plan, text, proved, reads>>
        BY <1>0, <1>6 DEF None, Ledger
    <2>2. host'.answers = host.answers /\ host'.status = "done"
        BY <1>0, <1>6 DEF None, Hosts
    <2>3. Spent(n)'
        BY <1>0, <2>1, <2>2, StaysSpent DEF Spent
    <2> QED BY <2>1, <2>2, <2>3 DEF Ledger
<1> QED BY <1>2, <1>3, <1>4, <1>5, <1>6

\* A match pays for the byte behind it with its answer, an empty one by the
\* position it gives up.
LEMMA LedgerFound ==
    ASSUME LInv, CInv', Found
    PROVE  Ledger'
<1> USE DEF LInv, CInv
<1>1. /\ w \in Locals /\ n \in Nat /\ w.start \in Nat /\ w.last \in Nat
      /\ host \in Hosts /\ host.answers \in Seq(Nat \X Nat)
    BY InvFacts, Facts DEF Found, IInv, Typed, TypeOK, Placed, Locals, NoMatch
<1>2. /\ Spent(w.last + 1) /\ pc' = "after" /\ UNCHANGED <<plan, text, proved, reads>>
      /\ n' = n /\ Kept' = Kept
    BY DEF Found, Ledger, Kept, Needed, n
<1>3. /\ host'.from = ResumeAfter(w.start, w.last) /\ host'.status = host.status
      /\ host'.answers = IF w.start = w.last /\ w.start = host.prevEnd THEN host.answers
                         ELSE Append(host.answers, <<w.start, w.last>>)
    BY <1>1 DEF Found, Hosts
<1>4. /\ Answered \in Nat /\ Answered <= Answered' /\ Answered' \in Nat
      /\ w.last > w.start => Answered' = Answered + 1
    <2>1. CASE w.start = w.last /\ w.start = host.prevEnd
        BY <1>1, <1>3, <2>1 DEF Answered
    <2>2. CASE ~(w.start = w.last /\ w.start = host.prevEnd)
        <3>1. Len(host'.answers) = Len(host.answers) + 1 /\ Len(host.answers) \in Nat
            BY <1>1, <1>3, <2>2
        <3> QED BY <3>1 DEF Answered
    <2> QED BY <2>1, <2>2
<1>5. Numbers
    BY Counted
<1> DEFINE K == Cardinality(Kept)
           go == ResumeAfter(w.start, w.last)
<1>6. /\ K \in Nat /\ reads \in Nat /\ reads <= K + (w.last + 1) + Answered
      /\ reads <= K + n + Answered
    BY <1>2, <1>5 DEF Numbers, Spent
<1>7. reads <= K + go + Answered' /\ reads <= K + n + Answered'
    <2>1. PICK was, now : was = Answered /\ now = Answered'
        OBVIOUS
    <2>2. /\ was \in Nat /\ now \in Nat /\ was <= now /\ (w.last > w.start => now = was + 1)
          /\ reads <= K + (w.last + 1) + was /\ reads <= K + n + was
        BY <1>4, <1>6, <2>1
    <2> HIDE DEF K, go
    <2>3. go = IF w.last > w.start THEN w.last ELSE w.start + 1
        BY DEF go, ResumeAfter
    <2>4. reads <= K + go + now
        <3>1. CASE w.last > w.start
            BY <1>1, <1>6, <2>2, <2>3, <3>1
        <3>2. CASE ~(w.last > w.start)
            BY <1>1, <1>6, <2>2, <2>3, <3>2
        <3> QED BY <3>1, <3>2
    <2>5. reads <= K + n + now
        BY <1>1, <1>6, <2>2
    <2> QED BY <2>1, <2>4, <2>5
<1>8. Spent(host.from)' /\ Spent(n)'
    BY <1>2, <1>3, <1>7 DEF Spent
<1> QED BY <1>2, <1>8 DEF Ledger, Calling

\* Every step keeps the ledger.
LEMMA LedgerNext ==
    ASSUME \A d \in Automata : d.rule # "seed"
    PROVE  LInv /\ [Next]_vars => LInv'
<1> SUFFICES ASSUME LInv, [Next]_vars PROVE Ledger'
    BY CompleteNext, KeptNext, SeenNext DEF LInv
<1>1. CInv' /\ dfa.rule # "seed"
    BY CompleteNext, InvFacts DEF LInv, CInv, IInv, Typed, TypeOK
<1>2. CASE UNCHANGED vars
    BY <1>2 DEF vars, LInv, Ledger, Spent, Walking, Kept, Needed, NewTail, Behind, Anchor,
       TailOf, Answered, PassedBy, n, Calling
<1> QED BY <1>1, <1>2, LedgerEnds, LedgerMoves, LedgerBetween, LedgerCall, LedgerFound
        DEF Next, Call

\* A search that has its notes is linear: for every pattern and text whose find
\* does not round its start, the bytes the marked copy reads in the states of its
\* rows are at most those of the text, once, each row's points, once, and one for
\* each answer -- whatever the order of walks, notes, resets and matches.
THEOREM ArmedSearchLinear ==
    ASSUME \A d \in Automata : d.rule # "seed"
    PROVE  Spec => []MarkedLinear
<1>1. Init => LInv
    <2> SUFFICES ASSUME Init PROVE LInv
        OBVIOUS
    <2>1. CInv /\ KInv /\ SeenInv
        BY CompleteInit, KeptInit, SeenInit DEF KInv, CInv
    <2>2. Unread
        BY <2>1 DEF Unread, CInv, Init, Calling
    <2> QED BY <2>1, <2>2, LedgerZero DEF LInv
<1>2. LInv => MarkedLinear
    <2> SUFFICES ASSUME LInv PROVE MarkedLinear
        OBVIOUS
    <2>1. Numbers
        BY Counted DEF LInv, CInv
    <2>2. pc \in {"host", "entry", "check", "after", "outer", "scan", "record", "settle",
                  "found", "none"}
        BY DEF LInv, CInv, IInv, Typed, TypeOK
    <2>3. \E k : Spent(k)
        BY <2>2, WalkPaid DEF LInv, Ledger, Calling
    <2>4. reads <= Cardinality(Kept) + n + Answered
        BY <2>3 DEF Spent
    <2> DEFINE K == Cardinality(Kept)
               P == Cardinality(plan.rows) * n
    <2>5. K \in Nat /\ P \in Nat /\ K <= P /\ reads <= K + n + Answered
        BY <2>1, <2>4 DEF Numbers
    <2> HIDE DEF K, P
    <2>6. reads <= n + P + Answered
        BY <2>1, <2>5 DEF Numbers
    <2> QED BY <2>6 DEF MarkedLinear, P, Answered
<1> QED BY <1>1, <1>2, LedgerNext, PTL DEF Spec
-----------------------------------------------------------------------------
(* The drive reports the leftmost matches: what a running call knows of the  *)
(* positions it has left behind.                                             *)

RawAt(s) == Raw(dfa, text, s)
MatchFrom(p, q, last) == WalkEnd(dfa, text)[<<p, q, last>>]

\* A call runs while the iterator is driven, from the position rounded up.
Driven == pc # "host" => host.status = "driving"
Rounded == pc \in {"entry", "check"} => w.start = Seed(dfa, text, host.from)

\* No match begins where the call is past.
Trying == {"scan", "record", "settle", "found"}
Searched ==
    pc \in {"entry", "check", "outer"} \union Trying =>
        /\ Seed(dfa, text, host.from) <= w.start
        /\ \A k \in host.from..(w.start - 1) : k <= n => table[k] = NoMatch
Exhausted == pc = "none" => \A k \in 0..n : host.from <= k => table[k] = NoMatch

\* The walk's match is the start's.
TriedHere ==
    pc \in Trying => w.start <= n /\ ~(dfa.rule = "scan" /\ Inside(text, w.start))
WalkTrue ==
    pc = "scan" => w.last <= w.pos /\ MatchFrom(w.pos, w.st, w.last) = RawAt(w.start)
ResultTrue == pc \in {"record", "settle", "found"} => w.last = RawAt(w.start)

\* Where a walk that dies skips: until then it read class bytes in one state, as
\* any walk begun meanwhile would.
SkipHolds ==
    pc = "scan" /\ plan.skip /\ w.last = NoMatch =>
        /\ w.pos = w.start => w.st \in Entries(dfa)
        /\ w.pos # w.start => w.st = SkipTo(dfa)
        /\ \A k \in (w.start + 1)..(w.pos - 1) :
              RawAt(k) \in {NoMatch, MatchFrom(w.pos, w.st, NoMatch)}
SkipDone ==
    pc \in {"record", "settle"} /\ w.why = "dead" /\ plan.skip /\ w.last = NoMatch =>
        /\ w.start <= w.pos /\ w.pos < n
        /\ \A k \in (w.start + 1)..w.pos : RawAt(k) = NoMatch

\* Where a walk that reads to the end skips: all it read were class bytes.
EofHolds ==
    pc = "scan" /\ plan.eofSkip /\ w.last = NoMatch =>
        /\ \A j \in w.start..(w.pos - 1) : ByteAt(text, j) \in SkipClass(dfa)
        /\ \/ w.st \in ChainOf(dfa)
           \/ w.pos = w.start /\ \A c \in Bytes : dfa.delta[w.st][c] = Dead
EofDone ==
    pc \in {"record", "settle"} /\ w.why = "eof" /\ plan.eofSkip /\ w.last = NoMatch =>
        \A k \in (w.start + 1)..n : RawAt(k) = NoMatch

DriveHolds == /\ Driven /\ Rounded /\ Searched /\ Exhausted
              /\ TriedHere /\ WalkTrue /\ ResultTrue
              /\ SkipHolds /\ SkipDone /\ EofHolds /\ EofDone
DInv == CInv /\ DriveHolds

\* The pattern and the text, as the lemmas on automata take them.
LEMMA Given ==
    ASSUME TypeOK
    PROVE  /\ dfa \in Automaton /\ dfa \in Automata
           /\ dfa.imm \subseteq dfa.acc /\ dfa.acc \subseteq dfa.eof
           /\ dfa.begin => dfa.start \in dfa.eof
           /\ dfa.rule \in {"none", "seed", "scan"}
           /\ Readable(text) /\ n = LenOf(text) /\ n \in Nat
           /\ table = Table(dfa, text)
           /\ plan.skip = SkipSafeOnDead(dfa) /\ plan.eofSkip = EofSkipSafe(dfa)
           /\ plan.first = FirstBytes(dfa)
<1>1. dfa \in Automata /\ text \in Texts /\ n = LenOf(text) /\ plan = Plan(dfa) /\ table = Table(dfa, text)
    BY DEF TypeOK, n
<1>2. /\ dfa \in Automaton
      /\ dfa.imm \subseteq dfa.acc /\ dfa.acc \subseteq dfa.eof
      /\ dfa.begin => dfa.start \in dfa.eof
    BY <1>1, AutomataAssumption
<1>3. dfa.rule \in {"none", "seed", "scan"}
    BY <1>2 DEF Automaton
<1>4. Readable(text) /\ n \in Nat
    BY <1>1, TextTyped DEF Readable
<1>5. plan.skip = SkipSafeOnDead(dfa) /\ plan.eofSkip = EofSkipSafe(dfa) /\ plan.first = FirstBytes(dfa)
    BY <1>1 DEF Plan
<1> QED BY <1>1, <1>2, <1>3, <1>4, <1>5

\* What the table says of a position.
LEMMA TableIs ==
    ASSUME TypeOK, NEW k \in 0..n
    PROVE  /\ DOMAIN table = 0..n
           /\ dfa.rule # "none" /\ Inside(text, k) => table[k] = NoMatch
           /\ ~(dfa.rule # "none" /\ Inside(text, k)) => table[k] = RawAt(k)
           /\ RawAt(k) = NoMatch => table[k] = NoMatch
           /\ RawAt(k) \in -1..n
<1>1. table = [s \in 0..n |-> IF dfa.rule # "none" /\ Inside(text, s) THEN NoMatch ELSE RawAt(s)]
    BY Given DEF Table, RawAt
<1>2. RawAt(k) \in -1..n
    BY Given, RawTyped DEF RawAt
<1> QED BY <1>1, <1>2

\* Where a search is rounded up, nothing begins at the position rounded.
LEMMA RoundedUp ==
    ASSUME TypeOK, NEW from \in Nat
    PROVE  /\ Seed(dfa, text, from) \in Nat /\ from <= Seed(dfa, text, from)
           /\ \A k \in from..(Seed(dfa, text, from) - 1) : k <= n => table[k] = NoMatch
<1>1. CASE dfa.rule = "seed" /\ Inside(text, from)
    <2>1. Seed(dfa, text, from) = from + 1
        BY <1>1 DEF Seed
    <2>2. \A k \in from..(Seed(dfa, text, from) - 1) : k = from
        BY <2>1
    <2>3. from <= n => table[from] = NoMatch
        BY <1>1, Given, TableIs
    <2> QED BY <2>1, <2>2, <2>3
<1>2. CASE ~(dfa.rule = "seed" /\ Inside(text, from))
    <2>1. Seed(dfa, text, from) = from
        BY <1>2 DEF Seed
    <2> QED BY <2>1
<1> QED BY <1>1, <1>2

-----------------------------------------------------------------------------
\* When the iterator opens; between calls; and on entry.
LEMMA DriveInit == Init => DriveHolds
<1> SUFFICES ASSUME Init PROVE DriveHolds
    OBVIOUS
<1>1. pc = "host"
    BY DEF Init
<1> QED BY <1>1 DEF DriveHolds, Driven, Rounded, Searched, Trying, Exhausted, TriedHere, WalkTrue,
        ResultTrue, SkipHolds, SkipDone, EofHolds, EofDone

\* Nothing is claimed of a call that does not run.
LEMMA DriveIdle ==
    ASSUME pc' \in {"host", "after"}, pc' = "host" \/ host'.status = "driving"
    PROVE  DriveHolds'
BY DEF DriveHolds, Driven, Rounded, Searched, Trying, Exhausted, TriedHere, WalkTrue,
   ResultTrue, SkipHolds, SkipDone, EofHolds, EofDone

\* A call that has read nothing yet stands at its first position.
LEMMA DriveFresh ==
    ASSUME TypeOK, UNCHANGED <<dfa, text, table, host>>,
           pc' \in {"entry", "check", "outer"},
           host.status = "driving", w'.start = Seed(dfa, text, host.from)
    PROVE  DriveHolds'
<1>1. host.from \in Nat
    BY Facts
<1>2. Searched'
    <2> DEFINE m == Seed(dfa, text, host.from)
    <2>1. m \in Nat /\ \A k \in host.from..(m - 1) : k <= n => table[k] = NoMatch
        BY <1>1, RoundedUp
    <2>2. n' = n /\ Seed(dfa', text', host'.from) = m /\ w'.start = m /\ table' = table /\ host' = host
        BY DEF n
    <2> HIDE DEF m
    <2> QED BY <2>1, <2>2 DEF Searched
<1>3. Driven' /\ Rounded'
    BY DEF Driven, Rounded
<1> QED BY <1>2, <1>3 DEF DriveHolds, Trying, Exhausted, TriedHere, WalkTrue,
   ResultTrue, SkipHolds, SkipDone, EofHolds, EofDone

LEMMA DriveHost == DInv /\ Host => DriveHolds'
<1> SUFFICES ASSUME DInv, Host PROVE DriveHolds'
    OBVIOUS
<1>0. TypeOK
    BY DEF DInv, CInv, IInv, Typed
<1>1. CASE CallFind
    <2>1. /\ UNCHANGED <<dfa, text, table, host>> /\ pc' = "entry"
          /\ host.status = "driving"
          /\ w'.start = Seed(dfa, text, host.from)
        BY <1>1 DEF CallFind, NoLocals
    <2> QED BY <1>0, <2>1, DriveFresh
<1>2. CASE PastTheEnd \/ Allocate \/ AllocationFails \/ NothingToAllocate
    <2>1. pc' = "host"
        BY <1>2 DEF PastTheEnd, Allocate, AllocationFails, NothingToAllocate
    <2> QED BY <2>1, DriveIdle
<1> QED BY <1>1, <1>2 DEF Host

LEMMA DriveEntry ==
    DInv /\ (EnterMarked \/ EnterOrdinary \/ CheckFirst \/ CheckSame \/ CheckOther) => DriveHolds'
<1> SUFFICES ASSUME DInv, EnterMarked \/ EnterOrdinary \/ CheckFirst \/ CheckSame \/ CheckOther
             PROVE  DriveHolds'
    OBVIOUS
<1>0. TypeOK /\ w \in Locals
    BY InvFacts DEF DInv, CInv, IInv, Typed
<1>1. pc \in {"entry", "check"} /\ pc' \in {"entry", "check", "outer"}
      /\ UNCHANGED <<dfa, text, table, host>>
    BY DEF EnterMarked, EnterOrdinary, CheckFirst, CheckSame, CheckOther
<1>2. w'.start = w.start \/ w'.start = Seed(dfa, text, host.from)
    BY <1>0 DEF EnterMarked, EnterOrdinary, CheckFirst, CheckSame, CheckOther, NoLocals, Locals
<1>3. host.status = "driving" /\ w.start = Seed(dfa, text, host.from)
    BY <1>1 DEF DInv, DriveHolds, Driven, Rounded
<1> QED BY <1>0, <1>1, <1>2, <1>3, DriveFresh

\* The scan steps over no match, and an attempt begins with its own.
LEMMA DriveStart == DInv /\ (Attempt \/ NoMoreStarts) => DriveHolds'
<1> SUFFICES ASSUME DInv, Attempt \/ NoMoreStarts PROVE DriveHolds'
    OBVIOUS
<1>0. TypeOK /\ w \in Locals /\ w.start \in Nat /\ n \in Nat /\ host.from \in Nat
    BY InvFacts, Facts DEF DInv, CInv, IInv, Typed, Locals
<1>1. /\ pc = "outer" /\ host.status = "driving"
      /\ Seed(dfa, text, host.from) <= w.start
      /\ \A k \in host.from..(w.start - 1) : k <= n => table[k] = NoMatch
    BY DEF DInv, DriveHolds, Driven, Searched, Attempt, NoMoreStarts
<1>2. UNCHANGED <<dfa, plan, text, table, host>> /\ n' = n
    BY DEF Attempt, NoMoreStarts, n
<1>s. Seed(dfa, text, host.from) \in Nat /\ host.from <= Seed(dfa, text, host.from)
    BY <1>0, RoundedUp
<1>3. CASE NoMoreStarts
    <2>1. pc' = "none" /\ w.start > n
        BY <1>3 DEF NoMoreStarts
    <2>2. Exhausted'
        BY <1>0, <1>1, <1>2, <2>1 DEF Exhausted, n
    <2> QED BY <1>1, <1>2, <2>1, <2>2 DEF DriveHolds, Driven, Rounded, Searched, Trying, TriedHere, WalkTrue,
        ResultTrue, SkipHolds, SkipDone, EofHolds, EofDone
<1>4. CASE Attempt
    <2>1. PICK s \in w.start..n :
            LET q == Begins(dfa, text, s)
            IN  /\ Candidate(s) /\ \A k \in w.start..(s - 1) : ~Candidate(k)
                /\ w' = [w EXCEPT !.start = s, !.pos = s, !.st = q,
                                  !.last = IF Accepting(q, s) THEN s ELSE NoMatch,
                                  !.lAcc = q, !.lStart = s]
                /\ pc' = IF q \in dfa.imm THEN "found" ELSE "scan"
        BY <1>4 DEF Attempt
    <2> DEFINE q == Begins(dfa, text, s)
               last == IF Accepting(q, s) THEN s ELSE NoMatch
    <2>2. /\ Candidate(s) /\ \A k \in w.start..(s - 1) : ~Candidate(k)
          /\ w' = [w EXCEPT !.start = s, !.pos = s, !.st = q, !.last = last, !.lAcc = q, !.lStart = s]
          /\ pc' = IF q \in dfa.imm THEN "found" ELSE "scan"
        BY <2>1
    <2>3. s \in Nat /\ w.start <= s /\ s <= n /\ s \in 0..n /\ last \in {s, NoMatch}
        BY <1>0, <2>1
    <2>4. /\ q \in Entries(dfa) /\ q \in All
          /\ s > 0 => ByteAt(text, s - 1) \in Bytes /\ q = dfa.mid[ByteAt(text, s - 1)]
          /\ s = 0 => q = dfa.start
        BY <1>0, <2>3, Given, BeginsEntry DEF Begins
    <2>5. RawAt(s) = IF q \in dfa.imm THEN s ELSE MatchFrom(s, q, last)
        BY DEF RawAt, Raw, MatchFrom, Accepting
    <2>6. q \in dfa.imm => last = s
        BY <1>0, Given DEF Accepting
    <2> HIDE DEF q, last
    <2>7. w'.start = s /\ w'.pos = s /\ w'.st = q /\ w'.last = last
        BY <1>0, <2>2 DEF Locals
    <2>8. ASSUME NEW k \in w.start..(s - 1) PROVE table[k] = NoMatch
        <3>1. k \in 0..n /\ k < n /\ ~Candidate(k)
            BY <1>0, <2>2, <2>3
        <3>2. CASE dfa.rule = "scan" /\ Inside(text, k)
            BY <1>0, <3>1, <3>2, TableIs
        <3>3. CASE ByteAt(text, k) \notin plan.first
            <4>1. RawAt(k) = NoMatch
                BY <1>0, <3>1, <3>3, Given, ScanSkipsNothing DEF RawAt
            <4> QED BY <1>0, <3>1, <4>1, TableIs
        <3> QED BY <3>1, <3>2, <3>3 DEF Candidate
    <2>9. Searched'
        <3>1. \A k \in host.from..(s - 1) : k \in host.from..(w.start - 1) \/ k \in w.start..(s - 1)
            BY <1>0, <2>3
        <3> DEFINE m == Seed(dfa, text, host.from)
        <3>2. m \in Nat /\ m <= w.start
            BY <1>1, <1>s
        <3> HIDE DEF m
        <3>3. m <= s
            BY <1>0, <2>3, <3>2
        <3>4. Seed(dfa, text, host.from) <= s
            BY <3>3 DEF m
        <3> QED BY <1>1, <1>2, <2>7, <2>8, <3>1, <3>4 DEF Searched
    <2>10. TriedHere'
        BY <1>2, <2>2, <2>3, <2>7 DEF TriedHere, Candidate
    <2>11. WalkTrue'
        <3> SUFFICES ASSUME pc' = "scan" PROVE WalkTrue'
            BY DEF WalkTrue
        <3>1. RawAt(s) = MatchFrom(s, q, last)
            BY <2>2, <2>5
        <3>2. last <= s
            BY <2>3 DEF NoMatch
        <3> QED BY <1>2, <2>7, <3>1, <3>2 DEF WalkTrue, RawAt, MatchFrom
    <2>12. ResultTrue'
        <3> SUFFICES ASSUME pc' \in {"record", "settle", "found"} PROVE ResultTrue'
            BY DEF ResultTrue
        <3>1. q \in dfa.imm
            BY <2>2
        <3> QED BY <1>2, <2>5, <2>6, <2>7, <3>1 DEF ResultTrue, RawAt
    <2>13. SkipHolds'
        <3>1. (s + 1)..(s - 1) = {}
            BY <2>3
        <3> QED BY <1>2, <2>4, <2>7, <3>1 DEF SkipHolds
    <2>14. EofHolds'
        <3> SUFFICES ASSUME plan.eofSkip PROVE EofHolds'
            BY <1>2 DEF EofHolds
        <3>1. s..(s - 1) = {}
            BY <2>3
        <3>2. ~dfa.bound /\ ChainShape(dfa, ChainOf(dfa))
            BY <1>0, Given, StatesAssumption, ChainShaped
        <3>3. dfa.midStart \in ChainOf(dfa)
              /\ (dfa.start = dfa.midStart \/ \A c \in Bytes : dfa.delta[dfa.start][c] = Dead)
            BY <3>2 DEF ChainShape
        <3>4. \A c \in Bytes : dfa.mid[c] = dfa.midStart
            BY <1>0, <3>2, Given, AutomataAssumption
        <3>5. q = dfa.midStart \/ q = dfa.start
            BY <2>3, <2>4, <3>4
        <3> QED BY <1>2, <2>7, <3>1, <3>3, <3>5 DEF EofHolds
    <2>15. pc' \in {"found", "scan"}
        BY <2>2
    <2> QED BY <1>1, <1>2, <2>9, <2>10, <2>11, <2>12, <2>13, <2>14, <2>15
            DEF DriveHolds, Driven, Rounded, Exhausted, SkipDone, EofDone
<1> QED BY <1>3, <1>4

-----------------------------------------------------------------------------
(* A walk. *)

LEMMA WalkFacts ==
    ASSUME DInv, pc = "scan"
    PROVE  /\ TypeOK /\ Typed /\ IInv /\ PathHolds /\ w \in Locals /\ n \in Nat
           /\ w.pos \in 0..n /\ w.st \in All /\ w.last \in -1..n /\ w.last <= w.pos
           /\ w.start \in 0..n /\ w.start <= w.pos
           /\ MatchFrom(w.pos, w.st, w.last) = RawAt(w.start)
           /\ host.status = "driving"
<1>1. /\ TypeOK /\ Typed /\ IInv /\ PathHolds /\ w \in Locals /\ n \in Nat
      /\ w.pos \in Nat /\ w.pos <= n
    BY InvFacts, PointFacts DEF DInv, CInv, IInv, Typed
<1>2. w.last <= w.pos /\ MatchFrom(w.pos, w.st, w.last) = RawAt(w.start) /\ w.start <= n
      /\ host.status = "driving"
    BY DEF DInv, DriveHolds, WalkTrue, TriedHere, Trying, Driven
<1>3. /\ w.st \in All /\ w.start \in Nat /\ w.last \in Nat \union {NoMatch} /\ w.lStart \in Nat
    BY <1>1 DEF Locals
<1>4. Anchor[2] = IF w.last >= 0 THEN w.last ELSE w.lStart
    BY DEF Anchor, TailOf
<1>5. w.start <= Anchor[2] /\ Anchor[2] <= w.pos
    BY <1>1 DEF PathHolds
<1>6. Anchor[2] \in Nat
    BY <1>3, <1>4 DEF NoMatch
<1>7. w.start <= w.pos
    BY <1>1, <1>3, <1>5, <1>6
<1>8. w.last \in -1..n
    BY <1>1, <1>2, <1>3 DEF NoMatch
<1> QED BY <1>1, <1>2, <1>3, <1>7, <1>8

\* Where the walk's match is after a byte.
LEMMA WalkGoes ==
    ASSUME DInv, pc = "scan", w.pos < n
    PROVE  /\ w.pos \in 0..n /\ w.pos # n /\ w.pos + 1 \in 0..n
           /\ ByteAt(text, w.pos) \in Bytes /\ NextState \in All
           /\ Here.last = IF PreAccept THEN w.pos ELSE w.last
           /\ Here.last \in -1..n /\ Here.last <= w.pos
           /\ Here \in Locals /\ Here.pos = w.pos /\ Here.start = w.start
           /\ RawAt(w.start) = IF NextState = Dead \/ Dominant THEN Here.last
                               ELSE IF NextState \in dfa.imm THEN w.pos + 1
                               ELSE MatchFrom(w.pos + 1, NextState,
                                       IF NextState \in dfa.acc THEN w.pos + 1 ELSE Here.last)
<1>1. /\ TypeOK /\ Typed /\ w \in Locals /\ n \in Nat /\ n = LenOf(text)
      /\ w.pos \in 0..n /\ w.st \in All /\ w.last \in -1..n /\ w.last <= w.pos
      /\ MatchFrom(w.pos, w.st, w.last) = RawAt(w.start)
    BY WalkFacts DEF n
<1>2. /\ NextState \in All /\ ByteAt(text, w.pos) \in Bytes
      /\ Here \in Locals /\ Here.pos = w.pos /\ Here.start = w.start
      /\ Here.last = IF PreAccept THEN w.pos ELSE w.last
    BY <1>1, StepTyped
<1>3. w.pos # n /\ w.pos + 1 \in 0..n
    BY <1>1
<1>4. Here.last \in -1..n /\ Here.last <= w.pos
    BY <1>1, <1>2
<1>5. <<w.pos, w.st, w.last>> \in Spots(text)
    BY <1>1 DEF Spots
<1> DEFINE E == WalkEnd(dfa, text)
<1>6. E[<<w.pos, w.st, w.last>>] = WalkOn(dfa, text, E, <<w.pos, w.st, w.last>>)
    BY <1>1, <1>5, Given, WalkDefined
<1> HIDE DEF E
<1>7. WalkOn(dfa, text, E, <<w.pos, w.st, w.last>>) =
            IF NextState = Dead \/ Dominant THEN Here.last
            ELSE IF NextState \in dfa.imm THEN w.pos + 1
            ELSE E[<<w.pos + 1, NextState, IF NextState \in dfa.acc THEN w.pos + 1 ELSE Here.last>>]
    BY <1>1, <1>2, <1>3 DEF WalkOn, NextState, Dominant, PreAccept
<1> QED BY <1>1, <1>2, <1>3, <1>4, <1>6, <1>7 DEF MatchFrom, E

\* A walk that reads a byte and goes on unaccepting keeps to the skip's shape, and
\* every walk begun since its start comes to where it stands.
LEMMA SkipMoves ==
    ASSUME DInv, pc = "scan", plan.skip, w.last = NoMatch, w.pos < n,
           ~PreAccept, NextState # Dead, NextState \notin dfa.acc
    PROVE  /\ NextState = SkipTo(dfa)
           /\ \A k \in (w.start + 1)..w.pos :
                 RawAt(k) \in {NoMatch, MatchFrom(w.pos + 1, NextState, NoMatch)}
<1>1. /\ TypeOK /\ n \in Nat /\ n = LenOf(text) /\ w.pos \in 0..n /\ w.st \in All
      /\ w.start \in 0..n /\ w.start <= w.pos /\ NoMatch \in -1..n
    BY WalkFacts DEF n, NoMatch
<1>2. /\ w.pos # n /\ ByteAt(text, w.pos) \in Bytes /\ NextState \in All
    BY WalkGoes
<1>3. /\ dfa \in Automaton /\ dfa.imm \subseteq dfa.acc /\ Readable(text)
      /\ SkipShape(dfa, SkipTo(dfa)) /\ SkipTo(dfa) \in States
    BY <1>1, Given, SkipShaped, StateAssumption
<1>4. /\ w.pos = w.start => w.st \in Entries(dfa)
      /\ w.pos # w.start => w.st = SkipTo(dfa)
      /\ \A k \in (w.start + 1)..(w.pos - 1) :
            RawAt(k) \in {NoMatch, MatchFrom(w.pos, w.st, NoMatch)}
    BY DEF DInv, DriveHolds, SkipHolds
<1> DEFINE succ == SkipTo(dfa)
           c == ByteAt(text, w.pos)
<1>5. NextState = dfa.delta[w.st][c] /\ c \notin dfa.pre[w.st]
    BY DEF NextState, PreAccept
<1>6. c \in SkipClass(dfa) /\ NextState = succ
    <2>1. CASE w.pos = w.start
        BY <1>2, <1>3, <1>4, <1>5, <2>1 DEF SkipShape
    <2>2. CASE w.pos # w.start
        BY <1>2, <1>3, <1>4, <1>5, <2>2 DEF SkipShape
    <2> QED BY <2>1, <2>2
<1>7. MatchFrom(w.pos, w.st, NoMatch) = MatchFrom(w.pos + 1, NextState, NoMatch)
    BY <1>1, <1>2, <1>3, <1>5, EndsNext DEF MatchFrom
<1>8. ASSUME NEW k \in (w.start + 1)..w.pos
      PROVE  RawAt(k) \in {NoMatch, MatchFrom(w.pos + 1, NextState, NoMatch)}
    <2>1. CASE k # w.pos
        <3>1. k \in (w.start + 1)..(w.pos - 1)
            BY <1>1, <2>1
        <3> QED BY <1>4, <1>7, <3>1
    <2>2. CASE k = w.pos
        <3> DEFINE e == Begins(dfa, text, w.pos)
        <3>1. e \in Entries(dfa) /\ e \in All
            BY <1>1, <1>3, BeginsEntry
        <3>2. w.pos > 0
            BY <1>1, <2>2
        <3>3. /\ e \notin dfa.acc /\ c \notin dfa.pre[e]
              /\ \/ dfa.delta[e][c] = Dead
                 \/ dfa.delta[e][c] = succ
            BY <1>2, <1>3, <1>6, <3>1 DEF SkipShape
        <3>4. CASE dfa.delta[e][c] = Dead
            BY <1>1, <1>2, <1>3, <2>2, <3>2, <3>3, <3>4, RawDies DEF RawAt
        <3>5. CASE dfa.delta[e][c] = succ
            <4>1. RawAt(w.pos) = MatchFrom(w.pos, e, NoMatch)
                BY <1>3, <3>2, <3>3, RawPlain DEF RawAt, MatchFrom
            <4> HIDE DEF e
            <4>2. MatchFrom(w.pos, e, NoMatch) = MatchFrom(w.pos + 1, succ, NoMatch)
                BY <1>1, <1>2, <1>3, <1>6, <3>1, <3>3, <3>5, EndsNext DEF MatchFrom
            <4> QED BY <1>6, <2>2, <4>1, <4>2
        <3> QED BY <3>3, <3>4, <3>5
    <2> QED BY <2>1, <2>2
<1> QED BY <1>6, <1>8

\* A walk that dies with no accept shows that none begun since matches.
LEMMA SkipDies ==
    ASSUME DInv, pc = "scan", plan.skip, w.last = NoMatch, w.pos < n,
           ~PreAccept, NextState = Dead
    PROVE  \A k \in (w.start + 1)..w.pos : RawAt(k) = NoMatch
<1>1. /\ TypeOK /\ n \in Nat /\ n = LenOf(text) /\ w.pos \in 0..n /\ w.st \in All
      /\ w.start \in 0..n /\ w.start <= w.pos /\ NoMatch \in -1..n
    BY WalkFacts DEF n, NoMatch
<1>2. /\ w.pos # n /\ ByteAt(text, w.pos) \in Bytes
    BY WalkGoes
<1>3. /\ dfa \in Automaton /\ dfa.imm \subseteq dfa.acc /\ Readable(text)
      /\ SkipShape(dfa, SkipTo(dfa)) /\ SkipTo(dfa) \in States
    BY <1>1, Given, SkipShaped, StateAssumption
<1>4. /\ w.pos # w.start => w.st = SkipTo(dfa)
      /\ \A k \in (w.start + 1)..(w.pos - 1) :
            RawAt(k) \in {NoMatch, MatchFrom(w.pos, w.st, NoMatch)}
    BY DEF DInv, DriveHolds, SkipHolds
<1> DEFINE c == ByteAt(text, w.pos)
<1>5. dfa.delta[w.st][c] = Dead /\ c \notin dfa.pre[w.st]
    BY DEF NextState, PreAccept
<1>6. MatchFrom(w.pos, w.st, NoMatch) = NoMatch
    BY <1>1, <1>2, <1>3, <1>5, EndsDead DEF MatchFrom
<1>7. ASSUME NEW k \in (w.start + 1)..w.pos PROVE RawAt(k) = NoMatch
    <2>1. CASE k # w.pos
        <3>1. k \in (w.start + 1)..(w.pos - 1)
            BY <1>1, <2>1
        <3> QED BY <1>4, <1>6, <3>1
    <2>2. CASE k = w.pos
        <3> DEFINE e == Begins(dfa, text, w.pos)
        <3>1. e \in Entries(dfa)
            BY <1>1, <1>3, BeginsEntry
        <3>2. w.pos > 0 /\ w.pos # w.start
            BY <1>1, <2>2
        <3>3. w.st = SkipTo(dfa) /\ w.st # Dead
            BY <1>3, <1>4, <3>2 DEF SkipShape
        <3>4. c \notin SkipClass(dfa)
            BY <1>2, <1>3, <1>5, <3>3 DEF SkipShape
        <3>5. e \notin dfa.acc /\ c \notin dfa.pre[e] /\ dfa.delta[e][c] = Dead
            BY <1>2, <1>3, <3>1, <3>4 DEF SkipShape
        <3> QED BY <1>1, <1>2, <1>3, <2>2, <3>2, <3>5, RawDies DEF RawAt
    <2> QED BY <2>1, <2>2
<1> QED BY <1>7

\* The chain of the end-of-text skip: a walk that goes on unaccepting keeps to it,
\* and reads a class byte.
LEMMA EofMoves ==
    ASSUME DInv, pc = "scan", plan.eofSkip, w.last = NoMatch, w.pos < n,
           NextState # Dead, NextState \notin dfa.acc
    PROVE  /\ NextState \in ChainOf(dfa)
           /\ \A j \in w.start..w.pos : ByteAt(text, j) \in SkipClass(dfa)
<1>1. /\ TypeOK /\ n \in Nat /\ w.pos \in 0..n /\ w.start \in 0..n /\ w.start <= w.pos
    BY WalkFacts
<1>2. ByteAt(text, w.pos) \in Bytes
    BY WalkGoes
<1>3. ChainShape(dfa, ChainOf(dfa))
    BY <1>1, Given, StatesAssumption, ChainShaped
<1>4. /\ \A j \in w.start..(w.pos - 1) : ByteAt(text, j) \in SkipClass(dfa)
      /\ \/ w.st \in ChainOf(dfa)
         \/ w.pos = w.start /\ \A c \in Bytes : dfa.delta[w.st][c] = Dead
    BY DEF DInv, DriveHolds, EofHolds
<1>5. w.st \in ChainOf(dfa)
    BY <1>2, <1>4 DEF NextState
<1>6. ByteAt(text, w.pos) \in SkipClass(dfa) /\ NextState \in ChainOf(dfa)
    BY <1>2, <1>3, <1>5 DEF ChainShape, NextState
<1>7. \A j \in w.start..w.pos : j = w.pos \/ j \in w.start..(w.pos - 1)
    BY <1>1
<1> QED BY <1>4, <1>6, <1>7

\* At the end of the text no walk from a later start matches: all of them read
\* class bytes only.
LEMMA EofEnds ==
    ASSUME DInv, pc = "scan", plan.eofSkip, w.last = NoMatch, w.pos = n
    PROVE  \A k \in (w.start + 1)..n : RawAt(k) = NoMatch
<1> SUFFICES ASSUME NEW k \in (w.start + 1)..n PROVE RawAt(k) = NoMatch
    OBVIOUS
<1>1. /\ TypeOK /\ n \in Nat /\ n = LenOf(text) /\ w.pos \in 0..n
      /\ w.start \in 0..n /\ w.start <= w.pos /\ NoMatch \in -1..n
    BY WalkFacts DEF n, NoMatch
<1>2. /\ dfa \in Automaton /\ dfa \in Automata /\ dfa.imm \subseteq dfa.acc /\ Readable(text)
      /\ ~dfa.bound /\ ChainOf(dfa) \in SUBSET All /\ ChainShape(dfa, ChainOf(dfa))
    BY <1>1, Given, StatesAssumption, ChainShaped
<1>3. \A j \in w.start..(n - 1) : ByteAt(text, j) \in SkipClass(dfa)
    BY DEF DInv, DriveHolds, EofHolds
<1>4. k \in 0..n /\ k > 0 /\ w.start < k
    BY <1>1
<1> DEFINE Ch == ChainOf(dfa)
           S == {<<q, p>> : q \in Ch, p \in k..n}
           m == dfa.midStart
<1>5. Fruitless(dfa, text, S)
    <2> SUFFICES ASSUME NEW q \in Ch, NEW p \in k..n
                 PROVE  /\ q \notin dfa.acc
                        /\ p = n => q \notin dfa.eof
                        /\ p < n => ByteAt(text, p) \notin dfa.pre[q]
                        /\ p < n => LET r == dfa.delta[q][ByteAt(text, p)]
                                    IN  r = Dead \/ <<r, p + 1>> \in S
        <3>1. ASSUME NEW pt \in S
              PROVE  \E q \in Ch, p \in k..n : pt[1] = q /\ pt[2] = p
            OBVIOUS
        <3> HIDE DEF S, Ch
        <3> QED BY <1>1, <3>1 DEF Fruitless
    <2>1. q \notin dfa.acc /\ q \notin dfa.eof /\ q \in All
        BY <1>2 DEF ChainShape
    <2>2. dfa.pre[q] = {}
        BY <1>2, <2>1, AutomataAssumption
    <2>3. ASSUME p < n PROVE <<dfa.delta[q][ByteAt(text, p)], p + 1>> \in S
        <3>1. p \in w.start..(n - 1) /\ p + 1 \in k..n /\ p \in Nat
            BY <1>1, <1>4, <2>3
        <3>2. ByteAt(text, p) \in SkipClass(dfa) /\ ByteAt(text, p) \in Bytes
            BY <1>1, <1>2, <1>3, <2>3, <3>1 DEF Readable
        <3>3. dfa.delta[q][ByteAt(text, p)] \in Ch
            BY <1>2, <3>2 DEF ChainShape
        <3> QED BY <3>1, <3>3
    <2> HIDE DEF S, Ch
    <2> QED BY <2>1, <2>2, <2>3
<1>6. m \in Ch /\ m \in All /\ m \notin dfa.acc
    BY <1>2 DEF ChainShape
<1>7. <<m, k>> \in S
    BY <1>1, <1>4, <1>6
<1>8. Begins(dfa, text, k) = m
    <2>1. ByteAt(text, k - 1) \in Bytes /\ Begins(dfa, text, k) = dfa.mid[ByteAt(text, k - 1)]
        BY <1>1, <1>2, <1>4, BeginsEntry
    <2> QED BY <1>2, <2>1, AutomataAssumption
<1> HIDE DEF S, m
<1>9. RawAt(k) = MatchFrom(k, m, NoMatch)
    BY <1>2, <1>4, <1>6, <1>8, RawPlain DEF RawAt, MatchFrom
<1>10. MatchFrom(k, m, NoMatch) = NoMatch
    BY <1>1, <1>2, <1>4, <1>5, <1>6, <1>7, FruitlessEnds DEF MatchFrom
<1> QED BY <1>9, <1>10

\* A walk that reads on.
LEMMA DriveMoves == DInv /\ Moves => DriveHolds'
<1> SUFFICES ASSUME DInv, Moves PROVE DriveHolds'
    OBVIOUS
<1>0. pc = "scan" /\ w.pos < n /\ ~Dominant /\ NextState # Dead
    BY DEF Moves
<1>1. /\ TypeOK /\ w \in Locals /\ n \in Nat /\ w.pos \in 0..n /\ w.st \in All
      /\ w.last \in -1..n /\ w.last <= w.pos /\ w.start \in 0..n /\ w.start <= w.pos
      /\ host.status = "driving"
    BY <1>0, WalkFacts
<1>2. /\ w.pos + 1 \in 0..n
      /\ NextState \in All
      /\ Here.last = IF PreAccept THEN w.pos ELSE w.last
      /\ Here.last \in -1..n /\ Here.last <= w.pos
      /\ Here \in Locals /\ Here.pos = w.pos /\ Here.start = w.start
      /\ RawAt(w.start) = IF NextState \in dfa.imm THEN w.pos + 1
                          ELSE MatchFrom(w.pos + 1, NextState,
                                  IF NextState \in dfa.acc THEN w.pos + 1 ELSE Here.last)
    BY <1>0, WalkGoes
<1>3. UNCHANGED <<dfa, plan, text, table, host>> /\ n' = n
    BY DEF Moves, n
<1>4. /\ Seed(dfa, text, host.from) <= w.start
      /\ \A k \in host.from..(w.start - 1) : k <= n => table[k] = NoMatch
      /\ w.start <= n /\ ~(dfa.rule = "scan" /\ Inside(text, w.start))
    BY <1>0 DEF DInv, DriveHolds, Searched, Trying, TriedHere
<1>5. dfa.imm \subseteq dfa.acc
    BY <1>1, Given
<1> DEFINE v == [Here EXCEPT !.st = NextState]
<1>6. /\ v \in Locals /\ v.pos = w.pos /\ v.start = w.start /\ v.last = Here.last
      /\ v.st = NextState
    BY <1>2 DEF Locals
<1>7. \/ /\ NextState \notin dfa.acc
         /\ w' = [v EXCEPT !.pos = @ + 1] /\ pc' = "scan"
      \/ /\ NextState \in dfa.acc \ dfa.imm
         /\ w' = [v EXCEPT !.pos = @ + 1, !.last = w.pos + 1, !.lAcc = NextState]
         /\ pc' = "scan"
      \/ /\ NextState \in dfa.imm
         /\ w' = [v EXCEPT !.last = w.pos + 1, !.lAcc = NextState]
         /\ pc' = "found"
    BY DEF Moves
<1> HIDE DEF v
<1>8. /\ w'.start = w.start /\ w'.st = NextState
      /\ pc' = "scan" => /\ w'.pos = w.pos + 1 /\ NextState \notin dfa.imm
                         /\ w'.last = IF NextState \in dfa.acc THEN w.pos + 1 ELSE Here.last
      /\ pc' = "found" => NextState \in dfa.imm /\ w'.last = w.pos + 1
      /\ pc' \in {"scan", "found"}
    <2>1. CASE /\ NextState \notin dfa.acc
               /\ w' = [v EXCEPT !.pos = @ + 1] /\ pc' = "scan"
        BY <1>5, <1>6, <2>1 DEF Locals
    <2>2. CASE /\ NextState \in dfa.acc \ dfa.imm
               /\ w' = [v EXCEPT !.pos = @ + 1, !.last = w.pos + 1, !.lAcc = NextState]
               /\ pc' = "scan"
        BY <1>6, <2>2 DEF Locals
    <2>3. CASE /\ NextState \in dfa.imm
               /\ w' = [v EXCEPT !.last = w.pos + 1, !.lAcc = NextState]
               /\ pc' = "found"
        BY <1>6, <2>3 DEF Locals
    <2> QED BY <1>7, <2>1, <2>2, <2>3
<1>9. Driven' /\ Rounded' /\ Searched' /\ Exhausted' /\ TriedHere'
    BY <1>1, <1>3, <1>4, <1>8 DEF Driven, Rounded, Searched, Exhausted, TriedHere, Trying
<1>10. WalkTrue' /\ ResultTrue'
    <2> DEFINE last == IF NextState \in dfa.acc THEN w.pos + 1 ELSE Here.last
    <2>1. last <= w.pos + 1
        BY <1>1, <1>2
    <2>2. NextState \notin dfa.imm => RawAt(w.start) = MatchFrom(w.pos + 1, NextState, last)
        BY <1>2
    <2>3. NextState \in dfa.imm => RawAt(w.start) = w.pos + 1
        BY <1>2
    <2>4. pc' = "scan" => w'.last = last
        BY <1>8
    <2> HIDE DEF last
    <2>5. WalkTrue'
        BY <1>3, <1>8, <2>1, <2>2, <2>4 DEF WalkTrue, RawAt, MatchFrom
    <2>6. ResultTrue'
        BY <1>3, <1>8, <2>3 DEF ResultTrue, RawAt
    <2> QED BY <2>5, <2>6
<1>11. ASSUME pc' = "scan", w'.last = NoMatch
       PROVE  w.last = NoMatch /\ ~PreAccept /\ NextState \notin dfa.acc
    BY <1>1, <1>2, <1>8, <1>11 DEF NoMatch
<1>12. SkipHolds'
    <2> SUFFICES ASSUME pc' = "scan", plan.skip, w'.last = NoMatch PROVE SkipHolds'
        BY <1>3 DEF SkipHolds
    <2>1. /\ NextState = SkipTo(dfa)
          /\ \A k \in (w.start + 1)..w.pos :
                RawAt(k) \in {NoMatch, MatchFrom(w.pos + 1, NextState, NoMatch)}
        BY <1>0, <1>11, SkipMoves
    <2>2. /\ w'.pos # w.start /\ (w.start + 1)..(w'.pos - 1) = (w.start + 1)..w.pos
          /\ w'.pos = w.pos + 1 /\ w'.start = w.start /\ w'.st = NextState
        BY <1>1, <1>8
    <2>3. \A k : RawAt(k)' = RawAt(k)
        BY <1>3 DEF RawAt
    <2>4. MatchFrom(w.pos, w.st, NoMatch)' = MatchFrom(w.pos + 1, NextState, NoMatch)
        BY <1>3, <2>2 DEF MatchFrom
    <2>5. \A k \in (w.start + 1)..(w'.pos - 1) :
                RawAt(k)' \in {NoMatch, MatchFrom(w.pos + 1, NextState, NoMatch)}
        BY <2>1, <2>2, <2>3
    <2> QED BY <1>3, <2>1, <2>2, <2>4, <2>5 DEF SkipHolds
<1>13. EofHolds'
    <2> SUFFICES ASSUME pc' = "scan", plan.eofSkip, w'.last = NoMatch PROVE EofHolds'
        BY <1>3 DEF EofHolds
    <2>1. /\ NextState \in ChainOf(dfa)
          /\ \A j \in w.start..w.pos : ByteAt(text, j) \in SkipClass(dfa)
        BY <1>0, <1>11, EofMoves
    <2>2. w.start..(w'.pos - 1) = w.start..w.pos /\ w'.start = w.start /\ w'.st = NextState
        BY <1>1, <1>8
    <2>3. \A j \in w.start..(w'.pos - 1) : ByteAt(text, j) \in SkipClass(dfa)
        BY <2>1, <2>2
    <2> QED BY <1>3, <2>1, <2>2, <2>3 DEF EofHolds
<1> QED BY <1>8, <1>9, <1>10, <1>12, <1>13 DEF DriveHolds, SkipDone, EofDone

\* A walk that ends has its start's match, and has left what its skip claims.
LEMMA DriveEnded ==
    ASSUME DInv, pc = "scan", NEW v \in Locals, NEW why \in {"dead", "eof", "stop"},
           NEW end, EndsWith(v, end, why),
           v.start = w.start, v.pos = w.pos, v.last = RawAt(w.start),
           plan.skip /\ why = "dead" /\ v.last = NoMatch =>
               w.pos < n /\ \A k \in (w.start + 1)..w.pos : RawAt(k) = NoMatch,
           plan.eofSkip /\ why = "eof" /\ v.last = NoMatch =>
               \A k \in (w.start + 1)..n : RawAt(k) = NoMatch
    PROVE  DriveHolds'
<1>1. UNCHANGED <<dfa, plan, text, table, host>> /\ n' = n
    <2>1. UNCHANGED <<dfa, text, table, host>>
        BY DEF EndsWith
    <2>2. plan' = plan
        BY DEF EndsWith
    <2> QED BY <2>1, <2>2 DEF n
<1>2. /\ pc' \in {"record", "settle"}
      /\ w'.start = w.start /\ w'.pos = w.pos /\ w'.last = v.last /\ w'.why = why
    <2>1. CASE StartRecord(v, end, why)
        BY <2>1 DEF StartRecord, Locals
    <2>2. CASE w' = [v EXCEPT !.why = why] /\ pc' = "settle"
        BY <2>2 DEF Locals
    <2> QED BY <2>1, <2>2 DEF EndsWith
<1>3. /\ Seed(dfa, text, host.from) <= w.start
      /\ \A k \in host.from..(w.start - 1) : k <= n => table[k] = NoMatch
      /\ w.start <= n /\ ~(dfa.rule = "scan" /\ Inside(text, w.start))
      /\ host.status = "driving"
    BY DEF DInv, DriveHolds, Driven, Searched, Trying, TriedHere
<1>4. Driven' /\ Rounded' /\ Searched' /\ Exhausted' /\ TriedHere'
    BY <1>1, <1>2, <1>3 DEF Driven, Rounded, Searched, Exhausted, TriedHere, Trying
<1>5. ResultTrue' /\ SkipDone' /\ EofDone'
    BY <1>1, <1>2, WalkFacts DEF ResultTrue, SkipDone, EofDone, RawAt
<1> QED BY <1>2, <1>4, <1>5 DEF DriveHolds, WalkTrue, SkipHolds, EofHolds

\* At the end of the text, at a dead end, at a noted point, or at an accept that
\* ends the walk.
LEMMA DriveEnds == DInv /\ (AtEnd \/ DominantAccept \/ Dies \/ Stops) => DriveHolds'
<1> SUFFICES ASSUME DInv, AtEnd \/ DominantAccept \/ Dies \/ Stops PROVE DriveHolds'
    OBVIOUS
<1>0. pc = "scan"
    BY DEF AtEnd, DominantAccept, Dies, Stops
<1>1. /\ TypeOK /\ IInv /\ PathHolds /\ w \in Locals /\ n \in Nat /\ n = LenOf(text)
      /\ w.pos \in 0..n /\ w.st \in All
      /\ w.last \in -1..n /\ w.last <= w.pos /\ w.start \in 0..n /\ w.start <= w.pos
      /\ MatchFrom(w.pos, w.st, w.last) = RawAt(w.start)
      /\ host.status = "driving"
    BY <1>0, WalkFacts DEF n
<1>2. dfa \in Automaton /\ Readable(text) /\ dfa.imm \subseteq dfa.acc
    BY <1>1, Given
<1>3. CASE AtEnd
    <2> DEFINE v == IF w.st \in dfa.eof THEN [w EXCEPT !.last = w.pos] ELSE w
    <2>1. w.pos = n
        BY <1>1, <1>3 DEF AtEnd
    <2>2. /\ v \in Locals /\ v.start = w.start /\ v.pos = w.pos
          /\ v.last = IF w.st \in dfa.eof THEN n ELSE w.last
        BY <1>1, <2>1 DEF Locals
    <2>3. EndsWith(v, w.pos - 1, "eof")
        BY <1>3 DEF AtEnd, EndWalk, EndsWith
    <2> HIDE DEF v
    <2>4. RawAt(w.start) = IF w.st \in dfa.eof THEN n ELSE w.last
        BY <1>1, <1>2, <2>1, EndsLast DEF MatchFrom
    <2>5. ASSUME plan.eofSkip, v.last = NoMatch
          PROVE  \A k \in (w.start + 1)..n : RawAt(k) = NoMatch
        <3>1. w.last = NoMatch
            BY <1>1, <2>2, <2>5 DEF NoMatch
        <3> QED BY <1>0, <2>1, <2>5, <3>1, EofEnds
    <2>6. v.last = RawAt(w.start)
        BY <2>2, <2>4
    <2> QED BY <1>0, <2>2, <2>3, <2>5, <2>6, DriveEnded
<1>4. CASE DominantAccept
    <2>1. w.pos < n /\ Dominant /\ w' = Here /\ pc' = "found"
          /\ UNCHANGED <<dfa, plan, text, table, host>>
        BY <1>4 DEF DominantAccept
    <2>2. RawAt(w.start) = Here.last /\ Here.start = w.start
        BY <1>0, <2>1, WalkGoes
    <2>3. /\ Seed(dfa, text, host.from) <= w.start
          /\ \A k \in host.from..(w.start - 1) : k <= n => table[k] = NoMatch
          /\ w.start <= n /\ ~(dfa.rule = "scan" /\ Inside(text, w.start))
        BY <1>0 DEF DInv, DriveHolds, Searched, Trying, TriedHere
    <2>4. n' = n
        BY <2>1 DEF n
    <2>5. Driven' /\ Rounded' /\ Searched' /\ Exhausted' /\ TriedHere'
        BY <1>1, <2>1, <2>2, <2>3, <2>4 DEF Driven, Rounded, Searched, Exhausted, TriedHere, Trying
    <2>6. ResultTrue'
        BY <2>1, <2>2 DEF ResultTrue, RawAt
    <2> QED BY <2>1, <2>5, <2>6 DEF DriveHolds, WalkTrue, SkipHolds, SkipDone, EofHolds, EofDone
<1>5. CASE Dies
    <2>1. w.pos < n /\ NextState = Dead /\ EndsWith(Here, w.pos, "dead")
        BY <1>5 DEF Dies, EndWalk, EndsWith
    <2>2. /\ RawAt(w.start) = Here.last /\ Here \in Locals
          /\ Here.start = w.start /\ Here.pos = w.pos
          /\ Here.last = IF PreAccept THEN w.pos ELSE w.last
        BY <1>0, <2>1, WalkGoes
    <2>3. ASSUME plan.skip, Here.last = NoMatch
          PROVE  w.pos < n /\ \A k \in (w.start + 1)..w.pos : RawAt(k) = NoMatch
        <3>1. w.last = NoMatch /\ ~PreAccept
            BY <1>1, <2>2, <2>3 DEF NoMatch
        <3> QED BY <1>0, <2>1, <2>3, <3>1, SkipDies
    <2> QED BY <1>0, <2>1, <2>2, <2>3, DriveEnded
<1>6. CASE Stops
    <2>1. /\ w.pos < n /\ ~Dominant /\ NextState # Dead /\ Noted
          /\ EndsWith(Here, w.pos, "stop")
        BY <1>6 DEF Stops, EndWalk, EndsWith
    <2>2. /\ Here \in Locals /\ Here.start = w.start /\ Here.pos = w.pos
          /\ NextState \in All /\ Here.last \in -1..n /\ w.pos + 1 \in 0..n
          /\ RawAt(w.start) = IF NextState \in dfa.imm THEN w.pos + 1
                              ELSE MatchFrom(w.pos + 1, NextState,
                                      IF NextState \in dfa.acc THEN w.pos + 1 ELSE Here.last)
        BY <1>0, <2>1, WalkGoes
    <2>3. notes \subseteq proved /\ Closed(proved)
        BY <1>0, <1>1, <2>1 DEF IInv, Sound, MarkedFresh, NotesHold, Noted
    <2>4. Fruitless(dfa, text, proved)
        BY <1>1, <2>3 DEF Fruitless, Closed, AcceptsAt, n
    <2>5. <<NextState, w.pos + 1>> \in proved /\ NextState \notin dfa.acc
        <3>1. plan.rows \cap dfa.acc = {}
            BY <1>1, Given, RowsLive DEF TypeOK
        <3> QED BY <2>1, <2>3, <3>1 DEF Noted
    <2>6. MatchFrom(w.pos + 1, NextState, Here.last) = Here.last
        BY <1>1, <1>2, <2>2, <2>4, <2>5, FruitlessEnds DEF MatchFrom
    <2>7. Here.last = RawAt(w.start)
        BY <1>2, <2>2, <2>5, <2>6
    <2> QED BY <1>0, <2>1, <2>2, <2>7, DriveEnded
<1> QED BY <1>3, <1>4, <1>5, <1>6

\* The re-walk leaves the result alone, and a failed start is left for the next
\* one that could match.
LEMMA DriveRest ==
    DInv /\ (RecordStops \/ RecordStep \/ SettleFound \/ SettleFailed \/ Found \/ None)
        => DriveHolds'
<1> SUFFICES ASSUME DInv, RecordStops \/ RecordStep \/ SettleFound \/ SettleFailed \/ Found \/ None
             PROVE DriveHolds'
    OBVIOUS
<1>1. /\ TypeOK /\ w \in Locals /\ n \in Nat /\ host.from \in Nat
      /\ w.start \in Nat /\ w.pos \in Nat /\ w.last \in Nat \union {NoMatch}
      /\ w.why \in {"dead", "eof", "stop"}
    BY InvFacts, Facts DEF DInv, CInv, IInv, Typed, Locals
<1>2. CASE Found \/ None
    <2>1. pc \in {"found", "none"} /\ pc' \in {"host", "after"} /\ host \in Hosts
        BY <1>1, <1>2 DEF Found, None, TypeOK
    <2>2. host.status = "driving"
        BY <2>1 DEF DInv, DriveHolds, Driven
    <2>3. pc' = "host" \/ host'.status = "driving"
        BY <1>2, <2>1, <2>2 DEF Found, None, Hosts
    <2> QED BY <2>1, <2>3, DriveIdle
<1>3. ASSUME RecordStops \/ RecordStep \/ SettleFound \/ SettleFailed
      PROVE  /\ UNCHANGED <<dfa, plan, text, table, host>> /\ n' = n
             /\ pc \in {"record", "settle"} /\ pc' \in {"record", "settle", "found", "outer", "none"}
             /\ host.status = "driving"
             /\ Seed(dfa, text, host.from) <= w.start
             /\ \A k \in host.from..(w.start - 1) : k <= n => table[k] = NoMatch
             /\ w.start <= n /\ ~(dfa.rule = "scan" /\ Inside(text, w.start))
             /\ w.last = RawAt(w.start) /\ SkipDone /\ EofDone
    <2>1. UNCHANGED <<dfa, plan, text, table, host>> /\ n' = n
        BY <1>3 DEF RecordStops, RecordStep, SettleFound, SettleFailed, n
    <2>2. pc \in {"record", "settle"} /\ pc' \in {"record", "settle", "found", "outer", "none"}
        BY <1>3, Zenon DEF RecordStops, RecordStep, SettleFound, SettleFailed
    <2> QED BY <2>1, <2>2 DEF DInv, DriveHolds, Driven, Searched, Trying, TriedHere, ResultTrue
<1>4. CASE RecordStops \/ RecordStep \/ SettleFound
    <2>1. /\ w'.start = w.start /\ w'.pos = w.pos /\ w'.last = w.last /\ w'.why = w.why
          /\ pc' \in {"record", "settle", "found"}
        BY <1>1, <1>3, <1>4 DEF RecordStops, RecordStep, SettleFound, Locals
    <2>2. Driven' /\ Rounded' /\ Searched' /\ Exhausted' /\ TriedHere'
        BY <1>3, <1>4, <2>1 DEF Driven, Rounded, Searched, Exhausted, TriedHere, Trying
    <2>3. ResultTrue'
        BY <1>3, <1>4, <2>1 DEF ResultTrue, RawAt
    <2>4. SkipDone' /\ EofDone'
        BY <1>3, <1>4, <2>1 DEF SkipDone, EofDone, RawAt
    <2> QED BY <2>1, <2>2, <2>3, <2>4 DEF DriveHolds, WalkTrue, SkipHolds, EofHolds
<1>5. CASE SettleFailed
    <2>1. /\ pc = "settle" /\ w.last = NoMatch
          /\ \/ w.why = "eof" /\ plan.eofSkip /\ pc' = "none" /\ w' = w
             \/ /\ ~(w.why = "eof" /\ plan.eofSkip)
                /\ w' = [w EXCEPT !.start = IF w.why = "dead" /\ plan.skip
                                            THEN w.pos + 1 ELSE @ + 1]
                /\ pc' = "outer"
        <3>1. w.last < 0 => w.last = NoMatch
            BY <1>1 DEF NoMatch
        <3> QED BY <1>5, <3>1, Zenon DEF SettleFailed
    <2>2. ASSUME NEW k \in 0..n, RawAt(k) = NoMatch PROVE table[k] = NoMatch
        BY <1>1, <2>2, TableIs
    <2>3. RawAt(w.start) = NoMatch
        BY <1>3, <1>5, <2>1
    <2>4. CASE w.why = "eof" /\ plan.eofSkip /\ pc' = "none" /\ w' = w
        <3>1. \A k \in (w.start + 1)..n : RawAt(k) = NoMatch
            BY <1>3, <1>5, <2>1, <2>4 DEF EofDone
        <3>2. ASSUME NEW k \in 0..n, host.from <= k PROVE table[k] = NoMatch
            <4>1. k \in host.from..(w.start - 1) \/ k = w.start \/ k \in (w.start + 1)..n
                BY <1>1, <3>2
            <4> QED BY <1>3, <1>5, <2>2, <2>3, <3>1, <4>1
        <3>3. Exhausted'
            BY <1>3, <1>5, <2>4, <3>2 DEF Exhausted
        <3> QED BY <1>3, <1>5, <2>4, <3>3 DEF DriveHolds, Driven, Rounded, Searched, Trying, TriedHere,
                WalkTrue, ResultTrue, SkipHolds, SkipDone, EofHolds, EofDone
    <2>5. CASE /\ ~(w.why = "eof" /\ plan.eofSkip)
               /\ w' = [w EXCEPT !.start = IF w.why = "dead" /\ plan.skip
                                           THEN w.pos + 1 ELSE @ + 1]
               /\ pc' = "outer"
        <3> DEFINE next == IF w.why = "dead" /\ plan.skip THEN w.pos + 1 ELSE w.start + 1
        <3>1. w'.start = next
            BY <1>1, <2>5 DEF Locals
        <3>2. w.why = "dead" /\ plan.skip => \A k \in (w.start + 1)..w.pos : RawAt(k) = NoMatch
            BY <1>3, <1>5, <2>1 DEF SkipDone
        <3>3. ASSUME NEW k \in host.from..(next - 1), k <= n PROVE table[k] = NoMatch
            <4>1. k \in 0..n
                BY <1>1, <3>3
            <4>2. \/ k \in host.from..(w.start - 1) \/ k = w.start
                  \/ w.why = "dead" /\ plan.skip /\ k \in (w.start + 1)..w.pos
                BY <1>1, <3>3
            <4> HIDE DEF next
            <4> QED BY <1>3, <1>5, <2>2, <2>3, <3>2, <3>3, <4>1, <4>2
        <3>4. CASE w.start <= next
            <4> DEFINE m == Seed(dfa, text, host.from)
            <4>1. m \in Nat /\ m <= w.start
                BY <1>1, <1>3, <1>5, RoundedUp
            <4>2. next \in Nat
                BY <1>1
            <4> HIDE DEF m, next
            <4>3. m <= next
                BY <1>1, <3>4, <4>1, <4>2
            <4>4. Searched'
                BY <1>3, <1>5, <2>5, <3>1, <3>3, <4>3 DEF Searched, m
            <4> QED BY <1>3, <1>5, <2>5, <4>4 DEF DriveHolds, Driven, Rounded, Trying, TriedHere,
                WalkTrue, ResultTrue, SkipHolds, SkipDone, EofHolds, EofDone, Exhausted
        <3>5. w.start <= next
            <4>1. w.why = "dead" /\ plan.skip => w.start <= w.pos
                BY <1>3, <1>5, <2>1 DEF SkipDone
            <4> QED BY <1>1, <4>1
        <3> QED BY <3>4, <3>5
    <2> QED BY <2>1, <2>4, <2>5
<1> QED BY <1>2, <1>4, <1>5

LEMMA DriveNext == DInv /\ [Next]_vars => DInv'
<1> SUFFICES ASSUME DInv, [Next]_vars PROVE DriveHolds'
    BY CompleteNext DEF DInv
<1>1. CASE UNCHANGED vars
    <2>1. DriveHolds
        BY DEF DInv
    <2> QED BY <1>1, <2>1 DEF vars, DriveHolds, Driven, Rounded, Searched, Trying, Exhausted,
            TriedHere, WalkTrue, ResultTrue, SkipHolds, SkipDone, EofHolds, EofDone, RawAt, MatchFrom, n
<1>2. CASE ReuseBlock
    <2>1. pc' = "host"
        BY <1>2 DEF ReuseBlock
    <2> QED BY <2>1, DriveIdle
<1>3. CASE Host
    BY <1>3, DriveHost
<1>4. CASE Call
    BY <1>4, DriveEntry, DriveStart, DriveMoves, DriveEnds, DriveRest DEF Call
<1> QED BY <1>1, <1>2, <1>3, <1>4 DEF Next

LEMMA DriveInvariant == Spec => []DInv
<1>1. Init => DInv
    BY CompleteInit, DriveInit DEF DInv
<1> QED BY <1>1, DriveNext, PTL DEF Spec

-----------------------------------------------------------------------------
(* The refinement of MatchDrive. *)

\* What a call found is the leftmost match at or after its position: under the
\* seed rule a match inside a character would have a match before it.
LEMMA FoundLeftmost ==
    ASSUME DInv, pc = "found"
    PROVE  /\ w.start \in DOMAIN table /\ host.from <= w.start /\ host.status = "driving"
           /\ table[w.start] = w.last /\ w.last \in Nat
           /\ \A k \in DOMAIN table : host.from <= k /\ k < w.start => table[k] = NoMatch
<1>1. /\ TypeOK /\ w \in Locals /\ n \in Nat /\ host.from \in Nat
      /\ w.start \in Nat /\ w.last \in Nat \union {NoMatch} /\ w.last >= 0
    BY InvFacts, Facts DEF DInv, CInv, IInv, Typed, Placed, Locals
<1>2. /\ host.status = "driving"
      /\ Seed(dfa, text, host.from) <= w.start
      /\ \A k \in host.from..(w.start - 1) : k <= n => table[k] = NoMatch
      /\ w.start <= n /\ ~(dfa.rule = "scan" /\ Inside(text, w.start))
      /\ w.last = RawAt(w.start)
    BY DEF DInv, DriveHolds, Driven, Searched, Trying, TriedHere, ResultTrue
<1>3. /\ w.start \in 0..n /\ DOMAIN table = 0..n /\ w.last \in Nat
    BY <1>1, <1>2, TableIs DEF NoMatch
<1>4. Seed(dfa, text, host.from) \in Nat /\ host.from <= Seed(dfa, text, host.from)
    BY <1>1, RoundedUp
<1>5. host.from <= w.start
    <2> DEFINE m == Seed(dfa, text, host.from)
    <2>1. m \in Nat /\ host.from <= m /\ m <= w.start
        BY <1>2, <1>4
    <2> HIDE DEF m
    <2> QED BY <1>1, <2>1
<1>6. \A k \in DOMAIN table : host.from <= k /\ k < w.start => table[k] = NoMatch
    <2> TAKE k \in DOMAIN table
    <2>1. k \in 0..n
        BY <1>3
    <2> HAVE host.from <= k /\ k < w.start
    <2>2. k \in host.from..(w.start - 1) /\ k <= n
        BY <1>1, <2>1
    <2> QED BY <1>2, <2>2
<1>7. ~(dfa.rule = "seed" /\ Inside(text, w.start))
    <2> SUFFICES ASSUME dfa.rule = "seed", Inside(text, w.start) PROVE FALSE
        OBVIOUS
    <2> DEFINE s == w.start
    <2>1. /\ s - 1 \in 0..n /\ ~Inside(text, s - 1)
          /\ RawAt(s) = NoMatch \/ RawAt(s - 1) >= 0
        BY <1>1, <1>3, Given, SeedAssumption, SeedRuled DEF RawAt
    <2>2. RawAt(s - 1) >= 0
        BY <1>1, <1>2, <2>1 DEF NoMatch
    <2>3. table[s - 1] = RawAt(s - 1)
        BY <1>1, <2>1, TableIs
    <2>4. CASE host.from = s
        <3>1. Seed(dfa, text, host.from) = s + 1
            BY <2>4 DEF Seed
        <3> QED BY <1>1, <1>2, <3>1
    <2>5. CASE host.from # s
        <3>1. s - 1 \in host.from..(s - 1) /\ s - 1 <= n
            BY <1>1, <1>5, <2>1, <2>5
        <3>2. table[s - 1] = NoMatch
            BY <1>2, <3>1
        <3> QED BY <2>2, <2>3, <3>2 DEF NoMatch
    <2> QED BY <2>4, <2>5
<1>8. table[w.start] = w.last
    <2>1. dfa.rule \in {"none", "seed", "scan"}
        BY <1>1, Given
    <2> QED BY <1>1, <1>2, <1>3, <1>7, <2>1, TableIs
<1> QED BY <1>2, <1>3, <1>5, <1>6, <1>8

LEMMA DriveSteps == DInv /\ [Next]_vars => [Drive!Next]_(Drive!vars)
<1> SUFFICES ASSUME DInv, [Next]_vars PROVE Drive!Next \/ UNCHANGED Drive!vars
    OBVIOUS
<1>1. TypeOK /\ host \in Hosts /\ n \in Nat /\ DOMAIN table = 0..n
    <2>1. TypeOK /\ n \in Nat
        BY InvFacts DEF DInv, CInv, IInv, Typed
    <2>2. 0 \in 0..n
        BY <2>1
    <2> QED BY <2>1, <2>2, TableIs DEF TypeOK
<1>2. ASSUME UNCHANGED <<table, host>> PROVE UNCHANGED Drive!vars
    BY <1>2 DEF Drive!vars
<1>3. CASE PastTheEnd \/ None
    <2>1. /\ host.status = "driving" /\ host' = [host EXCEPT !.status = "done"] /\ table' = table
        BY <1>3 DEF PastTheEnd, None, DInv, DriveHolds, Driven
    <2>2. \A k \in DOMAIN table : k >= host.from => table[k] = NoMatch
        <3>1. CASE PastTheEnd
            <4>1. host.from > n /\ host.from \in Nat
                BY <1>1, <3>1 DEF PastTheEnd, Hosts
            <4> QED BY <1>1, <4>1
        <3>2. CASE None
            BY <1>1, <3>2 DEF None, DInv, DriveHolds, Exhausted, Hosts
        <3> QED BY <1>3, <3>1, <3>2
    <2>3. /\ host'.status = "done" /\ host'.from = host.from /\ host'.prevEnd = host.prevEnd
          /\ host'.answers = host.answers
        BY <1>1, <2>1 DEF Hosts
    <2>4. Drive!End
        BY <2>1, <2>2, <2>3 DEF Drive!End, Drive!NoMatch, NoMatch
    <2> QED BY <2>4 DEF Drive!Next
<1>4. CASE AllocationFails
    <2>1. /\ host.status = "driving" /\ host' = [host EXCEPT !.status = "unknown"] /\ table' = table
        BY <1>4 DEF AllocationFails, DInv, DriveHolds, Driven
    <2>2. /\ host'.status = "unknown" /\ host'.from = host.from /\ host'.prevEnd = host.prevEnd
          /\ host'.answers = host.answers
        BY <1>1, <2>1 DEF Hosts
    <2>3. Drive!GiveUp
        BY <2>1, <2>2 DEF Drive!GiveUp
    <2> QED BY <2>3 DEF Drive!Next
<1>5. CASE Found
    <2>1. /\ w.start \in DOMAIN table /\ host.from <= w.start /\ host.status = "driving"
          /\ table[w.start] = w.last /\ w.last \in Nat
          /\ \A k \in DOMAIN table : host.from <= k /\ k < w.start => table[k] = NoMatch
        BY <1>5, FoundLeftmost DEF Found
    <2> DEFINE from == ResumeAfter(w.start, w.last)
               answers == IF w.start = w.last /\ w.start = host.prevEnd THEN host.answers
                          ELSE Append(host.answers, <<w.start, w.last>>)
    <2>2. /\ host' = [host EXCEPT !.from = from, !.prevEnd = w.last, !.answers = answers]
          /\ table' = table
        BY <1>5 DEF Found
    <2> HIDE DEF from, answers
    <2>3. /\ host'.from = from /\ host'.prevEnd = w.last /\ host'.answers = answers
          /\ host'.status = host.status
        BY <1>1, <2>2 DEF Hosts
    <2>4. w.start >= host.from /\ w.last # NoMatch
        BY <1>1, <2>1 DEF Hosts, NoMatch
    <2>5. Drive!IsLeftmost(w.start)
        BY <2>1, <2>4 DEF Drive!IsLeftmost, Drive!NoMatch, NoMatch
    <2>6. from = Drive!ResumeAfter(w.start, table[w.start])
        BY <2>1 DEF from, ResumeAfter, Drive!ResumeAfter
    <2>7. answers = IF Drive!Delivered(w.start, table[w.start])
                    THEN Append(host.answers, <<w.start, table[w.start]>>) ELSE host.answers
        BY <2>1 DEF answers, Drive!Delivered
    <2>8. Drive!Report
        BY <2>1, <2>2, <2>3, <2>5, <2>6, <2>7 DEF Drive!Report
    <2> QED BY <2>8 DEF Drive!Next
<1>6. CASE ReuseBlock
    <2>1. PICK t \in Texts : table' = Table(dfa, t)
        BY <1>6 DEF ReuseBlock
    <2>2. host.status # "driving" /\ host' = NewHost
        BY <1>6 DEF ReuseBlock
    <2>3. 0 \in DOMAIN table'
        <3>1. LenOf(t) \in Nat
            BY TextTyped
        <3>2. DOMAIN table' = 0..LenOf(t)
            BY <2>1 DEF Table
        <3> QED BY <3>1, <3>2
    <2>4. Drive!StartSearch(0)
        BY <2>2 DEF NewHost, Drive!StartSearch, Drive!NoMatch, NoMatch
    <2>5. Drive!Again
        BY <2>2, <2>3, <2>4 DEF Drive!Again
    <2> QED BY <2>5 DEF Drive!Next
<1>7. CASE UNCHANGED vars
    BY <1>2, <1>7 DEF vars
<1>8. CASE CallFind \/ Allocate \/ NothingToAllocate
    BY <1>2, <1>8 DEF CallFind, Allocate, NothingToAllocate
<1>9. CASE EnterMarked \/ EnterOrdinary \/ CheckFirst \/ CheckSame \/ CheckOther
    BY <1>2, <1>9 DEF EnterMarked, EnterOrdinary, CheckFirst, CheckSame, CheckOther
<1>10. CASE Attempt \/ NoMoreStarts \/ AtEnd \/ DominantAccept \/ Dies \/ Stops \/ Moves
    BY <1>2, <1>10 DEF Attempt, NoMoreStarts, AtEnd, DominantAccept, Dies, Stops, Moves, EndWalk
<1>11. CASE RecordStops \/ RecordStep \/ SettleFound \/ SettleFailed
    BY <1>2, <1>11 DEF RecordStops, RecordStep, SettleFound, SettleFailed
<1> QED BY <1>3, <1>4, <1>5, <1>6, <1>7, <1>8, <1>9, <1>10, <1>11 DEF Next, Host, Call

\* The find bodies, their notes, the waste counter and the stub that drives them
\* implement MatchDrive: whatever is noted, cleared, armed, skipped or reused,
\* every call reports the leftmost match at or after its position, and the
\* iterator ends only where there is none (engine_dfa.go, search_notes.go).
THEOREM SearchRefinesDrive == Spec => DrivesLeftmost
<1>1. Init => Drive!Init
    BY DEF Init, NewHost, Drive!Init, Drive!NoMatch, NoMatch
<1> QED BY <1>1, DriveSteps, DriveInvariant, PTL DEF Spec, DrivesLeftmost, Drive!Spec
=============================================================================
