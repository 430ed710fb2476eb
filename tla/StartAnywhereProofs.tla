------------------------ MODULE StartAnywhereProofs ------------------------
(***************************************************************************)
(* The finds that hand over to the passes, or are the passes, read a number  *)
(* of bytes linear in the text, for every pattern, text and threshold: the   *)
(* counter of start_anywhere.go is what makes the first kind so.             *)
(***************************************************************************)
EXTENDS StartAnywhere, FindAutomatonProofs

Body == {"outer", "walk", "failed"}

\* The records of the drive and of the ghost, and where a running find stands.
Placed ==
    /\ pat \in Patterns
    /\ host = [from |-> host.from, prevEnd |-> host.prevEnd,
               answers |-> host.answers, status |-> host.status]
    /\ work \in [begun : Nat, bytes : Nat]
    /\ w.last <= n /\ w.end <= n
    /\ pc \in Body => /\ plan.strategy # "new"
                      /\ from = work.begun /\ work.begun <= w.start
    /\ pc \in {"walk", "failed"} => w.start <= w.pos
    /\ pc = "forward" => from <= w.pos /\ (w.last = NoMatch \/ from <= w.last)

Typed == TypeOK /\ Placed
-----------------------------------------------------------------------------
(* Where things lie. *)

LEMMA TextTyped == TypeOK => n \in Nat /\ \A p \in 0..(n - 1) : ByteAt(text, p) \in Bytes
  BY TextAssumption DEF TypeOK, n, LenOf, ByteAt

LEMMA SeedNear ==
    ASSUME NEW d, TypeOK, NEW f \in 0..n
    PROVE  Seed(d, text, f) \in f..n
  BY TextTyped DEF Seed, Inside, n

LEMMA EntryTyped ==
    ASSUME TypeOK, NEW d \in Automaton, NEW s \in 0..n
    PROVE  d.start \in All /\ Begins(d, text, s) \in All
  <1>1. s # 0 => ByteAt(text, s - 1) \in Bytes
    BY TextTyped
  <1> QED BY <1>1 DEF Begins, Automaton

LEMMA StepTyped ==
    ASSUME NEW d \in Automaton, NEW q \in All, NEW c \in Bytes
    PROVE  d.delta[q][c] \in All
  BY DEF Automaton

\* A match that lies in the text leaves the iterator at most one past its end.
LEMMA ReturnPlaced ==
    ASSUME TypeOK, Placed, NEW s \in 0..n, NEW end \in 0..n, Return(s, end)
    PROVE  /\ host' = [from |-> host'.from, prevEnd |-> host'.prevEnd,
                       answers |-> host'.answers, status |-> host'.status]
           /\ host'.from \in 0..(n + 1) /\ host'.status = host.status
           /\ pc' = "host" /\ w' = NoLocals /\ from' = from /\ walked' = walked
  <1>1. PICK list : host' = [host EXCEPT !.from = ResumeAfter(s, end), !.prevEnd = end,
                                          !.answers = list]
    BY DEF Return
  <1>2. ResumeAfter(s, end) \in 0..(n + 1)
    BY TextTyped DEF ResumeAfter
  <1>3. host = [from |-> host.from, prevEnd |-> host.prevEnd,
                answers |-> host.answers, status |-> host.status]
    BY DEF Placed
  <1>4. host' = [from |-> ResumeAfter(s, end), prevEnd |-> end,
                 answers |-> list, status |-> host.status]
    BY <1>1, <1>3
  <1> QED BY <1>2, <1>4 DEF Return

LEMMA StopPlaced ==
    ASSUME TypeOK, Placed, NEW status, Stop(status)
    PROVE  /\ host' = [from |-> host'.from, prevEnd |-> host'.prevEnd,
                       answers |-> host'.answers, status |-> host'.status]
           /\ host'.from = host.from /\ host'.status = status
           /\ pc' = "host" /\ w' = NoLocals /\ from' = from /\ walked' = walked
  BY DEF Stop, Placed

LEMMA NothingTyped == NoLocals \in Locals /\ NoLocals.start = 0 /\ NoLocals.pos = 0
                      /\ NoLocals.last = NoMatch /\ NoLocals.end = NoMatch
  BY DEF NoLocals, Locals, All, NoMatch

\* The locals, field by field.
LEMMA LocalsAre ==
    ASSUME NEW l \in Locals
    PROVE  /\ l = [start |-> l.start, pos |-> l.pos, st |-> l.st, last |-> l.last, end |-> l.end]
           /\ l.start \in Nat /\ l.pos \in Nat /\ l.st \in All
           /\ l.last \in Nat \union {NoMatch} /\ l.end \in Nat \union {NoMatch}
  BY DEF Locals

\* A walk that enters or goes on.
LEMMA LocalsMoved ==
    ASSUME NEW l \in Locals, NEW s \in Nat, NEW p \in Nat, NEW q \in All,
           NEW last \in Nat \union {NoMatch}
    PROVE  [start |-> s, pos |-> p, st |-> q, last |-> last, end |-> l.end] \in Locals
  BY DEF Locals

\* What stays as it is when only the drive and the ghost change.
LEMMA HostTyped ==
    ASSUME TypeOK, Placed,
           host' = [from |-> host'.from, prevEnd |-> host'.prevEnd,
                    answers |-> host'.answers, status |-> host'.status],
           host'.from \in 0..(n + 1), host'.status \in {"driving", "done", "trapped"},
           pc' = "host", w' = NoLocals, from' = from, walked' = walked,
           work' \in [begun : Nat, bytes : Nat], work'.begun = work.begun,
           UNCHANGED <<pat, plan, text>>
    PROVE  Typed'
  <1>1. n' = n /\ n \in Nat
    BY TextTyped DEF n
  <1> QED BY <1>1, NothingTyped DEF Typed, TypeOK, Placed, Body, NoMatch
-----------------------------------------------------------------------------
LEMMA InitTyped == Init => Typed
  <1> SUFFICES ASSUME Init PROVE Typed
    OBVIOUS
  <1>1. PICK mode \in Modes : plan = Plan(pat, mode)
    BY DEF Init
  <1>2. plan.strategy \in {"today", "new", "switch"}
    BY <1>1 DEF Plan, ClassifyFind, ByLead
  <1>3. n \in Nat
    BY TextAssumption DEF Init, n, LenOf
  <1> QED BY <1>2, <1>3, NothingTyped DEF Init, NewHost, Typed, TypeOK, Placed, Body, NoMatch
-----------------------------------------------------------------------------
(* Each action keeps the types. *)

LEMMA FindTyped == Typed /\ Find => Typed'
  <1> SUFFICES ASSUME Typed, Find PROVE Typed'
    OBVIOUS
  <1>1. n \in Nat /\ n' = n /\ host.from \in 0..n
    BY TextTyped DEF Find, Typed, TypeOK, n
  <1>2. Seed(pat.dfa, text, host.from) \in host.from..n
    BY <1>1, SeedNear DEF Typed
  <1>3. w' = [start |-> Seed(pat.dfa, text, host.from), pos |-> 0, st |-> Dead,
              last |-> NoMatch, end |-> NoMatch]
    BY DEF Find, NoLocals
  <1>4. w' \in Locals
    BY <1>1, <1>2, <1>3 DEF Locals, All
  <1>5. work' = [begun |-> host.from, bytes |-> 0] /\ host' = host /\ walked' = 0 /\ from' = host.from
    BY DEF Find
  <1>6. pc' = (IF plan.strategy = "new" THEN "passes" ELSE "outer") /\ UNCHANGED <<pat, plan, text>>
    BY DEF Find
  <1> HIDE DEF Find
  <1>7. TypeOK'
    BY <1>1, <1>2, <1>3, <1>4, <1>5, <1>6 DEF Typed, TypeOK, NoMatch
  <1>8. Placed'
    BY <1>1, <1>2, <1>3, <1>5, <1>6 DEF Typed, Placed, Body, NoMatch
  <1> QED BY <1>7, <1>8 DEF Typed

LEMMA PastTheEndTyped == Typed /\ PastTheEnd => Typed'
  BY StopPlaced, HostTyped DEF Typed, PastTheEnd, TypeOK, Placed

LEMMA AttemptTyped == Typed /\ Attempt => Typed'
  <1> SUFFICES ASSUME Typed, Attempt PROVE Typed'
    OBVIOUS
  <1> DEFINE Enters(s) == w' = [w EXCEPT !.start = s, !.pos = s, !.st = Begins(pat.dfa, text, s),
                             !.last = IF Accepting(Begins(pat.dfa, text, s), s) THEN s ELSE NoMatch]
  <1>1. PICK s \in w.start..n :
          \/ Return(s, s)
          \/ Enters(s) /\ pc' = "walk" /\ UNCHANGED <<host, from, walked>>
    BY DEF Attempt
  <1>2. n \in Nat /\ n' = n /\ w.start \in Nat /\ s \in 0..n
    BY TextTyped DEF Attempt, Typed, TypeOK, n, Locals
  <1>3. CASE Return(s, s)
    BY <1>2, <1>3, ReturnPlaced, HostTyped DEF Typed, Attempt, TypeOK, Placed
  <1>4. CASE Enters(s) /\ pc' = "walk" /\ UNCHANGED <<host, from, walked>>
    <2>1. Begins(pat.dfa, text, s) \in All
      BY <1>2, EntryTyped, PatternAssumption DEF Typed, Placed
    <2> DEFINE q == Begins(pat.dfa, text, s)
               last == IF Accepting(q, s) THEN s ELSE NoMatch
    <2>0. w = [start |-> w.start, pos |-> w.pos, st |-> w.st, last |-> w.last, end |-> w.end]
      BY LocalsAre DEF Typed, TypeOK
    <2>2. w' = [start |-> s, pos |-> s, st |-> q, last |-> last, end |-> w.end]
      BY <1>4, <2>0
    <2>3. last \in {s, NoMatch} /\ last \in Nat \union {NoMatch}
      BY <1>2
    <2> HIDE DEF q, last
    <2>4. w' \in Locals
      BY <1>2, <2>1, <2>2, <2>3, LocalsMoved DEF q, Typed, TypeOK
    <2> QED BY <1>2, <1>4, <2>2, <2>3, <2>4 DEF Attempt, Typed, TypeOK, Placed, Body, NoMatch
  <1> QED BY <1>1, <1>3, <1>4

LEMMA NoMoreStartsTyped == Typed /\ NoMoreStarts => Typed'
  BY StopPlaced, HostTyped DEF Typed, NoMoreStarts, TypeOK, Placed

\* The end of a walk: a match that lies in the text, or the failed attempt.
LEMMA SettlesTyped ==
    ASSUME Typed, pc = "walk", NEW last \in (0..n) \union {NoMatch}, Settles(last),
           work' \in [begun : Nat, bytes : Nat], work'.begun = work.begun,
           UNCHANGED <<pat, plan, text, table>>
    PROVE  Typed'
  <1>1. n \in Nat /\ n' = n /\ w.start \in 0..n
    BY TextTyped DEF Typed, TypeOK, Placed, Locals, n
  <1>2. CASE last >= 0
    BY <1>1, <1>2, ReturnPlaced, HostTyped DEF Settles, Typed, TypeOK, Placed, NoMatch
  <1>3. CASE ~(last >= 0)
    BY <1>1, <1>3 DEF Settles, Fails, Typed, TypeOK, Placed, Body
  <1> QED BY <1>2, <1>3 DEF NoMatch

LEMMA ReadsTyped ==
    ASSUME Typed, Reads
    PROVE  /\ work' \in [begun : Nat, bytes : Nat]
           /\ work'.begun = work.begun /\ work'.bytes = work.bytes + 1
  BY DEF Reads, Typed, Placed

LEMMA LastTyped ==
    ASSUME Typed, NEW d
    PROVE  LastOf(d) \in (0..n) \union {NoMatch}
  BY TextTyped DEF Typed, TypeOK, Placed, Locals, LastOf, NoMatch

LEMMA AtEndTyped == Typed /\ AtEnd => Typed'
  <1> SUFFICES ASSUME Typed, AtEnd PROVE Typed'
    OBVIOUS
  <1>1. (IF w.st \in pat.dfa.eof THEN n ELSE w.last) \in (0..n) \union {NoMatch}
    BY TextTyped DEF Typed, TypeOK, Placed, Locals, NoMatch
  <1>2. work' \in [begun : Nat, bytes : Nat] /\ work'.begun = work.begun
    BY DEF AtEnd, Typed, Placed
  <1> QED BY <1>1, <1>2, SettlesTyped DEF AtEnd

LEMMA DiesTyped == Typed /\ Dies => Typed'
  BY LastTyped, ReadsTyped, SettlesTyped DEF Dies

LEMMA MovesTyped == Typed /\ Moves => Typed'
  <1> SUFFICES ASSUME Typed, Moves PROVE Typed'
    OBVIOUS
  <1> DEFINE to == NextOf(pat.dfa)
             now == IF to \in pat.dfa.acc THEN w.pos + 1 ELSE LastOf(pat.dfa)
  <1>1. /\ n \in Nat /\ n' = n /\ w.pos \in 0..(n - 1) /\ w.start \in 0..n
        /\ pc = "walk" /\ UNCHANGED <<pat, plan, text, table>>
    BY TextTyped DEF Moves, Typed, TypeOK, Placed, Locals, n
  <1>2. work' \in [begun : Nat, bytes : Nat] /\ work'.begun = work.begun
    BY ReadsTyped DEF Moves
  <1>3. CASE Return(w.start, w.pos + 1)
    BY <1>1, <1>2, <1>3, ReturnPlaced, HostTyped DEF Typed, TypeOK, Placed
  <1>4. CASE /\ w' = [w EXCEPT !.st = to, !.pos = @ + 1, !.last = now]
             /\ UNCHANGED <<pc, host, from, walked>>
    <2>1. to \in All
      BY <1>1, TextTyped, StepTyped, PatternAssumption
      DEF Typed, TypeOK, Placed, Locals, NextOf, Byte
    <2>2. now \in (0..n) \union {NoMatch}
      BY <1>1, LastTyped
    <2> HIDE DEF to, now
    <2>0. w = [start |-> w.start, pos |-> w.pos, st |-> w.st, last |-> w.last, end |-> w.end]
      BY LocalsAre DEF Typed, TypeOK
    <2>3. w' = [start |-> w.start, pos |-> w.pos + 1, st |-> to, last |-> now, end |-> w.end]
      BY <1>4, <2>0
    <2>4. w' \in Locals
      BY <1>1, <2>1, <2>2, <2>3, LocalsMoved DEF Typed, TypeOK
    <2> QED BY <1>1, <1>2, <1>4, <2>2, <2>3, <2>4 DEF Typed, TypeOK, Placed, Body, NoMatch
  <1> QED BY <1>3, <1>4 DEF Moves

LEMMA FailsTyped == Typed /\ (FailsSkipping \/ FailsCharged) => Typed'
  <1> SUFFICES ASSUME Typed, FailsSkipping \/ FailsCharged PROVE Typed'
    OBVIOUS
  <1>1. /\ n \in Nat /\ n' = n /\ w.pos \in 0..n /\ w.start \in 0..n /\ w.start <= w.pos
        /\ pc = "failed" /\ UNCHANGED <<pat, plan, text, table, work>>
    BY TextTyped DEF FailsSkipping, FailsCharged, Typed, TypeOK, Placed, Locals, n
  <1>2. CASE FailsSkipping /\ w.pos = n
    BY <1>1, <1>2, StopPlaced, HostTyped DEF FailsSkipping, Typed, TypeOK, Placed
  <1>3. CASE /\ w' = [w EXCEPT !.start = w.pos + 1] /\ w.pos < n
             /\ pc' = "outer" /\ UNCHANGED <<host, from, walked>>
    <2>1. w' \in Locals /\ w'.start = w.pos + 1 /\ w'.pos = w.pos /\ w'.last = w.last /\ w'.end = w.end
      BY <1>1, <1>3 DEF Typed, TypeOK, Locals
    <2> QED BY <1>1, <1>3, <2>1 DEF Typed, TypeOK, Placed, Body, NoMatch
  <1>4. CASE FailsCharged
    <2>1. /\ w' \in Locals /\ w'.start = w.start + 1 /\ w'.pos = w.pos
          /\ w'.last = w.last /\ w'.end = w.end
      BY <1>1, <1>4 DEF FailsCharged, Typed, TypeOK, Locals
    <2>2. walked' \in Nat
      BY <1>1, <1>4 DEF FailsCharged, Walk, Typed, TypeOK
    <2> QED BY <1>1, <1>4, <2>1, <2>2 DEF FailsCharged, Typed, TypeOK, Placed, Body, NoMatch
  <1> QED BY <1>1, <1>2, <1>3, <1>4 DEF FailsSkipping

\* A walk that is charged has read a byte, so there is a start after its own.
LEMMA HandsOverTyped == Typed /\ HandsOver => Typed'
  <1> SUFFICES ASSUME Typed, HandsOver PROVE Typed'
    OBVIOUS
  <1>1. /\ n \in Nat /\ n' = n /\ w.pos \in 0..n /\ w.start \in Nat /\ w.start < w.pos
    BY TextTyped, NumberAssumption
    DEF HandsOver, Long, Walk, Typed, TypeOK, Placed, Locals, Body, n
  <1> QED BY <1>1 DEF HandsOver, Typed, TypeOK, Placed, Body, NoMatch

LEMMA BacktracksTyped == Typed /\ Backtracks => Typed'
  <1> SUFFICES ASSUME Typed, Backtracks PROVE Typed'
    OBVIOUS
  <1>1. /\ n \in Nat /\ from \in 0..n /\ UNCHANGED <<pat, plan, text>>
        /\ work' \in [begun : Nat, bytes : Nat] /\ work'.begun = work.begun
    BY TextTyped DEF Backtracks, Typed, TypeOK, Placed
  <1>2. CASE Stop("done")
    BY <1>1, <1>2, StopPlaced, HostTyped DEF Typed, TypeOK, Placed
  <1>3. CASE \E s \in from..n : \E end \in s..n : Return(s, end)
    <2>0. PICK s \in from..n : \E end \in s..n : Return(s, end)
      BY <1>3
    <2>1. PICK end \in s..n : Return(s, end)
      BY <2>0
    <2>2. s \in 0..n /\ end \in 0..n
      BY <1>1
    <2> QED BY <1>1, <2>1, <2>2, ReturnPlaced, HostTyped DEF Typed, TypeOK, Placed
  <1> QED BY <1>2, <1>3 DEF Backtracks

LEMMA StartsForwardTyped == Typed /\ StartsForward => Typed'
  <1> SUFFICES ASSUME Typed, StartsForward PROVE Typed'
    OBVIOUS
  <1> DEFINE f == Seed(pat.fwd, text, from)
             q == IF pat.ctx THEN Begins(pat.fwd, text, f) ELSE pat.fwd.start
  <1>1. n \in Nat /\ n' = n /\ f \in from..n /\ f \in 0..n /\ from \in 0..n
    BY TextTyped, SeedNear DEF StartsForward, Typed, TypeOK, n
  <1>2. q \in All
    BY <1>1, EntryTyped, PatternAssumption DEF Typed, Placed
  <1>3. from' = f /\ w' = [NoLocals EXCEPT !.pos = f, !.st = q]
    BY DEF StartsForward
  <1> HIDE DEF f, q
  <1>4. w' = [start |-> 0, pos |-> f, st |-> q, last |-> NoMatch, end |-> NoMatch]
    BY <1>3 DEF NoLocals
  <1>5. w'.start = 0 /\ w'.pos = f /\ w'.last = NoMatch /\ w'.end = NoMatch
    BY <1>4
  <1>6. w' \in Locals
    BY <1>1, <1>2, <1>4 DEF Locals
  <1>7. pc' = "forward" /\ UNCHANGED <<pat, plan, text, host, walked, work>>
    BY DEF StartsForward
  <1>8. TypeOK'
    <2>1. /\ w'.start <= n' + 1 /\ w'.pos <= n' /\ from' \in 0..n' /\ work'.begun <= from'
      BY <1>1, <1>5, <1>3, <1>7 DEF Typed, TypeOK, Placed
    <2> QED BY <1>1, <1>6, <1>7, <2>1 DEF Typed, TypeOK
  <1>9. Placed'
    <2>1. w'.last <= n' /\ w'.end <= n' /\ from' <= w'.pos
      BY <1>1, <1>5, <1>3 DEF NoMatch
    <2> QED BY <1>5, <1>7, <2>1 DEF Typed, Placed, Body
  <1> QED BY <1>8, <1>9 DEF Typed

LEMMA ForwardLastTyped ==
    ASSUME Typed, pc = "forward"
    PROVE  ForwardLast = NoMatch \/ ForwardLast \in from..w.pos
                                 \/ (ForwardLast \in from..n /\ ForwardLast = w.last)
  BY TextTyped DEF Typed, TypeOK, Placed, Locals, ForwardLast, NoMatch

LEMMA ForwardsTyped == Typed /\ Forwards => Typed'
  <1> SUFFICES ASSUME Typed, Forwards PROVE Typed'
    OBVIOUS
  <1> DEFINE to == NextOf(pat.fwd)
             now == ForwardLast
  <1>1. n \in Nat /\ n' = n /\ w.pos \in 0..(n - 1) /\ from \in 0..n /\ from <= w.pos
    BY TextTyped DEF Forwards, ForwardEnds, Typed, TypeOK, Placed, Locals, n
  <1>2. to \in All
    BY <1>1, TextTyped, StepTyped, PatternAssumption
    DEF Typed, TypeOK, Placed, Locals, NextOf, Byte
  <1>3. /\ now \in Nat \union {NoMatch} /\ now <= n /\ (now = NoMatch \/ from <= now)
    BY <1>1, ForwardLastTyped DEF Forwards, NoMatch
  <1>4. w' = [w EXCEPT !.last = now, !.st = to, !.pos = @ + 1]
    BY DEF Forwards
  <1> HIDE DEF to, now
  <1>5. w = [start |-> w.start, pos |-> w.pos, st |-> w.st, last |-> w.last, end |-> w.end]
    BY LocalsAre DEF Typed, TypeOK
  <1>6. w' = [start |-> w.start, pos |-> w.pos + 1, st |-> to, last |-> now, end |-> w.end]
    BY <1>4, <1>5
  <1>7. w' \in Locals
    BY <1>1, <1>2, <1>3, <1>6, LocalsMoved, LocalsAre DEF Typed, TypeOK
  <1>8. work' \in [begun : Nat, bytes : Nat] /\ work'.begun = work.begun
    BY ReadsTyped DEF Forwards
  <1>9. pc = "forward" /\ UNCHANGED <<pat, plan, text, host, from, walked, pc>>
    BY DEF Forwards
  <1>10. TypeOK'
    BY <1>1, <1>6, <1>7, <1>8, <1>9 DEF Typed, TypeOK
  <1>11. Placed'
    <2>1. w'.last <= n' /\ w'.end <= n'
      BY <1>1, <1>3, <1>6 DEF Typed, Placed
    <2>2. from' <= w'.pos /\ (w'.last = NoMatch \/ from' <= w'.last)
      BY <1>1, <1>3, <1>6, <1>9
    <2> QED BY <1>8, <1>9, <2>1, <2>2 DEF Typed, Placed, Body
  <1> QED BY <1>10, <1>11 DEF Typed

LEMMA TurnsTyped == Typed /\ Turns => Typed'
  <1> SUFFICES ASSUME Typed, Turns PROVE Typed'
    OBVIOUS
  <1> DEFINE end == ForwardLast
             q == IF pat.ctx /\ end < n THEN pat.rev.mid[ByteAt(text, end)] ELSE pat.rev.start
  <1>1. /\ n \in Nat /\ n' = n /\ w.pos \in 0..n /\ from \in 0..n
        /\ UNCHANGED <<pat, plan, text>>
    BY TextTyped DEF Turns, Typed, TypeOK, Locals, n
  <1>2. end = NoMatch \/ end \in from..n
    BY <1>1, ForwardLastTyped DEF Turns
  <1>3. work' \in [begun : Nat, bytes : Nat] /\ work'.begun = work.begun
    BY DEF Turns, Typed, Placed
  <1>4. CASE Stop("done")
    BY <1>1, <1>3, <1>4, StopPlaced, HostTyped DEF Typed, TypeOK, Placed
  <1>5. CASE /\ end >= 0 /\ w' = [NoLocals EXCEPT !.pos = end, !.end = end, !.st = q]
             /\ pc' = "backward" /\ UNCHANGED <<host, from, walked>>
    <2>1. end \in from..n /\ end \in 0..n
      BY <1>1, <1>2, <1>5 DEF NoMatch
    <2>2. q \in All
      BY <2>1, TextTyped, PatternAssumption DEF Typed, Placed, Automaton
    <2> HIDE DEF end, q
    <2>3. w' = [start |-> 0, pos |-> end, st |-> q, last |-> NoMatch, end |-> end]
      BY <1>5 DEF NoLocals
    <2>4. w'.start = 0 /\ w'.pos = end /\ w'.last = NoMatch /\ w'.end = end
      BY <2>3
    <2>5. w' \in Locals
      BY <1>1, <2>1, <2>2, <2>3 DEF Locals
    <2>6. TypeOK'
      <3>1. /\ w'.start <= n' + 1 /\ w'.pos <= n' /\ from' <= w'.pos /\ w'.pos <= w'.end
            /\ work'.begun <= from'
        BY <1>1, <1>3, <1>5, <2>1, <2>4 DEF Typed, TypeOK, Placed
      <3> QED BY <1>1, <1>5, <2>5, <3>1 DEF Typed, TypeOK
    <2>7. Placed'
      <3>1. w'.last <= n' /\ w'.end <= n'
        BY <1>1, <2>1, <2>3 DEF NoMatch
      <3> QED BY <1>1, <1>3, <1>5, <3>1 DEF Typed, Placed, Body
    <2> QED BY <2>6, <2>7 DEF Typed
  <1> QED BY <1>4, <1>5 DEF Turns

LEMMA BackwardLastTyped ==
    ASSUME Typed
    PROVE  BackwardLast \in (0..n) \union {NoMatch}
  BY TextTyped DEF Typed, TypeOK, Placed, Locals, BackwardLast, NoMatch

LEMMA BackwardsTyped == Typed /\ Backwards => Typed'
  <1> SUFFICES ASSUME Typed, Backwards PROVE Typed'
    OBVIOUS
  <1> DEFINE to == pat.rev.delta[w.st][Below]
             now == BackwardLast
  <1>1. /\ n \in Nat /\ n' = n /\ w.pos \in 1..n /\ from \in 0..n /\ from < w.pos
        /\ w.end \in Nat \union {NoMatch} /\ w.pos <= w.end
    BY TextTyped DEF Backwards, BackwardEnds, Typed, TypeOK, Placed, Locals, n
  <1>2. Below \in Bytes
    BY <1>1, TextTyped DEF Below, Typed
  <1>3. to \in All
    BY <1>2, StepTyped, PatternAssumption DEF Typed, TypeOK, Placed, Locals
  <1>4. now \in (0..n) \union {NoMatch}
    BY BackwardLastTyped
  <1>5. w' = [w EXCEPT !.last = now, !.st = to, !.pos = @ - 1]
    BY DEF Backwards
  <1> HIDE DEF to, now
  <1>6. w = [start |-> w.start, pos |-> w.pos, st |-> w.st, last |-> w.last, end |-> w.end]
    BY LocalsAre DEF Typed, TypeOK
  <1>7. w' = [start |-> w.start, pos |-> w.pos - 1, st |-> to, last |-> now, end |-> w.end]
    BY <1>5, <1>6
  <1>8. w' \in Locals
    BY <1>1, <1>3, <1>4, <1>7, LocalsMoved, LocalsAre DEF Typed, TypeOK
  <1>9. work' \in [begun : Nat, bytes : Nat] /\ work'.begun = work.begun
    BY ReadsTyped DEF Backwards
  <1>10. pc = "backward" /\ UNCHANGED <<pat, plan, text, host, from, walked, pc>>
    BY DEF Backwards
  <1>11. TypeOK'
    <2>1. /\ w'.start <= n' + 1 /\ w'.pos <= n' /\ from' <= w'.pos /\ w'.pos <= w'.end
          /\ work'.begun <= from'
      BY <1>1, <1>7, <1>9, <1>10 DEF Typed, TypeOK, NoMatch
    <2> QED BY <1>1, <1>8, <1>10, <2>1 DEF Typed, TypeOK
  <1>12. Placed'
    <2>1. w'.last <= n' /\ w'.end <= n'
      BY <1>1, <1>4, <1>7 DEF Typed, Placed, NoMatch
    <2> QED BY <1>9, <1>10, <2>1 DEF Typed, Placed, Body
  <1> QED BY <1>11, <1>12 DEF Typed

LEMMA MeetsTyped == Typed /\ Meets => Typed'
  <1> SUFFICES ASSUME Typed, Meets PROVE Typed'
    OBVIOUS
  <1>1. /\ n \in Nat /\ w.pos \in 0..n /\ w.end \in 0..n /\ UNCHANGED <<pat, plan, text>>
        /\ BackwardLast \in (0..n) \union {NoMatch}
    BY TextTyped, BackwardLastTyped DEF Meets, Typed, TypeOK, Placed, Locals, NoMatch
  <1>2. work' \in [begun : Nat, bytes : Nat] /\ work'.begun = work.begun
    BY DEF Meets, Typed, Placed
  <1>3. CASE Stop("trapped")
    BY <1>1, <1>2, <1>3, StopPlaced, HostTyped DEF Typed, TypeOK, Placed
  <1>4. CASE BackwardLast >= 0 /\ Return(BackwardLast, w.end)
    <2>1. BackwardLast \in 0..n
      BY <1>1, <1>4 DEF NoMatch
    <2> QED BY <1>1, <1>2, <1>4, <2>1, ReturnPlaced, HostTyped DEF Typed, TypeOK, Placed
  <1> QED BY <1>3, <1>4 DEF Meets

LEMMA NextTyped == Typed /\ [Next]_vars => Typed'
  <1> SUFFICES ASSUME Typed, [Next]_vars PROVE Typed'
    OBVIOUS
  <1>1. CASE UNCHANGED vars
    BY <1>1 DEF vars, Typed, TypeOK, Placed, n, LenOf
  <1>2. CASE Host
    BY <1>2, FindTyped, PastTheEndTyped DEF Host
  <1>3. CASE Search
    BY <1>3, AttemptTyped, NoMoreStartsTyped, AtEndTyped, DiesTyped, MovesTyped, FailsTyped,
       HandsOverTyped, BacktracksTyped, StartsForwardTyped, ForwardsTyped, TurnsTyped,
       BackwardsTyped, MeetsTyped DEF Search
  <1> QED BY <1>1, <1>2, <1>3 DEF Next, Ended

\* The locals of a running find, its iterator and its globals keep their types
\* and stand inside the text (start_anywhere.go's bodies and their caller).
THEOREM TypeCorrect == Spec => []TypeOK
  <1>1. Spec => []Typed
    BY InitTyped, NextTyped, PTL DEF Spec
  <1> QED BY <1>1, PTL DEF Typed
-----------------------------------------------------------------------------
(* What a find reads. *)

Way == w.start - work.begun

\* A find that switches: short walks up to this start, long ones up to the budget
\* and one more, the attempt under way.  With the passes, what that comes to.
Short == (ShortWalk + 1) * Way
Budget == SwitchN * Way + Slack
Before == IF plan.strategy = "switch" THEN (SwitchN + ShortWalk + 3) * Given + Slack ELSE 0

CostOfBody ==
    plan.strategy = "switch" =>
    /\ pc \in Body => walked <= Budget + (n - work.begun)
    /\ pc = "outer" => work.bytes <= Short + walked
    /\ pc = "walk" => work.bytes <= Short + walked + (w.pos - w.start)
    /\ pc = "failed" => work.bytes <= Short + walked + (w.pos - w.start) + 1

CostOfPasses ==
    plan.strategy \in {"new", "switch"} =>
    /\ pc = "passes" => work.bytes <= Before
    /\ pc = "forward" => work.bytes <= Before + (w.pos - from)
    /\ pc = "backward" => work.bytes <= Before + Given + (w.end - w.pos)
    /\ pc = "host" => work.bytes <= Before + 2 * Given

Cost == CostOfBody /\ CostOfPasses

\* Going on by k bytes allows for k more, and never for less.
LEMMA Grows ==
    ASSUME NEW c \in Nat, NEW a \in Nat, NEW k \in Nat
    PROVE  /\ c * (a + k) = c * a + c * k
           /\ c * (a + k) >= c * a
           /\ (c + 1) * (a + k) >= (c + 1) * a + k
           /\ c * (a + 1) = c * a + c
  OBVIOUS

LEMMA Figures ==
    ASSUME Typed
    PROVE  /\ n \in Nat /\ from \in 0..n /\ walked \in Nat
           /\ work.begun \in 0..n /\ work.begun <= from /\ work.bytes \in Nat
           /\ Given \in Nat /\ Given = n - work.begun + 1
           /\ w.start \in 0..(n + 1) /\ w.pos \in 0..n
           /\ pc \in Body => Way \in 0..Given /\ from = work.begun /\ plan.strategy # "new"
           /\ pc \in {"walk", "failed"} => w.start <= w.pos
  <1>1. n \in Nat
    BY TextTyped DEF Typed
  <1> QED BY <1>1 DEF Typed, TypeOK, Placed, Locals, Given, Way

\* What the attempts cost, when the last of them is over.
LEMMA BodyCost ==
    ASSUME Typed, Cost, plan.strategy = "switch", pc \in Body
    PROVE  work.bytes + (IF pc = "failed" THEN 0 ELSE 1) <= Before
  <1> DEFINE G == Given
             S == SwitchN * G
             T == ShortWalk * G
  <1>1. /\ G \in Nat /\ Way \in 0..G /\ n - work.begun = G - 1
        /\ work.bytes \in Nat /\ walked \in Nat
        /\ pc \in {"walk", "failed"} => w.pos - w.start \in Int /\ w.pos - w.start <= G - 1 - Way
    BY Figures DEF Way
  <1>2. /\ SwitchN * Way \in Nat /\ SwitchN * Way <= S /\ S \in Nat
    <2>1. G = Way + (G - Way) /\ G - Way \in Nat /\ Way \in Nat
      BY <1>1
    <2> QED BY <2>1, Grows, NumberAssumption
  <1>3. /\ ShortWalk * Way \in Nat /\ ShortWalk * Way <= T /\ T \in Nat
    <2>1. G = Way + (G - Way) /\ G - Way \in Nat /\ Way \in Nat
      BY <1>1
    <2> QED BY <2>1, Grows, NumberAssumption
  <1>4. (ShortWalk + 1) * Way = ShortWalk * Way + Way
    BY <1>1, NumberAssumption
  <1>5. (SwitchN + ShortWalk + 3) * G = S + T + 3 * G
    BY <1>1, NumberAssumption
  <1>6. walked <= SwitchN * Way + Slack + (G - 1)
    BY <1>1 DEF Cost, CostOfBody, Budget
  <1>7. work.bytes <= (ShortWalk + 1) * Way + walked
            + (IF pc = "outer" THEN 0 ELSE w.pos - w.start) + (IF pc = "failed" THEN 1 ELSE 0)
    BY <1>1, <1>3, <1>4 DEF Cost, CostOfBody, Short, Body
  <1> HIDE DEF G, S, T
  <1>8. work.bytes + (IF pc = "failed" THEN 0 ELSE 1) <= S + T + 3 * G + Slack
    <2>1. CASE pc = "outer"
      BY <1>1, <1>2, <1>3, <1>4, <1>6, <1>7, <2>1, NumberAssumption
    <2>2. CASE pc = "walk"
      BY <1>1, <1>2, <1>3, <1>4, <1>6, <1>7, <2>2, NumberAssumption
    <2>3. CASE pc = "failed"
      BY <1>1, <1>2, <1>3, <1>4, <1>6, <1>7, <2>3, NumberAssumption
    <2> QED BY <2>1, <2>2, <2>3 DEF Body
  <1> QED BY <1>5, <1>8 DEF Before, G

\* Between finds only what they read is compared.
LEMMA HostCost ==
    ASSUME Typed, UNCHANGED <<plan, text>>, work'.begun = work.begun, pc' = "host",
           plan.strategy \in {"new", "switch"} => work'.bytes <= Before + 2 * Given
    PROVE  Cost'
  <1>1. Given' = Given /\ Before' = Before
    BY DEF Given, Before, n, LenOf
  <1> QED BY <1>1 DEF Cost, CostOfBody, CostOfPasses, Body

LEMMA BeforeNat == Typed => Before \in Nat
  <1> SUFFICES ASSUME Typed PROVE Before \in Nat
    OBVIOUS
  <1>1. Given \in Nat /\ SwitchN + ShortWalk + 3 \in Nat /\ Slack \in Nat
    BY Figures, NumberAssumption
  <1> QED BY <1>1 DEF Before

\* A find that ends in its body, at most one byte later.
LEMMA BodyEnds ==
    ASSUME Typed, Cost, pc \in {"outer", "walk"} \/ (pc = "failed" /\ work'.bytes = work.bytes),
           UNCHANGED <<plan, text>>, work'.begun = work.begun, pc' = "host",
           work'.bytes \in Nat, work'.bytes <= work.bytes + 1
    PROVE  Cost'
  <1>1. pc \in Body
    BY DEF Body
  <1>2. plan.strategy = "switch" => work'.bytes <= Before + 2 * Given
    BY <1>1, BodyCost, BeforeNat, Figures
  <1> QED BY <1>1, <1>2, HostCost, Figures
-----------------------------------------------------------------------------
(* Each action keeps within it. *)

LEMMA FindCost == Typed /\ Cost /\ Find => Cost'
  <1> SUFFICES ASSUME Typed, Cost, Find PROVE Cost'
    OBVIOUS
  <1> DEFINE seed == Seed(pat.dfa, text, host.from)
  <1>1. /\ n \in Nat /\ n' = n /\ host.from \in 0..n /\ seed \in host.from..n
        /\ UNCHANGED plan
    BY TextTyped, SeedNear DEF Find, Typed, TypeOK, n
  <1>2. /\ work'.begun = host.from /\ work'.bytes = 0 /\ walked' = 0
        /\ w'.start = seed /\ pc' \in {"passes", "outer"}
        /\ pc' = "passes" => plan.strategy = "new"
    BY DEF Find, NoLocals
  <1> HIDE DEF seed
  <1>3. Way' \in Nat /\ (n - work.begun)' \in Nat
    BY <1>1, <1>2 DEF Way
  <1>4. SwitchN * Way' \in Nat /\ (ShortWalk + 1) * Way' \in Nat
    <2>1. \A a \in Nat : SwitchN * a \in Nat /\ (ShortWalk + 1) * a \in Nat
      BY NumberAssumption
    <2> QED BY <1>3, <2>1, Zenon
  <1>5. CostOfBody'
    <2>1. Budget' \in Nat /\ Short' \in Nat
      BY <1>4, NumberAssumption DEF Budget, Short
    <2>2. walked' <= Budget' + (n - work.begun)' /\ work'.bytes <= Short' + walked'
      <3>1. work'.bytes = 0 /\ walked' = 0
        BY <1>2
      <3>2. n' \in Nat /\ work'.begun \in Nat /\ work'.begun <= n'
        BY <1>1, <1>2
      <3>3. 0 <= Budget' + (n - work.begun)'
        BY <2>1, <3>2
      <3>4. 0 <= Short' + 0
        <4>1. \A a \in Nat : 0 <= a + 0
          OBVIOUS
        <4> QED BY <2>1, <4>1, Zenon
      <3> QED BY <3>1, <3>3, <3>4
    <2>3. pc' # "walk" /\ pc' # "failed"
      BY <1>2
    <2> QED BY <2>2, <2>3 DEF CostOfBody
  <1>6. CostOfPasses'
    BY <1>1, <1>2 DEF CostOfPasses, Before
  <1> QED BY <1>5, <1>6 DEF Cost

LEMMA PastTheEndCost == Typed /\ Cost /\ PastTheEnd => Cost'
  <1> SUFFICES ASSUME Typed, Cost, PastTheEnd PROVE Cost'
    OBVIOUS
  <1>1. /\ UNCHANGED <<plan, text, work>> /\ pc = "host" /\ pc' = "host"
    BY DEF PastTheEnd, Stop
  <1> QED BY <1>1, HostCost DEF Cost, CostOfPasses

\* The next start is k bytes on, and one of them allows for each byte read.
LEMMA OnwardCost ==
    ASSUME Typed, pc \in Body, pc' \in {"outer", "walk"}, UNCHANGED <<plan, text>>,
           work'.begun = work.begun, NEW k \in Nat, w'.start = w.start + k,
           pc' = "walk" => w'.pos = w'.start,
           plan.strategy = "switch" =>
              /\ walked' \in Nat
              /\ walked' <= SwitchN * Way + SwitchN * k + Slack + (n - work.begun)
              /\ work'.bytes <= (ShortWalk + 1) * Way + (ShortWalk + 1) * k + walked'
    PROVE  Cost'
  <1>1. Way \in Nat /\ Way' = Way + k /\ (n - work.begun)' = n - work.begun
    BY Figures DEF Way, n, LenOf
  <1>2. SwitchN * Way' = SwitchN * Way + SwitchN * k
    <2>1. SwitchN * (Way + k) = SwitchN * Way + SwitchN * k
      BY <1>1, Grows, NumberAssumption
    <2> QED BY <1>1, <2>1, Zenon
  <1>3. (ShortWalk + 1) * Way' = (ShortWalk + 1) * Way + (ShortWalk + 1) * k
    <2>1. ShortWalk + 1 \in Nat
      BY NumberAssumption
    <2>2. (ShortWalk + 1) * (Way + k) = (ShortWalk + 1) * Way + (ShortWalk + 1) * k
      BY <1>1, <2>1, Grows
    <2> QED BY <1>1, <2>2, Zenon
  <1>4. (ShortWalk + 1) * Way' \in Int
    BY <1>1, NumberAssumption
  <1>5. pc' = "walk" => w'.pos - w'.start = 0
    BY Figures
  <1>6. plan'.strategy = "switch" => /\ walked' <= Budget' + (n - work.begun)'
                                     /\ work'.bytes <= Short' + walked'
    BY <1>1, <1>2, <1>3 DEF Budget, Short
  <1>7. Short' + walked' + 0 = Short' + walked' \/ plan'.strategy # "switch"
    BY <1>4 DEF Short
  <1> QED BY <1>5, <1>6, <1>7 DEF Cost, CostOfBody, CostOfPasses, Body

LEMMA AttemptCost == Typed /\ Cost /\ Attempt => Cost'
  <1> SUFFICES ASSUME Typed, Cost, Attempt PROVE Cost'
    OBVIOUS
  <1>1. PICK s \in w.start..n :
          \/ Return(s, s)
          \/ /\ w'.start = s /\ w'.pos = s /\ pc' = "walk" /\ UNCHANGED walked
    <2>1. w = [start |-> w.start, pos |-> w.pos, st |-> w.st, last |-> w.last, end |-> w.end]
      BY LocalsAre DEF Typed, TypeOK
    <2> QED BY <2>1 DEF Attempt
  <1>2. pc = "outer" /\ UNCHANGED <<plan, text, work>>
    BY DEF Attempt
  <1>3. CASE Return(s, s)
    BY <1>2, <1>3, BodyEnds, Figures DEF Return
  <1>4. CASE w'.start = s /\ w'.pos = s /\ pc' = "walk" /\ UNCHANGED walked
    <2> DEFINE k == s - w.start
    <2>1. k \in Nat /\ s = w.start + k /\ Way \in Nat /\ pc \in Body
      BY <1>2, Figures DEF Body
    <2>2. SwitchN * k \in Nat /\ SwitchN * Way \in Nat
          /\ (ShortWalk + 1) * k \in Nat /\ (ShortWalk + 1) * Way \in Nat
      BY <2>1, NumberAssumption
    <2>3. plan.strategy = "switch" => /\ walked <= SwitchN * Way + Slack + (n - work.begun)
                                      /\ work.bytes <= (ShortWalk + 1) * Way + walked
      BY <1>2, <2>1 DEF Cost, CostOfBody, Budget, Short
    <2>4. walked \in Nat /\ work.bytes \in Nat /\ n - work.begun \in Nat
      BY Figures
    <2> HIDE DEF k
    <2>5. plan.strategy = "switch" =>
            /\ walked' \in Nat
            /\ walked' <= SwitchN * Way + SwitchN * k + Slack + (n - work.begun)
            /\ work'.bytes <= (ShortWalk + 1) * Way + (ShortWalk + 1) * k + walked'
      BY <1>2, <1>4, <2>2, <2>3, <2>4, NumberAssumption
    <2> QED BY <1>2, <1>4, <2>1, <2>5, OnwardCost
  <1> QED BY <1>1, <1>3, <1>4

LEMMA NoMoreStartsCost == Typed /\ Cost /\ NoMoreStarts => Cost'
  <1> SUFFICES ASSUME Typed, Cost, NoMoreStarts PROVE Cost'
    OBVIOUS
  <1>1. pc = "outer" /\ pc' = "host" /\ UNCHANGED <<plan, text, work>>
    BY DEF NoMoreStarts, Stop
  <1> QED BY <1>1, BodyEnds, Figures

\* A walk reads the byte ahead: it ends, goes on or has failed.
LEMMA WalkCost ==
    ASSUME Typed, Cost, pc = "walk", UNCHANGED <<plan, text>>,
           work'.begun = work.begun, NEW r \in {0, 1}, work'.bytes = work.bytes + r,
           \/ pc' = "host"
           \/ pc' = "failed" /\ UNCHANGED <<w, walked>>
           \/ /\ pc' = "walk" /\ w'.start = w.start /\ w'.pos = w.pos + 1 /\ UNCHANGED walked
    PROVE  Cost'
  <1>1. /\ work.bytes \in Nat /\ w.pos \in Nat /\ w.start \in Nat /\ walked \in Nat /\ Way \in Nat
    BY Figures DEF Body
  <1>2. CASE pc' = "host"
    BY <1>1, <1>2, BodyEnds
  <1>3. CASE pc' # "host"
    <2>1. Short \in Nat
      BY <1>1, NumberAssumption DEF Short
    <2>2. Way' = Way /\ n' = n /\ walked' = walked
      BY <1>3 DEF Way, n, LenOf
    <2>3. Short' = Short /\ Budget' = Budget /\ (n - work.begun)' = n - work.begun
      BY <2>2 DEF Short, Budget
    <2>4. plan.strategy = "switch" => /\ walked <= Budget + (n - work.begun)
                                      /\ work.bytes <= Short + walked + (w.pos - w.start)
      BY DEF Cost, CostOfBody, Body
    <2>5. plan.strategy = "switch" =>
            work'.bytes <= Short + walked + (w'.pos - w'.start) + (IF pc' = "failed" THEN 1 ELSE 0)
      BY <1>1, <1>3, <2>1, <2>4
    <2>6. Short + walked + (w'.pos - w'.start) + 0 = Short + walked + (w'.pos - w'.start)
      BY <1>1, <1>3, <2>1
    <2> QED BY <1>3, <2>2, <2>3, <2>4, <2>5, <2>6 DEF Cost, CostOfBody, CostOfPasses, Body
  <1> QED BY <1>2, <1>3

LEMMA WalksCost == Typed /\ Cost /\ (AtEnd \/ Dies \/ Moves) => Cost'
  <1> SUFFICES ASSUME Typed, Cost, AtEnd \/ Dies \/ Moves PROVE Cost'
    OBVIOUS
  <1>1. w = [start |-> w.start, pos |-> w.pos, st |-> w.st, last |-> w.last, end |-> w.end]
    BY LocalsAre DEF Typed, TypeOK
  <1>2. /\ pc = "walk" /\ UNCHANGED <<plan, text>>
        /\ \/ pc' = "host"
           \/ pc' = "failed" /\ UNCHANGED <<w, walked>>
           \/ /\ pc' = "walk" /\ w'.start = w.start /\ w'.pos = w.pos + 1 /\ UNCHANGED walked
    BY <1>1 DEF AtEnd, Dies, Moves, Settles, Fails, Return
  <1>3. work'.begun = work.begun /\ (work'.bytes = work.bytes + 0 \/ work'.bytes = work.bytes + 1)
    BY ReadsTyped, Figures DEF AtEnd, Dies, Moves
  <1> QED BY <1>2, <1>3, WalkCost

\* A failed attempt that is skipped past paid a start for each byte it read; one
\* that is charged was short, or found what was walked so far within the budget.
LEMMA FailsCost == Typed /\ Cost /\ (FailsSkipping \/ FailsCharged) => Cost'
  <1> SUFFICES ASSUME Typed, Cost, FailsSkipping \/ FailsCharged PROVE Cost'
    OBVIOUS
  <1>1. pc = "failed" /\ pc \in Body /\ UNCHANGED <<plan, text, work>>
    BY DEF FailsSkipping, FailsCharged, Body
  <1>2. /\ Way \in Nat /\ from = work.begun /\ n - work.begun \in Nat /\ walked \in Nat
        /\ w.start \in Nat /\ w.pos \in Nat /\ Walk \in Nat /\ Walk <= n - work.begun
        /\ work.bytes \in Nat
    BY <1>1, Figures DEF Walk, Way
  <1>3. plan.strategy = "switch" => /\ walked <= SwitchN * Way + Slack + (n - work.begun)
                                    /\ work.bytes <= (ShortWalk + 1) * Way + walked + Walk + 1
    BY <1>1, <1>2 DEF Cost, CostOfBody, Budget, Short, Walk
  <1>4. SwitchN * Way \in Nat /\ (ShortWalk + 1) * Way \in Nat
    BY <1>2, NumberAssumption
  <1>5. w = [start |-> w.start, pos |-> w.pos, st |-> w.st, last |-> w.last, end |-> w.end]
    BY LocalsAre DEF Typed, TypeOK
  <1>6. CASE Stop("done")
    BY <1>1, <1>2, <1>6, BodyEnds DEF Stop
  <1>7. CASE w' = [w EXCEPT !.start = w.pos + 1] /\ pc' = "outer" /\ UNCHANGED walked
    <2> DEFINE k == Walk + 1
    <2>1. k \in Nat /\ w'.start = w.start + k
      BY <1>2, <1>5, <1>7 DEF Walk
    <2>2. SwitchN * k \in Nat /\ (ShortWalk + 1) * k \in Nat /\ k <= (ShortWalk + 1) * k
      <3>1. (ShortWalk + 1) * k = ShortWalk * k + k /\ ShortWalk * k \in Nat
        BY <2>1, NumberAssumption
      <3> QED BY <2>1, <3>1, NumberAssumption
    <2>3. plan.strategy = "switch" => work.bytes <= (ShortWalk + 1) * Way + walked + k
      BY <1>2, <1>3, <1>4
    <2> HIDE DEF k
    <2>4. plan.strategy = "switch" =>
            /\ walked' \in Nat
            /\ walked' <= SwitchN * Way + SwitchN * k + Slack + (n - work.begun)
            /\ work'.bytes <= (ShortWalk + 1) * Way + (ShortWalk + 1) * k + walked'
      BY <1>1, <1>2, <1>3, <1>4, <1>7, <2>1, <2>2, <2>3, NumberAssumption
    <2> QED BY <1>1, <1>7, <2>1, <2>4, OnwardCost
  <1>8. CASE FailsCharged
    <2>1. w'.start = w.start + 1 /\ pc' = "outer"
      BY <1>5, <1>8 DEF FailsCharged
    <2>2. plan.strategy = "switch" /\ ~Long => Walk <= ShortWalk /\ walked' = walked
      BY <1>2, <1>8, NumberAssumption DEF FailsCharged, Long
    <2>3. plan.strategy = "switch" /\ Long =>
            walked <= SwitchN * Way + Slack /\ walked' = walked + Walk
      BY <1>2, <1>4, <1>8, NumberAssumption DEF FailsCharged, OverBudget, Way
    <2>4. plan.strategy = "switch" =>
            /\ walked' \in Nat
            /\ walked' <= SwitchN * Way + SwitchN * 1 + Slack + (n - work.begun)
            /\ work'.bytes <= (ShortWalk + 1) * Way + (ShortWalk + 1) * 1 + walked'
      BY <1>1, <1>2, <1>3, <1>4, <2>2, <2>3, NumberAssumption
    <2> QED BY <1>1, <2>1, <2>4, OnwardCost
  <1> QED BY <1>6, <1>7, <1>8 DEF FailsSkipping

\* What a find in its passes has read, against what its body may have read first.
LEMMA PassCost ==
    ASSUME UNCHANGED <<plan, text>>, work'.begun = work.begun,
           pc' \in {"passes", "forward", "backward"},
           plan.strategy \in {"new", "switch"} =>
              /\ pc' = "passes" => work'.bytes <= Before
              /\ pc' = "forward" => work'.bytes <= Before + (w'.pos - from')
              /\ pc' = "backward" => work'.bytes <= Before + Given + (w'.end - w'.pos)
    PROVE  Cost'
  <1>1. Given' = Given /\ Before' = Before
    BY DEF Given, Before, n, LenOf
  <1> QED BY <1>1 DEF Cost, CostOfBody, CostOfPasses, Body

LEMMA HandsOverCost == Typed /\ Cost /\ HandsOver => Cost'
  <1> SUFFICES ASSUME Typed, Cost, HandsOver PROVE Cost'
    OBVIOUS
  <1>1. /\ pc = "failed" /\ pc \in Body /\ pc' = "passes" /\ plan.strategy = "switch"
        /\ UNCHANGED <<plan, text, work>>
    BY DEF HandsOver, Long, Body
  <1>2. work.bytes + 0 <= Before /\ work.bytes \in Nat
    BY <1>1, BodyCost, Figures
  <1>3. work'.bytes <= Before
    BY <1>1, <1>2
  <1> QED BY <1>1, <1>3, PassCost

LEMMA BacktracksCost == Typed /\ Cost /\ Backtracks => Cost'
  <1> SUFFICES ASSUME Typed, Cost, Backtracks PROVE Cost'
    OBVIOUS
  <1>1. pc = "passes" /\ pc' = "host" /\ UNCHANGED <<plan, text, work>>
    BY DEF Backtracks, Stop, Return
  <1>2. Before \in Nat /\ Given \in Nat /\ work.bytes \in Nat
    BY BeforeNat, Figures
  <1>3. plan.strategy \in {"new", "switch"} => work'.bytes <= Before + 2 * Given
    BY <1>1, <1>2 DEF Cost, CostOfPasses
  <1> QED BY <1>1, <1>3, HostCost

LEMMA StartsForwardCost == Typed /\ Cost /\ StartsForward => Cost'
  <1> SUFFICES ASSUME Typed, Cost, StartsForward PROVE Cost'
    OBVIOUS
  <1>1. /\ pc = "passes" /\ pc' = "forward" /\ UNCHANGED <<plan, text, work>>
        /\ w'.pos = from'
    BY DEF StartsForward, NoLocals
  <1>2. from' \in Nat /\ Before \in Nat /\ work.bytes \in Nat
    BY StartsForwardTyped, TextTyped, BeforeNat, Figures DEF StartsForward, Typed, TypeOK, n, LenOf
  <1>3. Before + (w'.pos - from') = Before
    <2>1. w'.pos - from' = 0
      <3>1. \A a \in Nat : a - a = 0
        OBVIOUS
      <3> QED BY <1>1, <1>2, <3>1, Zenon
    <2>2. Before + 0 = Before
      BY <1>2
    <2> QED BY <2>1, <2>2, Zenon
  <1>4. plan.strategy \in {"new", "switch"} => work'.bytes <= Before + (w'.pos - from')
    BY <1>1, <1>3 DEF Cost, CostOfPasses
  <1> QED BY <1>1, <1>4, PassCost

LEMMA ForwardsCost == Typed /\ Cost /\ Forwards => Cost'
  <1> SUFFICES ASSUME Typed, Cost, Forwards PROVE Cost'
    OBVIOUS
  <1>1. w = [start |-> w.start, pos |-> w.pos, st |-> w.st, last |-> w.last, end |-> w.end]
    BY LocalsAre DEF Typed, TypeOK
  <1>2. pc = "forward" /\ w'.pos = w.pos + 1 /\ UNCHANGED <<plan, text, from, pc>>
    BY <1>1 DEF Forwards
  <1>3. work'.begun = work.begun /\ work'.bytes = work.bytes + 1
    BY ReadsTyped DEF Forwards
  <1>4. Before \in Nat /\ work.bytes \in Nat /\ w.pos \in Nat /\ from \in Nat
    BY BeforeNat, Figures
  <1>5. plan.strategy \in {"new", "switch"} => work.bytes <= Before + (w.pos - from)
    BY <1>2 DEF Cost, CostOfPasses
  <1>6. plan.strategy \in {"new", "switch"} => work'.bytes <= Before + (w'.pos - from')
    BY <1>2, <1>3, <1>4, <1>5
  <1> QED BY <1>2, <1>3, <1>6, PassCost

\* The first pass reads no byte twice, and none below `from'.
LEMMA TurnsCost == Typed /\ Cost /\ Turns => Cost'
  <1> SUFFICES ASSUME Typed, Cost, Turns PROVE Cost'
    OBVIOUS
  <1>1. /\ pc = "forward" /\ UNCHANGED <<plan, text>>
        /\ \/ pc' = "host"
           \/ pc' = "backward" /\ w'.pos = ForwardLast /\ w'.end = ForwardLast /\ ForwardLast >= 0
    BY DEF Turns, Stop, NoLocals
  <1>2. /\ work'.begun = work.begun
        /\ work'.bytes = work.bytes + (IF w.pos < n THEN 1 ELSE 0)
    BY DEF Turns, Typed, Placed
  <1>3. /\ Before \in Nat /\ work.bytes \in Nat /\ w.pos \in 0..n /\ n \in Nat /\ from \in 0..n
        /\ Given \in Nat /\ Given = n - work.begun + 1 /\ work.begun \in 0..n /\ work.begun <= from
    BY BeforeNat, Figures
  <1>4. plan.strategy \in {"new", "switch"} => work.bytes <= Before + (w.pos - from)
    BY <1>1 DEF Cost, CostOfPasses
  <1>5. plan.strategy \in {"new", "switch"} => work'.bytes <= Before + Given
    BY <1>2, <1>3, <1>4
  <1>6. CASE pc' = "host"
    BY <1>1, <1>2, <1>3, <1>5, <1>6, HostCost
  <1>7. CASE /\ pc' = "backward" /\ w'.pos = ForwardLast /\ w'.end = ForwardLast
             /\ ForwardLast >= 0
    <2>1. ForwardLast \in Nat
      BY <1>1, <1>3, <1>7, ForwardLastTyped DEF NoMatch
    <2>2. Given + (w'.end - w'.pos) = Given /\ Before + Given \in Nat
      BY <1>3, <1>7, <2>1
    <2>3. Before + Given + (w'.end - w'.pos) = Before + Given
      BY <1>3, <1>7, <2>1
    <2>4. plan.strategy \in {"new", "switch"} =>
            work'.bytes <= Before + Given + (w'.end - w'.pos)
      BY <1>5, <2>3
    <2> QED BY <1>1, <1>2, <1>7, <2>4, PassCost
  <1> QED BY <1>1, <1>6, <1>7

LEMMA BackwardsCost == Typed /\ Cost /\ Backwards => Cost'
  <1> SUFFICES ASSUME Typed, Cost, Backwards PROVE Cost'
    OBVIOUS
  <1>1. w = [start |-> w.start, pos |-> w.pos, st |-> w.st, last |-> w.last, end |-> w.end]
    BY LocalsAre DEF Typed, TypeOK
  <1>2. /\ pc = "backward" /\ w'.pos = w.pos - 1 /\ w'.end = w.end
        /\ UNCHANGED <<plan, text, from, pc>>
    BY <1>1 DEF Backwards
  <1>3. work'.begun = work.begun /\ work'.bytes = work.bytes + 1
    BY ReadsTyped DEF Backwards
  <1>4. /\ Before \in Nat /\ work.bytes \in Nat /\ w.pos \in Nat /\ Given \in Nat
        /\ w.end \in Int
    BY <1>2, BeforeNat, Figures DEF Typed, TypeOK, Locals, NoMatch
  <1>5. plan.strategy \in {"new", "switch"} => work.bytes <= Before + Given + (w.end - w.pos)
    BY <1>2 DEF Cost, CostOfPasses
  <1>6. plan.strategy \in {"new", "switch"} =>
          work'.bytes <= Before + Given + (w'.end - w'.pos)
    BY <1>2, <1>3, <1>4, <1>5
  <1> QED BY <1>2, <1>3, <1>6, PassCost

\* Nor does the second, which turns back at `from' at the latest.
LEMMA MeetsCost == Typed /\ Cost /\ Meets => Cost'
  <1> SUFFICES ASSUME Typed, Cost, Meets PROVE Cost'
    OBVIOUS
  <1>1. pc = "backward" /\ pc' = "host" /\ UNCHANGED <<plan, text>>
    BY DEF Meets, Stop, Return
  <1>2. /\ work'.begun = work.begun
        /\ work'.bytes = work.bytes + (IF w.pos > from THEN 1 ELSE 0)
    BY DEF Meets, Typed, Placed
  <1>3. /\ Before \in Nat /\ work.bytes \in Nat /\ w.pos \in 0..n /\ n \in Nat /\ from \in 0..n
        /\ Given \in Nat /\ Given = n - work.begun + 1 /\ work.begun \in 0..n /\ work.begun <= from
        /\ w.end \in Int /\ w.end <= n /\ from <= w.pos
    BY <1>1, BeforeNat, Figures DEF Typed, TypeOK, Placed, Locals, NoMatch
  <1>4. plan.strategy \in {"new", "switch"} => work.bytes <= Before + Given + (w.end - w.pos)
    BY <1>1 DEF Cost, CostOfPasses
  <1>5. plan.strategy \in {"new", "switch"} => work'.bytes <= Before + 2 * Given
    BY <1>2, <1>3, <1>4
  <1> QED BY <1>1, <1>2, <1>5, HostCost
-----------------------------------------------------------------------------
LEMMA InitCost == Init => Typed /\ Cost
  <1> SUFFICES ASSUME Init PROVE Typed /\ Cost
    OBVIOUS
  <1>1. Typed
    BY InitTyped
  <1>2. pc = "host" /\ work.bytes = 0
    BY DEF Init
  <1>3. Before \in Nat /\ Given \in Nat
    BY <1>1, BeforeNat, Figures
  <1> QED BY <1>1, <1>2, <1>3 DEF Cost, CostOfBody, CostOfPasses, Body

LEMMA NextCost == Typed /\ Cost /\ [Next]_vars => (Typed /\ Cost)'
  <1> SUFFICES ASSUME Typed, Cost, [Next]_vars PROVE Cost'
    BY NextTyped
  <1>1. CASE UNCHANGED vars
    BY <1>1 DEF vars, Cost, CostOfBody, CostOfPasses, Budget, Short, Before, Way, Given, n, LenOf
  <1>2. CASE Host
    BY <1>2, FindCost, PastTheEndCost DEF Host
  <1>3. CASE Search
    BY <1>3, AttemptCost, NoMoreStartsCost, WalksCost, FailsCost, HandsOverCost, BacktracksCost,
       StartsForwardCost, ForwardsCost, TurnsCost, BackwardsCost, MeetsCost DEF Search
  <1> QED BY <1>1, <1>2, <1>3 DEF Next, Ended

LEMMA Within == Typed /\ Cost => SwitchLinear /\ PassesLinear
  <1> SUFFICES ASSUME Typed, Cost PROVE SwitchLinear /\ PassesLinear
    OBVIOUS
  <1>1. /\ Given \in Nat /\ Given = n - work.begun + 1 /\ work.bytes \in Nat /\ Before \in Nat
        /\ n \in Nat /\ from \in 0..n /\ work.begun \in 0..n /\ work.begun <= from
        /\ w.pos \in 0..n
    BY BeforeNat, Figures
  <1>2. plan.strategy \in {"new", "switch"} => work.bytes <= Before + 2 * Given
    <2>1. CASE pc \in Body
      <3>1. plan.strategy = "switch" => work.bytes <= Before
        BY <1>1, <2>1, BodyCost
      <3> QED BY <1>1, <2>1, <3>1, Figures
    <2>2. CASE pc = "passes"
      BY <1>1, <2>2 DEF Cost, CostOfPasses
    <2>3. CASE pc = "forward"
      BY <1>1, <2>3 DEF Cost, CostOfPasses
    <2>4. CASE pc = "backward"
      <3>1. w.end \in Int /\ w.end <= n /\ from <= w.pos
        BY <2>4 DEF Typed, TypeOK, Placed, Locals, NoMatch
      <3> QED BY <1>1, <2>4, <3>1 DEF Cost, CostOfPasses
    <2>5. CASE pc = "host"
      BY <2>5 DEF Cost, CostOfPasses
    <2> QED BY <2>1, <2>2, <2>3, <2>4, <2>5 DEF Typed, TypeOK, Body
  <1>3. plan.strategy = "switch" => Before = (SwitchN + ShortWalk + 3) * Given + Slack
    BY DEF Before
  <1>4. (SwitchN + ShortWalk + 6) * Given = (SwitchN + ShortWalk + 3) * Given + 3 * Given
    BY <1>1, NumberAssumption
  <1>5. (SwitchN + ShortWalk + 3) * Given \in Nat
    BY <1>1, NumberAssumption
  <1>6. SwitchLinear
    BY <1>1, <1>2, <1>3, <1>4, <1>5, NumberAssumption DEF SwitchLinear
  <1>7. plan.strategy = "new" => Before = 0
    BY DEF Before
  <1> QED BY <1>1, <1>2, <1>6, <1>7 DEF PassesLinear

\* A find with a switch reads at most a fixed number of bytes for each byte it is
\* given, whatever the text and wherever the counter hands it over: short walks,
\* long ones up to the budget, the one that exceeds it, and two passes
\* (emitFindSwitchCharge in start_anywhere.go).
THEOREM SwitchBounded == Spec => []SwitchLinear
  <1>1. Spec => [](Typed /\ Cost)
    BY InitCost, NextCost, PTL DEF Spec
  <1>2. Typed /\ Cost => SwitchLinear
    BY Within
  <1> QED BY <1>1, <1>2, PTL

\* A find that is the passes alone reads no byte of its text more than twice.
THEOREM PassesBounded == Spec => []PassesLinear
  <1>1. Spec => [](Typed /\ Cost)
    BY InitCost, NextCost, PTL DEF Spec
  <1>2. Typed /\ Cost => PassesLinear
    BY Within
  <1> QED BY <1>1, <1>2, PTL
-----------------------------------------------------------------------------
(* failedWalkBound: no failed attempt walks beyond it. *)

LEMMA Finite ==
  /\ IsFiniteSet(States) /\ Cardinality(States) \in Nat
  /\ IsFiniteSet(All) /\ Cardinality(All) = Cardinality(States) + 1
  <1>1. IsFiniteSet({Dead}) /\ Cardinality({Dead}) = 1
    BY FS_Singleton
  <1>2. States \cap {Dead} = {}
    BY StateAssumption
  <1>3. IsFiniteSet(States \union {Dead})
    BY <1>1, StatesAssumption, FS_Union
  <1>4. Cardinality(States \union {Dead}) = Cardinality(States) + 1 - Cardinality(States \cap {Dead})
    BY <1>1, StatesAssumption, FS_Union
  <1>5. Cardinality(States \cap {Dead}) = 0
    BY <1>2, FS_EmptySet
  <1>6. Cardinality(States) \in Nat
    BY StatesAssumption, FS_CardinalityType
  <1> QED BY <1>3, <1>4, <1>5, <1>6, StatesAssumption DEF All

\* The states reachable from the entries are closed under the transitions.
LEMMA ReachClosed ==
    ASSUME NEW d \in Automaton
    PROVE  /\ Reach(d) \subseteq States
           /\ Entries(d) \ {Dead} \subseteq Reach(d)
           /\ \A s \in Reach(d) : \A c \in Bytes : d.delta[s][c] \in Reach(d) \union {Dead}
  <1> DEFINE N == Cardinality(States)
             Step(X) == X \union {d.delta[s][c] : s \in X, c \in Bytes}
             G == [X \in SUBSET All |-> Step(X)]
             E == Entries(d)
             f == CHOOSE g : g = [k \in 0..N |-> IF k = 0 THEN E ELSE Step(g[k - 1])]
  <1>1. d.start \in All /\ d.midStart \in All /\ d.mid \in [Bytes -> All]
        /\ d.delta \in [All -> [Bytes -> All]]
    BY DEF Automaton
  <1>2. E \in SUBSET All /\ d.start \in E
    BY <1>1 DEF Entries
  <1>3. G \in [SUBSET All -> SUBSET All] /\ \A X \in SUBSET All : G[X] = Step(X)
    <2>1. \A X \in SUBSET All : Step(X) \in SUBSET All
      BY <1>1
    <2> HIDE DEF Step
    <2> QED BY <2>1
  <1>4. N \in Nat
    BY Finite
  <1> HIDE DEF N, G, E
  <1>5. PICK g : g \in Recursive(SUBSET All, E, G, N)
    <2>1. E \in SUBSET All /\ G \in [SUBSET All -> SUBSET All]
      BY <1>2, <1>3
    <2>2. Recursive(SUBSET All, E, G, N) # {}
      BY <1>4, <2>1, Recursion, Zenon
    <2> QED BY <2>2
  <1>6. g \in [0..N -> SUBSET All] /\ g = [k \in 0..N |-> IF k = 0 THEN E ELSE G[g[k - 1]]]
    BY <1>5 DEF Recursive
  <1>7. g = [k \in 0..N |-> IF k = 0 THEN E ELSE Step(g[k - 1])]
    <2> HIDE DEF Step
    <2>1. \A k \in 0..N : k # 0 => G[g[k - 1]] = Step(g[k - 1])
      <3> TAKE k \in 0..N
      <3>1. k # 0 => k - 1 \in 0..N
        BY <1>4
      <3> QED BY <1>3, <1>6, <3>1
    <2> QED BY <1>6, <2>1
  <1>8. f = [k \in 0..N |-> IF k = 0 THEN E ELSE Step(f[k - 1])]
    <2> HIDE DEF Step
    <2> QED BY <1>7
  <1> HIDE DEF f
  <1>9. f[0] = E /\ \A k \in 1..N : f[k] = Step(f[k - 1])
    <2> HIDE DEF Step
    <2>1. 0 \in 0..N /\ \A k \in 1..N : k \in 0..N /\ k # 0
      BY <1>4
    <2> QED BY <1>8, <2>1
  <1>10. \A k \in 0..N : f[k] \in SUBSET All
    <2> HIDE DEF Step
    <2>1. \A k \in 1..N : f[k - 1] \in SUBSET All => f[k] \in SUBSET All
      BY <1>3, <1>9
    <2> QED BY <1>2, <1>4, <1>9, <2>1, RecursionStays
  <1>11. G[f[N]] = f[N]
    <2>1. f \in [0..N -> SUBSET All]
      BY <1>8, <1>10
    <2>2. \A k \in 1..N : f[k] = G[f[k - 1]]
      <3> TAKE k \in 1..N
      <3>1. k - 1 \in 0..N
        BY <1>4
      <3> HIDE DEF Step
      <3> QED BY <1>3, <1>9, <1>10, <3>1
    <2>3. \A k \in 0..N : f[k] \subseteq G[f[k]]
      BY <1>3, <1>10
    <2>4. Cardinality(f[0]) + N >= Cardinality(All)
      <3>1. IsFiniteSet(E)
        BY <1>2, Finite, FS_Subset
      <3>2. Cardinality(E) \in Nat /\ Cardinality(E) # 0
        BY <1>2, <3>1, FS_CardinalityType, FS_EmptySet
      <3> QED BY <1>9, <3>2, Finite DEF N
    <2>5. IsFiniteSet(All)
      BY Finite
    <2>6. G \in [SUBSET All -> SUBSET All]
      BY <1>3
    <2>7. f \in Climbs(All, G, N)
      BY <2>1, <2>2, <2>3, <2>4 DEF Climbs
    <2> QED BY <1>4, <2>5, <2>6, <2>7, ChainStops
  <1>12. N \in 0..N /\ \A k \in 0..N : E \subseteq f[k]
    <2>1. \A k \in 1..N : f[k - 1] \in {X \in SUBSET All : E \subseteq X}
                          => f[k] \in {X \in SUBSET All : E \subseteq X}
      <3> TAKE k \in 1..N
      <3>1. k \in 0..N
        BY <1>4
      <3>2. f[k] \in SUBSET All /\ f[k - 1] \subseteq f[k]
        BY <1>9, <1>10, <3>1
      <3> QED BY <3>2
    <2>2. f[0] \in {X \in SUBSET All : E \subseteq X}
      BY <1>2, <1>9
    <2>3. \A k \in 0..N : f[k] \in {X \in SUBSET All : E \subseteq X}
      BY <1>4, <2>1, <2>2, RecursionStays
    <2> QED BY <1>4, <2>3
  <1>13. Reach(d) = f[N] \ {Dead}
    BY DEF Reach, f, N, E
  <1>14. \A s \in f[N] : \A c \in Bytes : d.delta[s][c] \in f[N]
    BY <1>3, <1>10, <1>11, <1>12
  <1> QED BY <1>10, <1>12, <1>13, <1>14 DEF E, All

\* A state from which a failed attempt can end, or go on to one from which it
\* can, is live; so an attempt that fails was live all the way.
LEMMA LiveClosed ==
    ASSUME NEW d \in Automaton
    PROVE  /\ Live(d) \subseteq Reach(d) \ d.acc
           /\ IsFiniteSet(Live(d)) /\ Cardinality(Live(d)) \in Nat
           /\ \A s \in Reach(d) \ d.acc :
                 CanFail(d, s) \/ Onward(d, s) \cap Live(d) # {} => s \in Live(d)
  <1> DEFINE R == Reach(d) \ d.acc
             N == Cardinality(R)
             Step(X) == {s \in R : CanFail(d, s) \/ Onward(d, s) \cap X # {}}
             G == [X \in SUBSET R |-> Step(X)]
             E == {s \in R : CanFail(d, s)}
             f == CHOOSE g : g = [k \in 0..N |->
                     {s \in R : CanFail(d, s) \/ (k > 0 /\ Onward(d, s) \cap g[k - 1] # {})}]
  <1>1. IsFiniteSet(R)
    <2>1. R \in SUBSET States
      BY ReachClosed
    <2> QED BY <2>1, StatesAssumption, FS_Subset
  <1>2. N \in Nat
    BY <1>1, FS_CardinalityType
  <1> HIDE DEF R, N
  <1>3. E \in SUBSET R /\ E = Step({}) /\ \A X : E \subseteq Step(X)
    OBVIOUS
  <1>4. G \in [SUBSET R -> SUBSET R] /\ \A X \in SUBSET R : G[X] = Step(X) /\ Step(X) \in SUBSET R
    OBVIOUS
  <1> HIDE DEF G
  <1>5. PICK g : g \in Recursive(SUBSET R, E, G, N)
    <2>1. E \in SUBSET R /\ G \in [SUBSET R -> SUBSET R]
      BY <1>3, <1>4
    <2> HIDE DEF E
    <2>2. Recursive(SUBSET R, E, G, N) # {}
      BY <1>2, <2>1, Recursion, Zenon
    <2> QED BY <2>2
  <1>6. g \in [0..N -> SUBSET R] /\ g = [k \in 0..N |-> IF k = 0 THEN E ELSE G[g[k - 1]]]
    <2> HIDE DEF E
    <2> QED BY <1>5 DEF Recursive
  <1>7. g = [k \in 0..N |->
                {s \in R : CanFail(d, s) \/ (k > 0 /\ Onward(d, s) \cap g[k - 1] # {})}]
    <2>1. \A k \in 0..N : g[k] =
             {s \in R : CanFail(d, s) \/ (k > 0 /\ Onward(d, s) \cap g[k - 1] # {})}
      <3> TAKE k \in 0..N
      <3>1. CASE k = 0
        <4>1. g[k] = E /\ ~(k > 0)
          BY <1>6, <3>1
        <4> QED BY <4>1
      <3>2. CASE k # 0
        <4>1. k - 1 \in 0..N /\ k > 0
          BY <1>2, <3>2
        <4>2. g[k] = G[g[k - 1]] /\ g[k - 1] \in SUBSET R
          <5> HIDE DEF E
          <5> QED BY <1>6, <3>2, <4>1
        <4>3. g[k] = Step(g[k - 1])
          <5> HIDE DEF Step
          <5> QED BY <1>4, <4>2
        <4> QED BY <4>1, <4>3
      <3> QED BY <3>1, <3>2
    <2>2. g = [k \in 0..N |-> g[k]]
      <3> HIDE DEF E
      <3> QED BY <1>6
    <2> QED BY <2>1, <2>2
  <1>8. f = [k \in 0..N |->
                {s \in R : CanFail(d, s) \/ (k > 0 /\ Onward(d, s) \cap f[k - 1] # {})}]
    BY <1>7
  <1> HIDE DEF f
  <1>9. f[0] = E /\ \A k \in 1..N : f[k] = Step(f[k - 1])
    <2>1. 0 \in 0..N /\ ~(0 > 0) /\ \A k \in 1..N : k \in 0..N /\ k > 0
      BY <1>2
    <2>2. f[0] = {s \in R : CanFail(d, s)}
      BY <1>8, <2>1
    <2>3. ASSUME NEW k \in 1..N
          PROVE  f[k] = {s \in R : CanFail(d, s) \/ Onward(d, s) \cap f[k - 1] # {}}
      <3>1. f[k] = {s \in R : CanFail(d, s) \/ (k > 0 /\ Onward(d, s) \cap f[k - 1] # {})}
        BY <1>8, <2>1
      <3> QED BY <2>1, <3>1
    <2> QED BY <2>2, <2>3
  <1>10. \A k \in 0..N : f[k] \in {X \in SUBSET R : X \subseteq Step(X)}
    <2>1. f[0] \in {X \in SUBSET R : X \subseteq Step(X)}
      BY <1>3, <1>9
    <2>2. \A k \in 1..N : f[k - 1] \in {X \in SUBSET R : X \subseteq Step(X)}
                          => f[k] \in {X \in SUBSET R : X \subseteq Step(X)}
      <3> TAKE k \in 1..N
      <3>1. f[k] = Step(f[k - 1])
        BY <1>9
      <3> QED BY <3>1
    <2> HIDE DEF Step
    <2> QED BY <1>2, <2>1, <2>2, RecursionStays
  <1>11. G[f[N]] = f[N]
    <2>1. \A k \in 0..N : f[k] \in SUBSET R /\ f[k] \subseteq Step(f[k])
      BY <1>10
    <2> HIDE DEF Step
    <2>2. f \in [0..N -> SUBSET R]
      BY <1>8, <2>1
    <2>3. \A k \in 1..N : f[k] = G[f[k - 1]]
      <3> TAKE k \in 1..N
      <3>1. k - 1 \in 0..N
        BY <1>2
      <3> QED BY <1>4, <1>9, <2>1, <3>1
    <2>4. \A k \in 0..N : f[k] \subseteq G[f[k]]
      BY <1>4, <2>1
    <2>5. Cardinality(f[0]) + N >= Cardinality(R)
      <3>1. f[0] \in SUBSET R
        BY <1>2, <2>1
      <3>2. IsFiniteSet(f[0])
        BY <1>1, <3>1, FS_Subset
      <3>3. Cardinality(f[0]) \in Nat
        BY <3>2, FS_CardinalityType
      <3> QED BY <1>2, <3>3 DEF N
    <2>6. f \in Climbs(R, G, N)
      BY <2>2, <2>3, <2>4, <2>5 DEF Climbs
    <2>7. G \in [SUBSET R -> SUBSET R]
      BY <1>4
    <2> QED BY <1>1, <1>2, <2>6, <2>7, ChainStops
  <1>12. Live(d) = f[N]
    BY DEF Live, f, N, R
  <1>13. N \in 0..N
    BY <1>2
  <1>14. f[N] \in SUBSET R
    BY <1>10, <1>13
  <1>15. Step(f[N]) = f[N]
    BY <1>4, <1>11, <1>14
  <1>16. IsFiniteSet(f[N]) /\ Cardinality(f[N]) \in Nat
    BY <1>1, <1>14, FS_Subset, FS_CardinalityType
  <1> QED BY <1>12, <1>14, <1>15, <1>16 DEF R

\* The places from which a path of live states goes on for k steps.
LEMMA PathsAre ==
    ASSUME NEW d \in Automaton
    PROVE  LET L == Live(d)
               N == Cardinality(L)
               f == Paths(d, L)
           IN  /\ f[0] = L
               /\ \A k \in 1..N : f[k] = {s \in L : Onward(d, s) \cap f[k - 1] # {}}
               /\ \A k \in 0..N : f[k] \in SUBSET L
  <1> DEFINE L == Live(d)
             N == Cardinality(L)
             Step(X) == {s \in L : Onward(d, s) \cap X # {}}
             G == [X \in SUBSET L |-> Step(X)]
             f == Paths(d, L)
  <1>1. N \in Nat
    BY LiveClosed
  <1> HIDE DEF L, N
  <1>2. G \in [SUBSET L -> SUBSET L] /\ \A X \in SUBSET L : G[X] = Step(X) /\ Step(X) \in SUBSET L
    OBVIOUS
  <1> HIDE DEF G
  <1>3. PICK g : g \in Recursive(SUBSET L, L, G, N)
    <2>1. L \in SUBSET L /\ G \in [SUBSET L -> SUBSET L]
      BY <1>2
    <2>2. Recursive(SUBSET L, L, G, N) # {}
      BY <1>1, <2>1, Recursion, Zenon
    <2> QED BY <2>2
  <1>4. g \in [0..N -> SUBSET L] /\ g = [k \in 0..N |-> IF k = 0 THEN L ELSE G[g[k - 1]]]
    BY <1>3 DEF Recursive
  <1>5. g = [k \in 0..N |-> IF k = 0 THEN L ELSE Step(g[k - 1])]
    <2> HIDE DEF Step
    <2>1. \A k \in 0..N : k # 0 => G[g[k - 1]] = Step(g[k - 1])
      <3> TAKE k \in 0..N
      <3>1. k # 0 => k - 1 \in 0..N
        BY <1>1
      <3> QED BY <1>2, <1>4, <3>1
    <2> QED BY <1>4, <2>1
  <1>6. f = [k \in 0..N |-> IF k = 0 THEN L ELSE Step(f[k - 1])]
    BY <1>5 DEF Paths, N
  <1> HIDE DEF f
  <1>7. f[0] = L /\ \A k \in 1..N : f[k] = Step(f[k - 1])
    <2> HIDE DEF Step
    <2>1. 0 \in 0..N /\ \A k \in 1..N : k \in 0..N /\ k # 0
      BY <1>1
    <2> QED BY <1>6, <2>1
  <1>8. \A k \in 0..N : f[k] \in SUBSET L
    <2> HIDE DEF Step
    <2>1. \A k \in 1..N : f[k - 1] \in SUBSET L => f[k] \in SUBSET L
      BY <1>2, <1>7
    <2> QED BY <1>1, <1>7, <2>1, RecursionStays
  <1> QED BY <1>7, <1>8 DEF L, N, f

\* A longer path begins where a shorter one does; and where there are none of
\* full length, none is as long as the bound.
LEMMA PathBound ==
    ASSUME NEW d \in Automaton
    PROVE  LET N == Cardinality(Live(d))
               f == Paths(d, Live(d))
           IN  /\ FailedWalkBound(d).bound \in Nat
               /\ \A m \in 0..N : FailedWalkBound(d).bounded /\ f[m] # {}
                                  => m < N /\ m + 1 <= FailedWalkBound(d).bound
  <1> DEFINE L == Live(d)
             N == Cardinality(L)
             f == Paths(d, L)
             K == {k \in 0..N : f[k] # {}}
             Falls(m) == \A j \in 0..m : f[m] \subseteq f[j]
             T == {m \in 0..N : Falls(m)}
  <1>1. /\ f[0] = L
        /\ \A k \in 1..N : f[k] = {s \in L : Onward(d, s) \cap f[k - 1] # {}}
        /\ \A k \in 0..N : f[k] \in SUBSET L
    BY PathsAre
  <1>2. N \in Nat
    BY LiveClosed
  <1>3. FailedWalkBound(d) = [bounded |-> f[N] = {}, bound |-> Cardinality(K)]
    BY DEF FailedWalkBound
  <1> HIDE DEF L, N, f
  <1>4. \A k \in 1..N : f[k] \subseteq f[k - 1]
    <2> DEFINE U == {k \in 0..N : k > 0 => f[k] \subseteq f[k - 1]}
    <2>1. 0 \in U
      BY <1>2
    <2>2. ASSUME NEW k \in 0..N, k \in U, k < N PROVE k + 1 \in U
      <3>1. k + 1 \in 1..N /\ k + 1 \in 0..N /\ k + 1 - 1 = k
        BY <1>2, <2>2
      <3>2. f[k + 1] = {s \in L : Onward(d, s) \cap f[k] # {}}
        BY <1>1, <3>1
      <3>3. CASE k = 0
        BY <1>1, <3>1, <3>2, <3>3
      <3>4. CASE k # 0
        <4>1. k \in 1..N /\ k > 0
          BY <1>2, <3>4
        <4>2. f[k] = {s \in L : Onward(d, s) \cap f[k - 1] # {}}
          BY <1>1, <4>1
        <4>3. f[k] \subseteq f[k - 1]
          BY <2>2, <4>1
        <4> QED BY <3>1, <3>2, <4>2, <4>3
      <3> QED BY <3>3, <3>4
    <2> HIDE DEF U
    <2>3. \A k \in 0..N : k \in U
      BY <1>2, <2>1, <2>2, UpTo
    <2> QED
      <3> TAKE k \in 1..N
      <3>1. k \in 0..N /\ k > 0
        BY <1>2
      <3> QED BY <2>3, <3>1 DEF U
  <1>5. \A m \in 0..N : Falls(m)
    <2>1. 0 \in T
      BY <1>2
    <2>2. ASSUME NEW k \in 0..N, k \in T, k < N PROVE k + 1 \in T
      <3>1. k + 1 \in 1..N /\ k + 1 \in 0..N /\ k + 1 - 1 = k
            /\ \A j \in 0..(k + 1) : j = k + 1 \/ j \in 0..k
        BY <1>2, <2>2
      <3>2. f[k + 1] \subseteq f[k]
        BY <1>4, <3>1
      <3> QED BY <2>2, <3>1, <3>2
    <2> HIDE DEF T
    <2>3. \A k \in 0..N : k \in T
      BY <1>2, <2>1, <2>2, UpTo
    <2> QED BY <2>3 DEF T
  <1>6. IsFiniteSet(K) /\ Cardinality(K) \in Nat
    <2>1. IsFiniteSet(0..N)
      BY <1>2, FS_Interval
    <2>2. K \in SUBSET (0..N)
      OBVIOUS
    <2>3. IsFiniteSet(K)
      BY <2>1, <2>2, FS_Subset
    <2> QED BY <2>3, FS_CardinalityType
  <1>7. ASSUME NEW m \in 0..N, f[N] = {}, f[m] # {} PROVE m < N /\ m + 1 <= Cardinality(K)
    <2>1. m # N
      BY <1>7
    <2>2. \A j \in 0..m : f[j] # {} /\ j \in 0..N
      BY <1>2, <1>5, <1>7
    <2>3. 0..m \in SUBSET K
      BY <2>2
    <2> HIDE DEF K
    <2>4. Cardinality(0..m) <= Cardinality(K)
      BY <1>6, <2>3, FS_Subset
    <2>5. Cardinality(0..m) = m + 1
      <3>1. 0 \in Int /\ m \in Int /\ 0 <= m
        OBVIOUS
      <3>2. Cardinality(0..m) = IF 0 > m THEN 0 ELSE m - 0 + 1
        BY <3>1, FS_Interval
      <3> QED BY <3>1, <3>2
    <2> QED BY <1>2, <1>6, <2>1, <2>4, <2>5
  <1> HIDE DEF K, Falls
  <1>8. FailedWalkBound(d).bound = Cardinality(K)
    BY <1>3
  <1>9. FailedWalkBound(d).bounded => f[N] = {}
    <2> DEFINE Z == f[N] = {}
    <2>1. FailedWalkBound(d).bounded = Z
      <3> HIDE DEF Z, K
      <3>1. FailedWalkBound(d) = [bounded |-> Z, bound |-> Cardinality(K)]
        BY <1>3 DEF Z
      <3> QED BY <3>1
    <2> QED BY <2>1
  <1>10. \A m \in 0..N : FailedWalkBound(d).bounded /\ f[m] # {}
                         => m < N /\ m + 1 <= FailedWalkBound(d).bound
    BY <1>7, <1>8, <1>9
  <1> QED BY <1>6, <1>8, <1>10 DEF L, N, f
-----------------------------------------------------------------------------
(* An attempt without an accept follows a path of the classification. *)

\* Where q is reached after m bytes, and a path of j steps goes on from it, there
\* is one of j + m steps (or of as many as are counted).
Traced(d, q, m) ==
    LET N == Cardinality(Live(d))
        f == Paths(d, Live(d))
    IN  \A j \in 0..N : q \in f[j] => f[Smaller(j + m, N)] # {}

LEMMA TracedBegins ==
    ASSUME NEW d \in Automaton, NEW q
    PROVE  Traced(d, q, 0)
  <1>1. Cardinality(Live(d)) \in Nat
    BY LiveClosed
  <1>2. \A j \in 0..Cardinality(Live(d)) : Smaller(j + 0, Cardinality(Live(d))) = j
    BY <1>1 DEF Smaller
  <1> QED BY <1>2 DEF Traced

LEMMA TracedOn ==
    ASSUME NEW d \in Automaton, NEW q \in Reach(d) \ d.acc, NEW r \in Onward(d, q),
           NEW m \in Nat, Traced(d, q, m)
    PROVE  Traced(d, r, m + 1)
  <1> DEFINE L == Live(d)
             N == Cardinality(L)
             f == Paths(d, L)
  <1>1. /\ f[0] = L
        /\ \A k \in 1..N : f[k] = {s \in L : Onward(d, s) \cap f[k - 1] # {}}
        /\ \A k \in 0..N : f[k] \in SUBSET L
    BY PathsAre
  <1>2. N \in Nat /\ (r \in L => q \in L)
    BY LiveClosed
  <1>3. \A j \in 0..N : q \in f[j] => f[Smaller(j + m, N)] # {}
    BY DEF Traced
  <1> HIDE DEF L, N, f
  <1>4. ASSUME NEW j \in 0..N, r \in f[j] PROVE f[Smaller(j + (m + 1), N)] # {}
    <2>1. q \in L
      BY <1>1, <1>2, <1>4
    <2>2. CASE j = N
      <3>1. Smaller(j + (m + 1), N) = N
        BY <1>2, <2>2 DEF Smaller
      <3> QED BY <1>4, <2>2, <3>1
    <2>3. CASE j # N
      <3>1. j + 1 \in 1..N /\ j + 1 \in 0..N /\ j + 1 - 1 = j
        BY <1>2, <2>3
      <3>2. q \in f[j + 1]
        BY <1>1, <1>4, <2>1, <3>1
      <3>3. f[Smaller(j + 1 + m, N)] # {}
        BY <1>3, <3>1, <3>2
      <3>4. j + 1 + m = j + (m + 1)
        BY <1>2
      <3> QED BY <3>3, <3>4
    <2> QED BY <2>2, <2>3
  <1> QED BY <1>4 DEF Traced, L, N, f

\* An attempt that fails has walked less than the bound.
LEMMA TracedEnds ==
    ASSUME NEW d \in Automaton, NEW q \in Reach(d) \ d.acc, CanFail(d, q), NEW m \in Nat,
           Traced(d, q, m), FailedWalkBound(d).bounded
    PROVE  m + 1 <= FailedWalkBound(d).bound
  <1> DEFINE L == Live(d)
             N == Cardinality(L)
             f == Paths(d, L)
             B == FailedWalkBound(d).bound
  <1>1. f[0] = L /\ N \in Nat /\ q \in L
    BY PathsAre, LiveClosed
  <1>2. \A j \in 0..N : q \in f[j] => f[Smaller(j + m, N)] # {}
    BY DEF Traced
  <1>3. B \in Nat /\ \A k \in 0..N : f[k] # {} => k < N /\ k + 1 <= B
    BY PathBound
  <1> HIDE DEF L, N, f, B
  <1>4. 0 \in 0..N /\ 0 + m = m
    BY <1>1
  <1>5. f[Smaller(m, N)] # {}
    BY <1>1, <1>2, <1>4
  <1>6. Smaller(m, N) \in 0..N /\ (Smaller(m, N) < N => Smaller(m, N) = m)
    BY <1>1 DEF Smaller
  <1>7. Smaller(m, N) < N /\ Smaller(m, N) + 1 <= B
    BY <1>3, <1>5, <1>6
  <1>8. m + 1 <= B
    BY <1>6, <1>7
  <1> QED BY <1>8 DEF B
-----------------------------------------------------------------------------
(* A body left as it is: what it is classified by, where its attempts stand, and  *)
(* what they have cost.                                                       *)

Both == plan.skip /\ plan.eofSkip

Classified ==
    /\ plan.bound \in Nat
    /\ plan.strategy = "today" =>
          Both \/ (FailedWalkBound(pat.dfa).bounded /\ plan.bound = FailedWalkBound(pat.dfa).bound)

\* The walk of an attempt that has accepted nothing yet.
Follows(q, m) == \/ q = Dead /\ m = 0
                 \/ q \in Reach(pat.dfa) \ pat.dfa.acc /\ Traced(pat.dfa, q, m)

Reached ==
    plan.strategy = "today" =>
    /\ pc \in Body \union {"host"}
    /\ pc = "walk" /\ w.last = NoMatch => Follows(w.st, w.pos - w.start)
    /\ pc = "failed" => Both \/ w.pos - w.start <= plan.bound

PerStart == plan.bound + 1

CostOfToday ==
    plan.strategy = "today" =>
    /\ pc = "outer" => work.bytes <= PerStart * Way
    /\ pc = "walk" => work.bytes <= PerStart * Way + (w.pos - w.start)
    /\ pc = "failed" => work.bytes <= PerStart * Way + (w.pos - w.start) + 1
    /\ pc = "host" => work.bytes <= PerStart * Given

AsToday == Classified /\ Reached /\ CostOfToday

LEMMA InitToday == Init => AsToday
  <1> SUFFICES ASSUME Init PROVE AsToday
    OBVIOUS
  <1>1. PICK mode \in Modes : plan = Plan(pat, mode)
    BY DEF Init
  <1>2. pat.dfa \in Automaton
    BY PatternAssumption DEF Init
  <1> DEFINE B == FailedWalkBound(pat.dfa)
             s == ClassifyFind(pat, mode, B.bounded)
  <1>3. /\ plan.strategy = IF s = "new" /\ Refused(pat) THEN "switch" ELSE s
        /\ plan.bound = IF B.bounded THEN B.bound ELSE 0
        /\ plan.skip = SkipSafeOnDead(pat.dfa) /\ plan.eofSkip = EofSkipSafe(pat.dfa)
    BY <1>1 DEF Plan
  <1>4. B.bound \in Nat
    BY <1>2, PathBound
  <1>5. plan.strategy = "today" => B.bounded \/ AttemptsLinear(pat)
    <2> HIDE DEF B
    <2>1. s \in {"today", "new", "switch"} /\ (s = "today" => B.bounded \/ AttemptsLinear(pat))
      BY DEF ClassifyFind, ByLead
    <2> QED BY <1>3, <2>1
  <1>6. AttemptsLinear(pat) => Both
    BY <1>3 DEF AttemptsLinear, Both
  <1> HIDE DEF B
  <1>7. plan.bound \in Nat
    BY <1>3, <1>4
  <1>8. Classified
    BY <1>3, <1>5, <1>6, <1>7 DEF Classified, B
  <1>9. pc = "host" /\ work.bytes = 0
    BY DEF Init
  <1>10. Reached
    BY <1>9 DEF Reached
  <1>11. PerStart * Given \in Nat
    <2>1. Given \in Nat
      BY InitTyped, Figures
    <2> QED BY <1>7, <2>1 DEF PerStart
  <1> QED BY <1>8, <1>9, <1>10, <1>11 DEF AsToday, CostOfToday

LEMMA ClassifiedStays == Classified /\ UNCHANGED <<pat, plan>> => Classified'
  BY DEF Classified, Both

\* A step of another strategy.
LEMMA NotToday ==
    ASSUME AsToday, UNCHANGED <<pat, plan>>, plan.strategy # "today"
    PROVE  AsToday'
  BY ClassifiedStays DEF AsToday, Reached, CostOfToday

\* A find that ends has read what it read before, or one byte more.
LEMMA TodayEnds ==
    ASSUME Typed, AsToday, UNCHANGED <<pat, plan, text>>, pc' = "host", work'.begun = work.begun,
           \/ pc \in {"host", "outer"} /\ work'.bytes = work.bytes
           \/ pc = "walk" /\ work'.bytes <= work.bytes + 1
           \/ pc = "failed" /\ work'.bytes = work.bytes,
           work'.bytes \in Nat
    PROVE  AsToday'
  <1>1. /\ n \in Nat /\ Given \in Nat /\ Given = n - work.begun + 1 /\ work.bytes \in Nat
        /\ w.pos \in 0..n /\ w.start \in 0..(n + 1)
        /\ pc \in Body => Way \in 0..Given /\ Way = w.start - work.begun
        /\ pc \in {"walk", "failed"} => w.start <= w.pos
        /\ work.begun \in 0..n
    BY Figures DEF Way
  <1>2. PerStart \in Nat /\ PerStart >= 1
    BY DEF AsToday, Classified, PerStart
  <1>3. Given' = Given /\ PerStart' = PerStart
    BY DEF Given, PerStart, n, LenOf
  <1>4. Classified' /\ Reached'
    BY ClassifiedStays DEF AsToday, Reached
  <1>5. plan.strategy = "today" => work'.bytes <= PerStart * Given
    <2> SUFFICES ASSUME plan.strategy = "today" PROVE work'.bytes <= PerStart * Given
      OBVIOUS
    <2>1. CASE pc = "host"
      BY <1>1, <2>1 DEF AsToday, CostOfToday
    <2>2. CASE pc \in Body
      <3> DEFINE rest == Given - Way
                 P == PerStart * Way
      <3>1. rest \in Nat /\ Given = Way + rest /\ Way \in Nat
        BY <1>1, <2>2
      <3>2. PerStart * Given = P + PerStart * rest
        <4>1. PerStart * (Way + rest) = PerStart * Way + PerStart * rest
          BY <1>2, <3>1, Grows
        <4> HIDE DEF rest
        <4> QED BY <3>1, <4>1
      <3>3. P \in Nat /\ PerStart * rest \in Nat /\ PerStart * rest >= rest
        <4>1. PerStart = (PerStart - 1) + 1 /\ PerStart - 1 \in Nat
          BY <1>2
        <4>2. PerStart * rest = (PerStart - 1) * rest + rest /\ (PerStart - 1) * rest \in Nat
          BY <3>1, <4>1
        <4> HIDE DEF rest
        <4> QED BY <1>2, <3>1, <4>2
      <3>4. pc = "outer" \/ rest = n - w.start + 1
        BY <1>1, <2>2
      <3>5. /\ pc = "outer" => work.bytes <= P /\ work'.bytes = work.bytes
            /\ pc = "walk" => work.bytes <= P + (w.pos - w.start) /\ work'.bytes <= work.bytes + 1
            /\ pc = "failed" => work.bytes <= P + (w.pos - w.start) + 1 /\ work'.bytes = work.bytes
        BY DEF AsToday, CostOfToday
      <3> DEFINE Q == PerStart * rest
      <3>6. Q \in Nat /\ Q >= rest /\ PerStart * Given = P + Q
        BY <3>2, <3>3
      <3> HIDE DEF rest, P, Q
      <3>7. work'.bytes <= P + Q
        <4>1. CASE pc = "outer"
          BY <1>1, <3>1, <3>3, <3>5, <3>6, <4>1
        <4>2. CASE pc = "walk"
          BY <1>1, <3>1, <3>3, <3>4, <3>5, <3>6, <4>2
        <4>3. CASE pc = "failed"
          BY <1>1, <3>1, <3>3, <3>4, <3>5, <3>6, <4>3
        <4> QED BY <2>2, <4>1, <4>2, <4>3 DEF Body
      <3> QED BY <3>6, <3>7
    <2> QED BY <2>1, <2>2 DEF AsToday, Reached
  <1> QED BY <1>3, <1>4, <1>5 DEF AsToday, CostOfToday

LEMMA FindToday == Typed /\ AsToday /\ Find => AsToday'
  <1> SUFFICES ASSUME Typed, AsToday, Find, plan.strategy = "today" PROVE AsToday'
    BY NotToday DEF Find
  <1>1. n \in Nat /\ n' = n /\ host.from \in 0..n
    BY TextTyped DEF Find, Typed, TypeOK, n
  <1>2. Seed(pat.dfa, text, host.from) \in host.from..n
    BY <1>1, SeedNear DEF Typed
  <1>3. w'.start = Seed(pat.dfa, text, host.from)
    BY DEF Find, NoLocals
  <1>4. work' = [begun |-> host.from, bytes |-> 0] /\ pc' = "outer" /\ UNCHANGED <<pat, plan>>
    BY DEF Find
  <1>5. work'.bytes = 0 /\ Way' \in Nat
    BY <1>1, <1>2, <1>3, <1>4 DEF Way
  <1>6. PerStart' \in Nat
    BY <1>4 DEF AsToday, Classified, PerStart
  <1>7. PerStart' * Way' \in Nat
    <2> DEFINE a == PerStart'
               c == Way'
    <2>1. a \in Nat /\ c \in Nat
      BY <1>5, <1>6
    <2> HIDE DEF a, c
    <2>2. a * c \in Nat
      BY <2>1
    <2> QED BY <2>2 DEF a, c
  <1> QED BY <1>4, <1>5, <1>7, ClassifiedStays DEF AsToday, Reached, CostOfToday, Body

LEMMA PastTheEndToday == Typed /\ AsToday /\ PastTheEnd => AsToday'
  <1> SUFFICES ASSUME Typed, AsToday, PastTheEnd PROVE AsToday'
    OBVIOUS
  <1>1. /\ UNCHANGED <<pat, plan, text, work>> /\ pc = "host" /\ pc' = "host"
    BY DEF PastTheEnd, Stop
  <1> QED BY <1>1, Figures, TodayEnds

\* An attempt begins in an entry, and what is not an accept is reachable.
LEMMA BeginsFollowing ==
    ASSUME Typed, NEW s \in 0..n, Begins(pat.dfa, text, s) \notin pat.dfa.acc
    PROVE  Follows(Begins(pat.dfa, text, s), 0)
  <1> DEFINE d == pat.dfa
             q == Begins(d, text, s)
  <1>1. d \in Automaton
    BY PatternAssumption DEF Typed, Placed
  <1>2. q \in Entries(d)
    <2>1. s # 0 => ByteAt(text, s - 1) \in Bytes
      BY TextTyped DEF Typed
    <2> QED BY <2>1 DEF Begins, Entries
  <1>3. q # Dead => q \in Reach(d)
    BY <1>1, <1>2, ReachClosed
  <1>4. Traced(d, q, 0)
    BY <1>1, TracedBegins
  <1> QED BY <1>3, <1>4 DEF Follows

LEMMA AttemptToday == Typed /\ AsToday /\ Attempt => AsToday'
  <1>0. Attempt => UNCHANGED <<pat, plan>>
    BY DEF Attempt
  <1> SUFFICES ASSUME Typed, AsToday, Attempt, plan.strategy = "today" PROVE AsToday'
    BY <1>0, NotToday
  <1>1. w = [start |-> w.start, pos |-> w.pos, st |-> w.st, last |-> w.last, end |-> w.end]
    BY LocalsAre DEF Typed, TypeOK
  <1>2. PICK s \in w.start..n :
          \/ Return(s, s)
          \/ /\ w'.start = s /\ w'.pos = s /\ w'.st = Begins(pat.dfa, text, s) /\ pc' = "walk"
             /\ w'.last = IF Accepting(Begins(pat.dfa, text, s), s) THEN s ELSE NoMatch
    BY <1>1 DEF Attempt
  <1>3. pc = "outer" /\ UNCHANGED <<pat, plan, text, table, work>>
    BY DEF Attempt
  <1>4. CASE Return(s, s)
    BY <1>3, <1>4, TodayEnds, Figures DEF Return
  <1>5. CASE /\ w'.start = s /\ w'.pos = s /\ w'.st = Begins(pat.dfa, text, s) /\ pc' = "walk"
             /\ w'.last = IF Accepting(Begins(pat.dfa, text, s), s) THEN s ELSE NoMatch
    <2>1. /\ s \in 0..n /\ n \in Nat /\ w.start \in Nat /\ work.begun \in Nat /\ Way \in Nat
          /\ s - s = 0
      BY <1>3, Figures DEF Body
    <2>2. w'.last = NoMatch => Begins(pat.dfa, text, s) \notin pat.dfa.acc
      BY <1>5, <2>1 DEF Accepting, NoMatch
    <2>3. w'.last = NoMatch => Follows(w'.st, w'.pos - w'.start)
      BY <1>5, <2>1, <2>2, BeginsFollowing
    <2>4. Reached'
      BY <1>3, <1>5, <2>3 DEF Reached, Follows, Body
    <2> DEFINE k == s - w.start
    <2>5. k \in Nat /\ Way' = Way + k
      BY <1>3, <1>5, <2>1 DEF Way
    <2>6. PerStart \in Nat /\ PerStart' = PerStart
      BY <1>3 DEF AsToday, Classified, PerStart
    <2> HIDE DEF k
    <2>7. PerStart * (Way + k) >= PerStart * Way /\ PerStart * (Way + k) \in Nat /\ PerStart * Way \in Nat
      BY <2>1, <2>5, <2>6, Grows
    <2>8. work.bytes <= PerStart * Way /\ work.bytes \in Nat
      BY <1>3, Figures DEF AsToday, CostOfToday
    <2>9. work'.bytes <= PerStart' * Way' + (w'.pos - w'.start)
      <3>1. work.bytes <= PerStart * (Way + k) + 0
        BY <2>7, <2>8
      <3> QED BY <1>3, <1>5, <2>1, <2>5, <2>6, <3>1
    <2> QED BY <1>3, <1>5, <2>4, <2>9, ClassifiedStays DEF AsToday, CostOfToday
  <1> QED BY <1>2, <1>4, <1>5

LEMMA NoMoreStartsToday == Typed /\ AsToday /\ NoMoreStarts => AsToday'
  <1> SUFFICES ASSUME Typed, AsToday, NoMoreStarts PROVE AsToday'
    OBVIOUS
  <1>1. pc = "outer" /\ pc' = "host" /\ UNCHANGED <<pat, plan, text, work>>
    BY DEF NoMoreStarts, Stop
  <1> QED BY <1>1, TodayEnds, Figures

\* What has failed without an accept has walked less than the bound.
LEMMA FailedWithin ==
    ASSUME Typed, AsToday, plan.strategy = "today", pc = "walk", w.last = NoMatch,
           w.st = Dead \/ CanFail(pat.dfa, w.st)
    PROVE  Both \/ w.pos - w.start <= plan.bound
  <1> DEFINE d == pat.dfa
             m == w.pos - w.start
  <1>1. d \in Automaton
    BY PatternAssumption DEF Typed, Placed
  <1>2. m \in Nat
    BY Figures
  <1>3. Follows(w.st, m)
    BY DEF AsToday, Reached
  <1>4. plan.bound \in Nat
    BY DEF AsToday, Classified
  <1>5. ASSUME ~Both PROVE FailedWalkBound(d).bounded /\ plan.bound = FailedWalkBound(d).bound
    BY <1>5 DEF AsToday, Classified
  <1> HIDE DEF m
  <1>6. CASE w.st = Dead
    <2>1. Dead \notin Reach(d)
      BY <1>1, ReachClosed, StateAssumption
    <2>2. m = 0
      BY <1>3, <1>6, <2>1 DEF Follows
    <2> QED BY <1>4, <2>2 DEF m
  <1>7. CASE w.st # Dead /\ ~Both
    <2>1. w.st \in Reach(d) \ d.acc /\ Traced(d, w.st, m) /\ CanFail(d, w.st)
      BY <1>3, <1>7 DEF Follows
    <2>2. FailedWalkBound(d).bounded /\ plan.bound = FailedWalkBound(d).bound
      BY <1>5, <1>7
    <2> HIDE DEF d
    <2>3. m + 1 <= FailedWalkBound(d).bound
      BY <1>1, <1>2, <2>1, <2>2, TracedEnds
    <2>4. m <= plan.bound
      BY <1>2, <1>4, <2>2, <2>3
    <2> QED BY <2>4 DEF m
  <1> QED BY <1>6, <1>7

\* A walk goes on to a state that accepts nothing only by a byte that is not
\* accepted by what follows it.
LEMMA FollowsOn ==
    ASSUME Typed, AsToday, plan.strategy = "today", pc = "walk", w.last = NoMatch,
           NEW c \in Bytes \ pat.dfa.pre[w.st],
           pat.dfa.delta[w.st][c] \notin pat.dfa.acc \union {Dead}
    PROVE  Follows(pat.dfa.delta[w.st][c], w.pos - w.start + 1)
  <1> DEFINE d == pat.dfa
             q == w.st
             r == d.delta[q][c]
             m == w.pos - w.start
  <1>1. d \in Automaton /\ d.delta[Dead] = [b \in Bytes |-> Dead]
    BY PatternAssumption DEF Typed, Placed
  <1>2. m \in Nat /\ Follows(q, m)
    BY Figures DEF AsToday, Reached
  <1>3. q # Dead
    BY <1>1
  <1>4. q \in Reach(d) \ d.acc /\ Traced(d, q, m)
    BY <1>2, <1>3 DEF Follows
  <1>5. r \in Onward(d, q)
    BY DEF Onward
  <1>6. r \in Reach(d) \ d.acc
    BY <1>1, <1>4, ReachClosed
  <1> HIDE DEF d, q, r, m
  <1>7. Traced(d, r, m + 1)
    BY <1>1, <1>2, <1>4, <1>5, TracedOn
  <1> QED BY <1>6, <1>7 DEF Follows, d, q, r, m

\* What a walk that neither ends nor fails costs.
LEMMA WalkToday ==
    ASSUME Typed, AsToday, plan.strategy = "today", pc = "walk", UNCHANGED <<pat, plan, text>>,
           work'.begun = work.begun, NEW r \in {0, 1}, work'.bytes = work.bytes + r,
           \/ pc' = "host"
           \/ pc' = "failed" /\ w' = w /\ (Both \/ w.pos - w.start <= plan.bound)
           \/ /\ pc' = "walk" /\ w'.start = w.start /\ w'.pos = w.pos + 1
              /\ w'.last = NoMatch => Follows(w'.st, w'.pos - w'.start)
    PROVE  AsToday'
  <1>1. work.bytes \in Nat /\ w.pos \in Nat /\ w.start \in Nat /\ Way \in Nat
    BY Figures DEF Body
  <1>2. PerStart \in Nat /\ plan.bound \in Nat
    BY DEF AsToday, Classified, PerStart
  <1>3. CASE pc' = "host"
    BY <1>1, <1>3, TodayEnds
  <1>4. CASE pc' # "host"
    <2>1. Way' = Way /\ PerStart' = PerStart /\ Both' = Both
      BY <1>4 DEF Way, PerStart, Both
    <2>2. Reached'
      BY <1>4, <2>1 DEF Reached, Follows, Body
    <2> DEFINE P == PerStart * Way
    <2>3. P \in Nat /\ P' = P
      BY <1>1, <1>2, <2>1
    <2>4. work.bytes <= P + (w.pos - w.start)
      BY DEF AsToday, CostOfToday
    <2> HIDE DEF P
    <2>5. work'.bytes <= P + (w'.pos - w'.start) + (IF pc' = "failed" THEN 1 ELSE 0)
      BY <1>1, <1>4, <2>3, <2>4
    <2>6. pc' = "walk" => work'.bytes <= P' + (w'.pos - w'.start)
      BY <1>1, <1>4, <2>3, <2>5
    <2>7. pc' = "failed" => work'.bytes <= P' + (w'.pos - w'.start) + 1
      BY <1>1, <1>4, <2>3, <2>5
    <2> QED BY <1>4, <2>2, <2>6, <2>7, ClassifiedStays DEF AsToday, CostOfToday, P
  <1> QED BY <1>3, <1>4

LEMMA AtEndToday == Typed /\ AsToday /\ AtEnd => AsToday'
  <1>0. AtEnd => UNCHANGED <<pat, plan>>
    BY DEF AtEnd
  <1> SUFFICES ASSUME Typed, AsToday, AtEnd, plan.strategy = "today" PROVE AsToday'
    BY <1>0, NotToday
  <1> DEFINE last == IF w.st \in pat.dfa.eof THEN n ELSE w.last
  <1>1. /\ pc = "walk" /\ Settles(last) /\ UNCHANGED <<pat, plan, text, work>>
    BY DEF AtEnd
  <1>2. n \in Nat /\ w.last \in Nat \union {NoMatch} /\ work.bytes \in Nat
    BY Figures DEF Typed, TypeOK, Locals
  <1>3. last < 0 => w.last = NoMatch /\ CanFail(pat.dfa, w.st)
    BY <1>2 DEF CanFail
  <1> HIDE DEF last
  <1>4. pc' = "host" \/ (pc' = "failed" /\ w' = w /\ last < 0)
    <2>1. last \in Int
      BY <1>2 DEF last, NoMatch
    <2> QED BY <1>1, <2>1 DEF Settles, Return, Fails
  <1>5. last < 0 => Both \/ w.pos - w.start <= plan.bound
    BY <1>1, <1>3, FailedWithin
  <1>6. work'.bytes = work.bytes + 0 /\ work'.begun = work.begun
    BY <1>1, <1>2
  <1> QED BY <1>1, <1>4, <1>5, <1>6, WalkToday

LEMMA DiesToday == Typed /\ AsToday /\ Dies => AsToday'
  <1>0. Dies => UNCHANGED <<pat, plan>>
    BY DEF Dies
  <1> SUFFICES ASSUME Typed, AsToday, Dies, plan.strategy = "today" PROVE AsToday'
    BY <1>0, NotToday
  <1> DEFINE d == pat.dfa
             last == LastOf(d)
  <1>1. /\ pc = "walk" /\ Settles(last) /\ UNCHANGED <<pat, plan, text>> /\ w.pos < n
        /\ Outranks(d) \/ NextOf(d) = Dead
    BY DEF Dies
  <1>2. /\ n \in Nat /\ w.last \in Nat \union {NoMatch} /\ work.bytes \in Nat /\ w.pos \in 0..n
    BY Figures DEF Typed, TypeOK, Locals
  <1>3. Byte \in Bytes
    BY <1>1, <1>2, TextTyped DEF Byte, Typed
  <1>4. last < 0 => w.last = NoMatch /\ CanFail(d, w.st)
    <2> SUFFICES ASSUME last < 0 PROVE w.last = NoMatch /\ CanFail(d, w.st)
      OBVIOUS
    <2>1. Byte \notin d.pre[w.st]
      BY <1>2 DEF LastOf
    <2>2. w.last = NoMatch
      BY <1>2, <2>1 DEF LastOf
    <2>3. NextOf(d) = Dead
      BY <1>1, <2>1 DEF Outranks
    <2> QED BY <1>3, <2>1, <2>2, <2>3 DEF NextOf, CanFail
  <1>5. last \in Int
    BY <1>2 DEF LastOf, NoMatch
  <1> HIDE DEF last, d
  <1>6. pc' = "host" \/ (pc' = "failed" /\ w' = w /\ last < 0)
    BY <1>1, <1>5 DEF Settles, Return, Fails
  <1>7. last < 0 => Both \/ w.pos - w.start <= plan.bound
    BY <1>1, <1>4, FailedWithin DEF d
  <1>8. work'.bytes = work.bytes + 1 /\ work'.begun = work.begun
    BY ReadsTyped, Figures DEF Dies
  <1> QED BY <1>1, <1>6, <1>7, <1>8, WalkToday

LEMMA MovesToday == Typed /\ AsToday /\ Moves => AsToday'
  <1>0. Moves => UNCHANGED <<pat, plan>>
    BY DEF Moves
  <1> SUFFICES ASSUME Typed, AsToday, Moves, plan.strategy = "today" PROVE AsToday'
    BY <1>0, NotToday
  <1> DEFINE d == pat.dfa
             r == NextOf(d)
  <1>1. /\ pc = "walk" /\ UNCHANGED <<pat, plan, text>> /\ w.pos < n
        /\ ~Outranks(d) /\ r # Dead
    BY DEF Moves
  <1>2. /\ n \in Nat /\ w.last \in Nat \union {NoMatch} /\ work.bytes \in Nat /\ w.pos \in 0..n
        /\ w.start \in Nat
    BY Figures DEF Typed, TypeOK, Locals
  <1>3. Byte \in Bytes
    BY <1>1, <1>2, TextTyped DEF Byte, Typed
  <1>4. w = [start |-> w.start, pos |-> w.pos, st |-> w.st, last |-> w.last, end |-> w.end]
    BY LocalsAre DEF Typed, TypeOK
  <1>5. \/ pc' = "host"
        \/ /\ pc' = "walk" /\ w'.start = w.start /\ w'.pos = w.pos + 1 /\ w'.st = r
           /\ w'.last = IF r \in d.acc THEN w.pos + 1 ELSE LastOf(d)
    BY <1>1, <1>4 DEF Moves, Return
  <1>6. ASSUME pc' # "host", w'.last = NoMatch PROVE Follows(w'.st, w'.pos - w'.start)
    <2>1. r \notin d.acc /\ LastOf(d) = NoMatch
      BY <1>2, <1>5, <1>6 DEF NoMatch
    <2>2. Byte \notin d.pre[w.st] /\ w.last = NoMatch
      BY <1>2, <2>1 DEF LastOf, NoMatch
    <2>3. Follows(r, w.pos - w.start + 1)
      BY <1>1, <1>3, <2>1, <2>2, FollowsOn DEF NextOf
    <2>4. w'.pos - w'.start = w.pos - w.start + 1
      BY <1>2, <1>5, <1>6
    <2> QED BY <1>5, <1>6, <2>3, <2>4
  <1>7. work'.bytes = work.bytes + 1 /\ work'.begun = work.begun
    BY ReadsTyped, Figures DEF Moves
  <1> HIDE DEF r, d
  <1> QED BY <1>1, <1>5, <1>6, <1>7, WalkToday

LEMMA FailsToday == Typed /\ AsToday /\ (FailsSkipping \/ FailsCharged) => AsToday'
  <1>0. FailsSkipping \/ FailsCharged => UNCHANGED <<pat, plan>>
    BY DEF FailsSkipping, FailsCharged
  <1> SUFFICES ASSUME Typed, AsToday, FailsSkipping \/ FailsCharged, plan.strategy = "today"
               PROVE AsToday'
    BY <1>0, NotToday
  <1>1. pc = "failed" /\ UNCHANGED <<pat, plan, text, work>>
    BY DEF FailsSkipping, FailsCharged
  <1>2. /\ Way \in Nat /\ w.start \in Nat /\ w.pos \in Nat /\ Walk \in Nat /\ work.bytes \in Nat
        /\ work.begun \in Nat
    BY <1>1, Figures DEF Walk, Body
  <1>3. plan.bound \in Nat /\ PerStart = plan.bound + 1 /\ PerStart' = PerStart
    BY <1>1 DEF AsToday, Classified, PerStart
  <1>4. work.bytes <= PerStart * Way + Walk + 1 /\ (Both \/ Walk <= plan.bound)
    BY <1>1 DEF AsToday, CostOfToday, Reached, Walk
  <1>5. w = [start |-> w.start, pos |-> w.pos, st |-> w.st, last |-> w.last, end |-> w.end]
    BY LocalsAre DEF Typed, TypeOK
  <1>6. CASE Stop("done")
    BY <1>1, <1>2, <1>6, TodayEnds DEF Stop
  <1>7. ASSUME NEW k \in Nat, w'.start = w.start + k, pc' = "outer", Walk + 1 <= PerStart * k
        PROVE  AsToday'
    <2>1. Way' = Way + k
      BY <1>1, <1>2, <1>7 DEF Way
    <2>2. PerStart * (Way + k) = PerStart * Way + PerStart * k
      BY <1>2, <1>3, Grows
    <2>3. PerStart * Way \in Nat /\ PerStart * k \in Nat
      BY <1>2, <1>3
    <2> DEFINE P == PerStart * Way
               Q == PerStart * k
    <2>4. P \in Nat /\ Q \in Nat /\ work.bytes <= P + Walk + 1 /\ Walk + 1 <= Q
      BY <1>4, <1>7, <2>3
    <2>5. PerStart' * Way' = P + Q
      BY <1>3, <2>1, <2>2
    <2> HIDE DEF P, Q
    <2>6. work.bytes <= P + Q
      BY <1>2, <2>4
    <2>7. work'.bytes <= PerStart' * Way'
      BY <1>1, <2>5, <2>6
    <2>8. Reached'
      BY <1>7 DEF Reached, Body
    <2> QED BY <1>1, <1>7, <2>7, <2>8, ClassifiedStays DEF AsToday, CostOfToday
  <1>8. CASE w' = [w EXCEPT !.start = w.pos + 1] /\ pc' = "outer"
    <2> DEFINE k == Walk + 1
    <2>1. k \in Nat /\ w'.start = w.start + k
      BY <1>2, <1>5, <1>8 DEF Walk
    <2>2. PerStart * k = plan.bound * k + k /\ plan.bound * k \in Nat
      BY <1>2, <1>3
    <2>3. k <= PerStart * k
      BY <2>1, <2>2
    <2> HIDE DEF k
    <2>4. Walk + 1 <= PerStart * k
      BY <2>3 DEF k
    <2> QED BY <1>7, <1>8, <2>1, <2>4
  <1>9. CASE FailsCharged
    <2>1. w'.start = w.start + 1 /\ pc' = "outer" /\ ~Skips
      BY <1>5, <1>9 DEF FailsCharged
    <2>2. ~Both
      BY <2>1 DEF Skips, Both
    <2>3. Walk + 1 <= PerStart * 1
      BY <1>2, <1>3, <1>4, <2>2
    <2> QED BY <1>7, <2>1, <2>3
  <1> QED BY <1>6, <1>8, <1>9 DEF FailsSkipping

\* A body left as it is never hands its find over.
LEMMA PassesToday ==
    Typed /\ AsToday /\ (HandsOver \/ Backtracks \/ StartsForward \/ Forwards \/ Turns
                         \/ Backwards \/ Meets)
    => AsToday'
  <1> SUFFICES ASSUME Typed, AsToday, HandsOver \/ Backtracks \/ StartsForward \/ Forwards \/ Turns
                                      \/ Backwards \/ Meets
               PROVE AsToday'
    OBVIOUS
  <1>1. UNCHANGED <<pat, plan>>
    BY DEF HandsOver, Backtracks, StartsForward, Forwards, Turns, Backwards, Meets
  <1>2. plan.strategy # "today"
    <2>1. HandsOver => plan.strategy = "switch"
      BY DEF HandsOver, Long
    <2>2. Backtracks \/ StartsForward \/ Forwards \/ Turns \/ Backwards \/ Meets
          => pc \notin Body \union {"host"}
      BY DEF Backtracks, StartsForward, Forwards, Turns, Backwards, Meets, Body
    <2> QED BY <2>1, <2>2 DEF AsToday, Reached
  <1> QED BY <1>1, <1>2, NotToday

LEMMA NextToday == Typed /\ AsToday /\ [Next]_vars => AsToday'
  <1> SUFFICES ASSUME Typed, AsToday, [Next]_vars PROVE AsToday'
    OBVIOUS
  <1>1. CASE UNCHANGED vars
    <2>1. UNCHANGED <<pat, plan, text, pc, w, work>>
      BY <1>1 DEF vars
    <2>2. Way' = Way /\ Given' = Given /\ PerStart' = PerStart /\ Both' = Both
      BY <2>1 DEF Way, Given, PerStart, Both, n, LenOf
    <2> QED BY <2>1, <2>2, ClassifiedStays DEF AsToday, Reached, CostOfToday, Follows
  <1>2. CASE Host
    BY <1>2, FindToday, PastTheEndToday DEF Host
  <1>3. CASE Search
    BY <1>3, AttemptToday, NoMoreStartsToday, AtEndToday, DiesToday, MovesToday, FailsToday,
       PassesToday DEF Search
  <1> QED BY <1>1, <1>2, <1>3 DEF Next, Ended

LEMMA TodayWithin == Typed /\ AsToday => BodyLinear
  <1> SUFFICES ASSUME Typed, AsToday, plan.strategy = "today"
               PROVE  work.bytes <= (plan.bound + 2) * Given
    BY DEF BodyLinear
  <1>1. /\ n \in Nat /\ Given \in Nat /\ Given = n - work.begun + 1 /\ work.bytes \in Nat
        /\ w.pos \in 0..n /\ w.start \in 0..(n + 1) /\ work.begun \in 0..n
        /\ pc \in Body => Way \in 0..Given /\ Way = w.start - work.begun
        /\ pc \in {"walk", "failed"} => w.start <= w.pos
    BY Figures DEF Way
  <1>2. plan.bound \in Nat /\ PerStart \in Nat
    BY DEF AsToday, Classified, PerStart
  <1> DEFINE P == PerStart * Given
  <1>3. P \in Nat /\ (plan.bound + 2) * Given = P + Given
    <2> DEFINE c == plan.bound
               G == Given
    <2>1. c \in Nat /\ G \in Nat
      BY <1>1, <1>2
    <2> HIDE DEF c, G
    <2>2. (c + 2) * G = (c + 1) * G + G /\ (c + 1) * G \in Nat
      BY <2>1
    <2> QED BY <2>2 DEF PerStart, c, G
  <1>4. pc \in Body => PerStart * Way \in Nat /\ PerStart * Way <= P
    <2> SUFFICES ASSUME pc \in Body PROVE PerStart * Way \in Nat /\ PerStart * Way <= P
      OBVIOUS
    <2>1. Way \in Nat /\ Given - Way \in Nat /\ Given = Way + (Given - Way)
      BY <1>1
    <2>2. PerStart * (Way + (Given - Way)) >= PerStart * Way
      BY <1>2, <2>1, Grows
    <2> QED BY <1>2, <2>1, <2>2
  <1> HIDE DEF P
  <1> DEFINE Q == PerStart * Way
  <1>5. /\ pc = "outer" => work.bytes <= Q
        /\ pc = "walk" => work.bytes <= Q + (w.pos - w.start)
        /\ pc = "failed" => work.bytes <= Q + (w.pos - w.start) + 1
        /\ pc = "host" => work.bytes <= P
    BY DEF AsToday, CostOfToday, P
  <1>6. pc \in Body => Q \in Nat /\ Q <= P
    BY <1>4
  <1>7. pc \in Body \union {"host"}
    BY DEF AsToday, Reached
  <1> HIDE DEF Q
  <1>8. work.bytes <= P + Given
    <2>1. CASE pc = "host"
      BY <1>1, <1>3, <1>5, <2>1
    <2>2. CASE pc = "outer"
      BY <1>1, <1>3, <1>5, <1>6, <2>2 DEF Body
    <2>3. CASE pc = "walk"
      BY <1>1, <1>3, <1>5, <1>6, <2>3 DEF Body
    <2>4. CASE pc = "failed"
      BY <1>1, <1>3, <1>5, <1>6, <2>4 DEF Body
    <2> QED BY <1>7, <2>1, <2>2, <2>3, <2>4 DEF Body
  <1> QED BY <1>3, <1>8

\* The classification keeps its promise: a body left as it is reads, for each byte
\* it is given, at most the bound on failed walks and two more, or skips what a
\* failed attempt read (failedWalkBound in start_anywhere.go, its longest paths
\* counted over a fixpoint, and detectSkipSafeOnDead).
THEOREM BodyBounded == Spec => []BodyLinear
  <1>1. Init => Typed /\ AsToday
    BY InitTyped, InitToday
  <1>2. Typed /\ AsToday /\ [Next]_vars => (Typed /\ AsToday)'
    BY NextTyped, NextToday
  <1>3. Typed /\ AsToday => BodyLinear
    BY TodayWithin
  <1> QED BY <1>1, <1>2, <1>3, PTL DEF Spec

\* No find is quadratic in its text, whichever way the compiler searches: the
\* three bounds together (start_anywhere.go, "not provably linear").
THEOREM FindsLinear == Spec => []FindLinear
  <1>1. SwitchLinear /\ PassesLinear /\ BodyLinear => FindLinear
    BY DEF FindLinear
  <1> QED BY <1>1, SwitchBounded, PassesBounded, BodyBounded, PTL

=============================================================================
