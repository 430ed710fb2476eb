------------------------------ MODULE SetMerge ------------------------------
(***************************************************************************)
(* A split set driven through find or find_batch (compile/set_split.go,     *)
(* set_batch.go, set_find.go, set_union_scan.go).                           *)
(*                                                                          *)
(* The kept members are served by one body, position by position; each      *)
(* split member by a search of its own.  A call merges them: it asks them   *)
(* in the order of the starts they are known not to match before, and stops *)
(* asking when no one left can beat the best start found.  What it learned  *)
(* it leaves in the caller's gate array, one word a member, for the next    *)
(* call: where the member was reported, or how far it is known not to       *)
(* match.                                                                   *)
(***************************************************************************)
EXTENDS Integers, Sequences, FiniteSets, FiniteSetsExt

CONSTANTS
    Kept,         \* the ids the buckets serve
    Split,        \* the ids served apart
    Backtracked,  \* those a Backtracking body serves, of either kind
    Length,       \* of the text
    Origins,      \* where a drive may start
    Tables,       \* what the members may answer, position by position
    Shapes,       \* the sets and entries considered, see Shape
    MaxCap        \* the largest buffer a caller starts with

NoMatch == -1
Starts == 0..Length
KeptBody == -1          \* the kept members, asked as one
Never == Length + 2     \* past every bound a gate can hold
Members == Kept \union Split
Candidates == Split \union (IF Kept = {} THEN {} ELSE {KeptBody})

\* preflight: the kept body retires the members that match nowhere before it
\* first searches; recovers: memory that was refused may be had later.
Shape == [gated : BOOLEAN, batch : BOOLEAN, preflight : BOOLEAN, recovers : BOOLEAN]

ASSUME MemberAssumption == /\ Kept \subseteq Nat /\ Split \subseteq Nat
                           /\ Kept \intersect Split = {} /\ Split # {}
                           /\ IsFiniteSet(Kept) /\ IsFiniteSet(Split)
                           /\ Backtracked \subseteq Kept \union Split
ASSUME TextAssumption == Length \in Nat /\ Origins \subseteq Starts
ASSUME TableAssumption == \A t \in Tables : /\ t \in [Starts -> Starts \union {NoMatch}]
                                            /\ \A s \in Starts : t[s] # NoMatch => t[s] >= s
ASSUME ShapeAssumption == Shapes \subseteq Shape
ASSUME CapAssumption == MaxCap \in Nat \ {0}

VARIABLES
    ends,     \* member -> its table, fixed
    shape,    \* fixed
    origin,   \* where the drive starts, fixed
    gate,     \* the caller's gate array
    host,     \* the caller's cursor and room: [from, skip, cap]
    out,      \* the matches the caller has
    buf,      \* those the running batch call has written
    status,   \* "driving", "done" or "unknown"
    pc,       \* "host", "walk" (inside find_batch), "merge" or "answered"
    call,     \* the merge's locals, and its answer
    reached,  \* ghost: where each split member's last search ended up
    offered,  \* ghost: the position that did not fit find's buffer
    refused   \* ghost: the candidates that were refused memory

vars == <<ends, shape, origin, gate, host, out, buf, status, pc, call, reached,
          offered, refused>>
fixed == <<ends, shape, origin>>

Tuple(k, s) == [id |-> k, start |-> s, end |-> ends[k][s]]
IdsOf(list) == {list[i].id : i \in DOMAIN list}
FirstOf(list, n) == SubSeq(list, 1, Min({n, Len(list)}))
\* In ascending order: the k-th has k - 1 of them before it.
Ascending(ids) ==
    [i \in 1..Cardinality(ids) |->
        CHOOSE k \in ids : Cardinality({j \in ids : j < k}) = i - 1]
TuplesAt(s, ids) ==
    LET order == Ascending(ids) IN [i \in DOMAIN order |-> Tuple(order[i], s)]
-----------------------------------------------------------------------------
(* The gates. *)

Dead == 2 * Length + 2
\* Mutant: a report gate one past.
ReportedPast(m) == 2 * m.end + 3
Reported(m) == 2 * m.end + (IF m.end > m.start THEN 1 ELSE 2)
\* Mutant: a position, not a gate.
LowerBoundPlain(s) == s
LowerBound(s) == 2 * s

\* emitGateMask and the suffix body: whether a gate lets k match at s.
Lets(g, k, s) ==
    /\ 2 * s + 1 >= g[k]
    /\ ends[k][s] = s /\ shape.gated => 2 * s >= g[k]

RecordAll(g, list, ids) ==
    [k \in Members |->
        IF k \in ids \intersect IdsOf(list)
        THEN Reported(list[CHOOSE i \in DOMAIN list : list[i].id = k]) ELSE g[k]]
SetAll(g, ids, value) == [k \in Members |-> IF k \in ids THEN value ELSE g[k]]
RaiseAll(g, ids, value) ==
    [k \in Members |-> IF k \in ids THEN Max({g[k], value}) ELSE g[k]]

\* emitFindPreflight, at the first call of a drive as each mode tells it.
FirstCall(q) == IF shape.gated THEN q = 0 ELSE gate[Min(Kept)] = 0
Preflight(q) ==
    IF ~(shape.preflight /\ FirstCall(q)) THEN gate
    ELSE LET absent == {k \in Kept : \A s \in q..Length : ends[k][s] = NoMatch}
             rest == IF shape.gated THEN {} ELSE Kept \ absent
         IN  SetAll(SetAll(gate, absent, Dead), rest, 1)
-----------------------------------------------------------------------------
(* One call of the merge. *)

\* The start before which candidate c is known not to match.
Bound(c) ==
    LET lowest == IF c = KeptBody THEN Min({gate[k] \div 2 : k \in Kept})
                  ELSE gate[c] \div 2
    IN  Max({host.from, lowest})

\* asked: the candidates processed; starts: what they answered; list: the kept
\* body's matches.
NoCall == [bound |-> [c \in Candidates |-> 0], starts |-> [c \in Candidates |-> Never],
           asked |-> {}, list |-> << >>, answer |-> << >>]

StartMerge ==
    /\ call' = [NoCall EXCEPT !.bound = [c \in Candidates |-> Bound(c)]]
    /\ pc' = "merge"

Best == Min({call.starts[c] : c \in Candidates})

Turns == {c \in Candidates \ call.asked : call.bound[c] <= Best}
\* The smallest bound, the kept body before a member and members by id.
IsTurn(c) ==
    /\ pc = "merge" /\ c \in Turns
    /\ \A d \in Turns : \/ call.bound[c] < call.bound[d]
                        \/ call.bound[c] = call.bound[d] /\ c <= d

Settling == pc = "merge" /\ Turns = {}

\* How many of the kept body's matches it gates: in a batch those it wrote,
\* otherwise a whole position or none.
Gated(list) ==
    IF ~shape.gated THEN << >>
    ELSE IF shape.batch THEN FirstOf(list, host.cap)
    ELSE IF Len(list) <= host.cap THEN list ELSE << >>

\* The kept body from q: the eligible matches of the first position with any.
KeptList(g, q) ==
    LET Eligible(s) == {k \in Kept : /\ ends[k][s] # NoMatch
                                     /\ shape.gated \/ shape.preflight => Lets(g, k, s)}
        hits == {s \in q..Length : Eligible(s) # {}}
    IN  IF hits = {} THEN << >> ELSE TuplesAt(Min(hits), Eligible(Min(hits)))

AskKept ==
    /\ Kept # {}
    /\ IsTurn(KeptBody)
    /\ KeptBody \in refused => shape.recovers
    /\ LET q == call.bound[KeptBody]
           g == Preflight(q)
       IN  \E list \in {KeptList(g, q)} :
              /\ gate' = RecordAll(g, Gated(list), Kept)
              /\ call' = [call EXCEPT !.asked = @ \union {KeptBody}, !.list = list,
                             !.starts[KeptBody] = IF list = << >> THEN Never
                                                  ELSE list[1].start]
    /\ UNCHANGED <<fixed, host, out, buf, status, pc, reached, offered, refused>>

\* A member's search, past the empty match the gate forbids.
SearchFrom(k, q) ==
    LET hits == {s \in q..Length :
                    /\ ends[k][s] # NoMatch
                    /\ ends[k][s] = s /\ shape.gated => 2 * s >= gate[k]}
    IN  IF hits = {} THEN Never ELSE Min(hits)

AskMember(k) ==
    /\ IsTurn(k)
    /\ k \in refused => shape.recovers
    /\ LET at == SearchFrom(k, call.bound[k])
       IN  /\ gate' = IF at = Never THEN SetAll(gate, {k}, Dead)
                      ELSE RaiseAll(gate, {k}, LowerBound(at))
           /\ call' = [call EXCEPT !.asked = @ \union {k}, !.starts[k] = at]
           /\ reached' = [reached EXCEPT ![k] = Min({at, Length + 1})]
    /\ UNCHANGED <<fixed, host, out, buf, status, pc, offered, refused>>

\* Mutant: the error at once, whatever the call has written.
GaveUpAtOnce == status' = "unknown" /\ out' = out
\* find's caller stops; a batch that has written matches returns those first.
GaveUp == /\ status' = IF buf = << >> THEN "unknown" ELSE status
          /\ out' = out \o buf

\* A candidate that gives up ends the call: the merge answers its error at once.
GivesUp(c) ==
    /\ GaveUp
    /\ buf' = << >>
    /\ pc' = "host"
    /\ call' = NoCall
    /\ refused' = refused \union {c}
    /\ UNCHANGED <<fixed, host, reached, offered>>

MemberGivesUp(k) ==
    /\ k \in Backtracked
    /\ IsTurn(k)
    /\ call.bound[k] <= Length
    /\ GivesUp(k)
    /\ UNCHANGED gate

\* One of the kept body's Backtracking buckets gave up, at a position no later
\* than its first match: no match is gated yet, and what the preflight said stays.
KeptGivesUp ==
    /\ Kept # {}
    /\ IsTurn(KeptBody)
    /\ \E g \in {Preflight(call.bound[KeptBody])} :
       \E list \in {KeptList(g, call.bound[KeptBody])} :
          /\ \E k \in Kept \intersect Backtracked, s \in call.bound[KeptBody]..Length :
                /\ shape.gated \/ shape.preflight => 2 * s + 1 >= g[k]
                /\ list # << >> => s <= list[1].start
          /\ gate' = g
    /\ GivesUp(KeptBody)

KeptWon == call.list # << >> /\ call.starts[KeptBody] = Best
KeptLost == call.list # << >> /\ call.starts[KeptBody] # Best
Winners == {k \in Split : Best # Never /\ call.starts[k] = Best}

\* The matches at the smallest start.
Answer == (IF KeptWon THEN call.list ELSE << >>) \o TuplesAt(Best, Winners)

\* Mutant: a beaten kept body keeps its report gates.
KeptRaisedOnly ==
    IF KeptBody \in call.asked /\ call.list = << >> THEN SetAll(gate, Kept, Dead)
    ELSE IF KeptLost THEN RaiseAll(gate, Kept, LowerBound(call.starts[KeptBody]))
    ELSE gate
\* What the merge does to the kept gates when the kept body had nothing, or
\* was beaten: its report gates are undone and all go to what it proved.
KeptSettled ==
    LET proved == LowerBound(call.starts[KeptBody])
        undone == SetAll(gate, IdsOf(Gated(call.list)), proved)
    IN  IF KeptBody \in call.asked /\ call.list = << >> THEN SetAll(gate, Kept, Dead)
        ELSE IF KeptLost THEN RaiseAll(undone, Kept, proved)
        ELSE gate

\* Mutant: the kept body's gates stand when the position does not fit.
OverflowLeft == KeptSettled
\* The kept body's matches fitted and the position did not.
OverflowUndone == SetAll(KeptSettled, IdsOf(call.list), LowerBound(Best))

\* And to the gates of the matches of this position.
GatesSettled(answer) ==
    LET fits == Len(answer) <= host.cap
        keptFit == KeptWon /\ Len(call.list) <= host.cap
    IN  IF ~shape.gated \/ answer = << >> THEN KeptSettled
        ELSE IF shape.batch THEN RecordAll(KeptSettled, FirstOf(answer, host.cap), Split)
        ELSE IF fits THEN RecordAll(KeptSettled, answer, Split)
        ELSE IF keptFit THEN OverflowUndone
        ELSE KeptSettled

MergeReturns ==
    /\ Settling
    /\ \E answer \in {Answer} :
          /\ gate' = GatesSettled(answer)
          /\ call' = [NoCall EXCEPT !.answer = answer]
    /\ pc' = "answered"
    /\ UNCHANGED <<fixed, host, out, buf, status, reached, offered, refused>>

\* The caller has the answer; every match of it starts at the same place.
reply == call.answer
at == reply[1].start
NextStart == at + 1
Answered == pc = "answered" /\ call' = NoCall /\ UNCHANGED gate
-----------------------------------------------------------------------------
(* find's caller. *)

Find ==
    /\ ~shape.batch
    /\ pc = "host" /\ status = "driving"
    /\ host.from <= Length
    /\ StartMerge
    /\ UNCHANGED <<fixed, gate, host, out, buf, status, reached, offered, refused>>

\* The call made past the end answers 0.
FindPastEnd ==
    /\ ~shape.batch
    /\ pc = "host" /\ status = "driving"
    /\ host.from > Length
    /\ status' = "done"
    /\ UNCHANGED <<fixed, gate, host, out, buf, pc, call, reached, offered, refused>>

FindEnds ==
    /\ ~shape.batch
    /\ Answered
    /\ reply = << >>
    /\ status' = "done"
    /\ pc' = "host"
    /\ UNCHANGED <<fixed, host, out, buf, reached, offered, refused>>

\* The count says how much room the position needs; it is asked for again.
FindOverflows ==
    /\ ~shape.batch
    /\ Answered
    /\ Len(reply) > host.cap
    /\ host' = [host EXCEPT !.cap = Len(reply)]
    /\ offered' = reply
    /\ pc' = "host"
    /\ UNCHANGED <<fixed, out, buf, status, reached, refused>>

FindReports ==
    /\ ~shape.batch
    /\ Answered
    /\ Len(reply) \in 1..host.cap
    /\ out' = out \o reply
    /\ host' = [host EXCEPT !.from = NextStart]
    /\ offered' = << >>
    /\ pc' = "host"
    /\ UNCHANGED <<fixed, buf, status, reached, refused>>
-----------------------------------------------------------------------------
(* find_batch: positions one after the other while there is room.  host.cap  *)
(* is the room the worker is told of: what is left of the buffer, and the    *)
(* matches of the position it is to skip.                                    *)

\* Mutant: the worker is told of what is left of the buffer alone.
WorkerRoomAlone(left) == left
WorkerRoom(left) == left + host.skip
room == host.cap - host.skip

FindBatch ==
    /\ shape.batch
    /\ pc = "host" /\ status = "driving"
    /\ \E left \in 1..MaxCap : host' = [host EXCEPT !.cap = WorkerRoom(left)]
    /\ pc' = "walk"
    /\ UNCHANGED <<fixed, gate, out, buf, status, call, reached, offered, refused>>

\* The call returns: what it wrote is the caller's.
Hand == out' = out \o buf /\ buf' = << >> /\ pc' = "host"

BatchFull ==
    /\ pc = "walk" /\ room = 0
    /\ Hand
    /\ UNCHANGED <<fixed, gate, host, status, call, reached, offered, refused>>

BatchPastEnd ==
    /\ pc = "walk" /\ room > 0 /\ host.from > Length
    /\ Hand
    /\ status' = "done"
    /\ UNCHANGED <<fixed, gate, host, call, reached, offered, refused>>

AskWorker ==
    /\ pc = "walk" /\ room > 0 /\ host.from <= Length
    /\ StartMerge
    /\ UNCHANGED <<fixed, gate, host, out, buf, status, reached, offered, refused>>

BatchEnds ==
    /\ shape.batch
    /\ Answered
    /\ Len(reply) <= host.skip
    /\ Hand
    /\ status' = "done"
    /\ UNCHANGED <<fixed, host, reached, offered, refused>>

\* The position is split: gated, what is left is still eligible when it is
\* entered again; overlapping, the matches written are skipped.
BatchSplits ==
    /\ shape.batch
    /\ Answered
    /\ Len(reply) > host.cap
    /\ out' = out \o buf \o SubSeq(reply, host.skip + 1, host.cap)
    /\ buf' = << >>
    /\ host' = [host EXCEPT !.from = at, !.skip = IF shape.gated THEN 0 ELSE host.cap]
    /\ pc' = "host"
    /\ UNCHANGED <<fixed, status, reached, offered, refused>>

BatchReports ==
    /\ shape.batch
    /\ Answered
    /\ Len(reply) \in (host.skip + 1)..host.cap
    /\ buf' = buf \o SubSeq(reply, host.skip + 1, Len(reply))
    /\ host' = [from |-> NextStart, skip |-> 0, cap |-> host.cap - Len(reply)]
    /\ pc' = "walk"
    /\ UNCHANGED <<fixed, out, status, reached, offered, refused>>
-----------------------------------------------------------------------------
Init ==
    /\ ends \in [Members -> Tables]
    /\ shape \in Shapes
    /\ origin \in Origins
    /\ gate = [k \in Members |-> 0]
    /\ \E n \in IF shape.batch THEN {0} ELSE 0..MaxCap :
          host = [from |-> origin, skip |-> 0, cap |-> n]
    /\ out = << >> /\ buf = << >>
    /\ status = "driving" /\ pc = "host"
    /\ call = NoCall
    /\ reached = [k \in Split |-> NoMatch]
    /\ offered = << >>
    /\ refused = {}

Next ==
    \/ Find \/ FindPastEnd \/ FindEnds \/ FindOverflows \/ FindReports
    \/ FindBatch \/ BatchFull \/ BatchPastEnd \/ AskWorker
    \/ BatchEnds \/ BatchSplits \/ BatchReports
    \/ AskKept \/ KeptGivesUp \/ MergeReturns
    \/ \E k \in Split : AskMember(k) \/ MemberGivesUp(k)

Spec == Init /\ [][Next]_vars

\* A call into the module always returns, and the caller drives on.
FairSpec == Spec /\ WF_vars(Next)
-----------------------------------------------------------------------------
(* Properties. *)

IsTuples(list) == \A i \in DOMAIN list :
    /\ list[i].id \in Members
    /\ list[i].start \in Starts /\ list[i].end = ends[list[i].id][list[i].start]

\* Every variable has the values the code gives it, the gates their encoding
\* (set_find.go, the header of set_split.go).
TypeOK ==
    /\ ends \in [Members -> Tables] /\ shape \in Shapes /\ origin \in Origins
    /\ gate \in [Members -> 0..Dead]
    /\ host.from \in 0..(Length + 1)
    /\ host.skip \in 0..Cardinality(Members) /\ host.cap \in Nat
    /\ IsTuples(out) /\ IsTuples(buf) /\ IsTuples(offered)
    /\ status \in {"driving", "done", "unknown"}
    /\ pc \in {"host", "walk", "merge", "answered"}
    /\ call.bound \in [Candidates -> 0..(Length + 1)]
    /\ call.starts \in [Candidates -> Starts \union {Never}]
    /\ call.asked \subseteq Candidates /\ IsTuples(call.list) /\ IsTuples(call.answer)
    /\ reached \in [Split -> NoMatch..(Length + 1)]
    /\ refused \subseteq Candidates

Given == INSTANCE SetDrive WITH out <- out \o buf

\* The caller gets every member's matches, position by position, whatever the
\* merge left unasked, wherever a batch stopped and however often a position
\* was asked for again: the merge implements the drive a set promises.
DrivesSet == Given!Spec

\* Where the gates let k match, of what is left of the text.
Left(k) == {s \in host.from..Length : ends[k][s] # NoMatch /\ Lets(gate, k, s)}

HonestGates == \A k \in Members : Left(k) = Given!Pending(k)

\* Between positions the gate array says of every member exactly which matches
\* it still owes: a lower bound never passes one, a report gate never stays for
\* a match nobody was given (set_split.go, "the merge"), as long as nobody gave up.
GatesHonest == pc \in {"host", "walk"} /\ host.skip = 0 /\ refused = {} => HonestGates

\* find is transactional: a position that did not fit is answered the same
\* when it is asked for with the room it needs (set_split.go, "the
\* transactional rule").
RetryAnswersTheSame == pc = "answered" /\ offered # << >> => reply = offered

\* No member is searched from before where its last search ended: the drive
\* walks a member's bytes forward (set_split.go, "each byte is walked a bounded
\* number of times").
NoGroundTwice ==
    [][\A k \in Split :
          k \in call'.asked \ call.asked => call.bound[k] >= reached[k]]_vars

\* A drive ends, with whatever buffer, as long as the calls return.
DriveEnds == <>(status # "driving")
=============================================================================
