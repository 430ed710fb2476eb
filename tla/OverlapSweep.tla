--------------------------- MODULE OverlapSweep ---------------------------
(***************************************************************************)
(* The sweep an overlapping set's answer cache is filled by                 *)
(* (compile/set_overlap_ckpt.go): from the text's end down, one column of    *)
(* answers per position, of which every stride-th is kept; and a block of    *)
(* rows, made again from the column kept above it.                           *)
(*                                                                          *)
(* A sweep is [table, ids, cellOf, cells, counted], see DFATables; a column   *)
(* gives, for each pattern and each class of states, where the pattern ends   *)
(* that a walk from that state would report.                                 *)
(***************************************************************************)
EXTENDS SetBodies

\* A pattern has one column, with an answer for each class of states.
IsSweep(sw, ids) ==
    /\ sw.cells \in Nat /\ sw.ids \in Seq(ids)
    /\ \A k, m \in DOMAIN sw.ids : sw.ids[k] = sw.ids[m] => k = m
    /\ IsTable(sw.table, sw.ids)
    /\ \A k \in DOMAIN sw.ids : sw.cellOf[k] \in [DOMAIN sw.table.mid -> DOMAIN sw.table.mid]

HeaderBytes == 48

\* The caller's region: its header, then columns, counts and the block's rows.
\*   ready   0 not swept, 1 swept, -1 refused, or no region at all
\*   cur     the block the rows are, from 1
\*   base    the position of row 0
\*   ckpts   block -> the column at the position past it
\*   cum     block -> how many answers the blocks below it hold
Unoffered == [size |-> 0, stride |-> 0, ready |-> -1, work |-> 0, floor |-> 0, nb |-> 0,
              cur |-> 0, base |-> 0, ckpts |-> << >>, cum |-> << >>, rows |-> << >>]
Zeroed(size, stride) == [Unoffered EXCEPT !.size = size, !.stride = stride, !.ready = 0]

\* overlapCells, SetOverlapBlockRowBytes, emitBlockCount
BlockCount(m, stride) == (m + stride - 1) \div stride
RegionBytes(sw, nb, stride) ==
    HeaderBytes + nb * (4 * sw.cells + 4) + 4 + stride * (4 + 4 * Len(sw.ids))

\* SetOverlapCheckpointBytesForStride: what the caller reserves.
OfferedBytes(sw, t, k) ==
    LET m == LenOf(t) + 1
        stride == Min({k, m})
    IN  RegionBytes(sw, BlockCount(m, stride), stride)
-----------------------------------------------------------------------------
(* The columns. *)

\* emitEOFColumn: cell 0, the dead one, is never anything else.
EOFColumn(sw, t) ==
    [k \in DOMAIN sw.ids |-> [s \in Range(sw.cellOf[k]) |->
        IF k \in sw.table.eof[s] THEN LenOf(t) ELSE NoMatch]]

\* What a state accepts, on arrival or for the byte that follows.
Accepted(table, s, c) ==
    UNION {table.mid[s],
           IF table.words THEN (IF c \in Word THEN table.w ELSE table.nw)[s] ELSE {},
           IF table.lines /\ c = NewLine THEN table.nl[s] ELSE {}}

\* In a set of one pattern a dominant end stands whatever follows.
Final(sw, s, c) ==
    /\ DOMAIN sw.ids = {1} /\ sw.table.words
    /\ (IF c \in Word THEN "w" ELSE "nw") \in sw.table.dominant[s]

\* emitAdvance, emitAdvanceProj: the column at p from the one above it.
Advance(sw, t, p, above) ==
    LET c == ByteAt(t, p)
        after(k, s) == above[k][sw.cellOf[k][sw.table.next[s][c]]]
    IN  [k \in DOMAIN sw.ids |-> [s \in Range(sw.cellOf[k]) |->
            IF Final(sw, s, c) THEN p
            ELSE IF after(k, s) # NoMatch THEN after(k, s)
            ELSE IF k \in Accepted(sw.table, s, c) THEN p ELSE NoMatch]]

\* From the column at top down to low.
Columns(sw, t, low, top, column) ==
    LET col[p \in low..top] == IF p = top THEN column ELSE Advance(sw, t, p, col[p + 1])
    IN  col

\* emitAtPosition: each pattern's end from the state a walk from p begins in.
RowAt(sw, t, p, column) ==
    LET s == Entry([table |-> sw.table, text |-> t], p)
    IN  [k \in DOMAIN sw.ids |-> column[k][sw.cellOf[k][s]]]
Hits(row) == {k \in DOMAIN row : row[k] # NoMatch}

\* The answers of some positions.
HitsOver(sw, t, columns, ps) == UNION {{p} \X Hits(RowAt(sw, t, p, columns[p])) : p \in ps}

\* The rows from low to high, over those that were there.
RowsOf(sw, t, low, high, columns, rows) ==
    [r \in DOMAIN rows \union 0..(high - low) |->
        IF r \in 0..(high - low) THEN RowAt(sw, t, low + r, columns[low + r]) ELSE rows[r]]
-----------------------------------------------------------------------------
(* The pass and the block. *)

Refused(c) == [c EXCEPT !.ready = -1]

\* Past the text's end: one block of one row, and no answers.
PassPastEnd(sw, t, c) ==
    [c EXCEPT !.stride = 1, !.nb = 1, !.floor = LenOf(t) + 1, !.base = LenOf(t) + 1,
              !.cur = 1, !.cum = [j \in 0..1 |-> 0], !.ready = 1]

\* emitCkptPassBody: every column and count, and block 0's rows.
PassOver(sw, t, from, stride, nb, c) ==
    LET columns == Columns(sw, t, from, LenOf(t), EOFColumn(sw, t))
    IN  [c EXCEPT !.stride = stride, !.nb = nb, !.floor = from, !.base = from, !.cur = 1,
                  !.ckpts = [j \in 1..nb |-> columns[Min({from + j * stride, LenOf(t)})]],
                  !.cum = [j \in 0..nb |-> Cardinality(HitsOver(sw, t, columns,
                                from..Min({from + j * stride - 1, LenOf(t)})))],
                  !.rows = RowsOf(sw, t, from, Min({from + stride - 1, LenOf(t)}), columns, @),
                  !.ready = 1]

\* emitCkptPassPrologue: the stride is clamped to the span swept, and stored
\* even when the region is refused.
Pass(sw, t, from, c) ==
    LET m == LenOf(t) - from + 1
        stride == Min({c.stride, m})
        nb == BlockCount(m, stride)
    IN  IF c.size < HeaderBytes THEN Refused(c)
        ELSE IF from > LenOf(t)
        THEN IF RegionBytes(sw, 1, 1) > c.size THEN Refused(c) ELSE PassPastEnd(sw, t, c)
        ELSE IF RegionBytes(sw, nb, stride) > c.size
        THEN Refused([c EXCEPT !.stride = stride])
        ELSE PassOver(sw, t, from, stride, nb, c)

BlockLow(c, j) == c.floor + j * c.stride
BlockHigh(t, c, j) == Min({BlockLow(c, j) + c.stride - 1, LenOf(t)})

\* emitCkptBlockBody: the text's last position is answered from the column
\* kept, the others below it; rows past a last, partial block stay as they were.
Block(sw, t, c, j) ==
    LET low == BlockLow(c, j)
        high == BlockHigh(t, c, j)
        top == Min({high + 1, LenOf(t)})
        columns == Columns(sw, t, low, top, c.ckpts[j + 1])
    IN  [c EXCEPT !.cur = j + 1, !.base = low, !.rows = RowsOf(sw, t, low, high, columns, @)]
=============================================================================
