---------------------------- MODULE SweepResults ----------------------------
(***************************************************************************)
(* parse_sweep_results: the view of a sweep_results artifact.  For every   *)
(* readout label the machine sends one array per sweep spot; the parser    *)
(* takes the labels one by one, joins their spots and reduces them to what *)
(* a page can draw.  An exception on one label is caught where the         *)
(* artifact was dispatched, and costs the whole view.                      *)
(***************************************************************************)
EXTENDS Decimation

CONSTANTS
  Labels,          \* the readout labels of the artifact
  Readouts,        \* what the machine may send for one: sequences of Arrays
  MaxTracePoints,  \* MAX_TRACE_POINTS
  MaxRows,         \* MAX_ROWS
  MaxFieldCols     \* MAX_FIELD_COLS

NoKey == "no label"
ASSUME NoKeyIsNone == NoKey \notin Labels

\* A trace is reduced to pairs of points: one that may keep a single point keeps two.
ASSUME LimitsPositive ==
  MaxTracePoints \in Nat \ {0, 1} /\ {MaxRows, MaxFieldCols} \subseteq Nat \ {0}

\* An Array: the arm of its oneof that is set, its shape and its samples, of which
\* it has none when no arm is set.  A complex sample is modelled by one number,
\* and what is no number ("other": booleans, strings) by numbers too: neither is
\* looked into.  The arms set for one label agree, whatever else is uneven.
Arrays == [kind : {"float64", "int64", "complex128", "other", "empty"},
           shape : Seq(Nat), items : Seq(Int)]

ASSUME ReadoutsSent ==
  \A sp \in Readouts :
    /\ sp \in Seq(Arrays)
    /\ \A i, j \in DOMAIN sp :
      /\ sp[i].kind = "empty" => sp[i].items = <<>>
      /\ sp[i].kind = sp[j].kind \/ "empty" \in {sp[i].kind, sp[j].kind}

VARIABLES
  results,   \* the labels whose entry is in the view
  key,       \* the label in hand, if any
  spots,     \* its arrays
  entry,     \* its entry, once made
  view       \* "reading", "shown" or, if the parser raised, "none"

resultVars == <<results, key, spots, entry, view>>

NoEntry == [drawn |-> "nothing"]

-----------------------------------------------------------------------------
\* The type of a label: that of the first spot with an arm set.
Dtype(sp) ==
  LET set == SelectInSeq(sp, LAMBDA a : a.kind # "empty")
  IN IF set = 0 THEN "empty" ELSE sp[set].kind

\* Several spots are one more dimension, and their samples follow each other.
ShapeOf(sp)  == IF Len(sp) > 1 THEN <<Len(sp)>> \o sp[1].shape ELSE sp[1].shape
ValuesOf(sp) == FlattenSeq([i \in DOMAIN sp |-> sp[i].items])

IsField_NoGuard(sp) ==   \* slip: a dimension may be zero
  Dtype(sp) = "float64" /\ Len(ShapeOf(sp)) = 2

IsField(sp) == Dtype(sp) = "float64" /\ Len(ShapeOf(sp)) = 2 /\ 0 \notin Range(ShapeOf(sp))
IsTrace(sp) == Dtype(sp) = "float64" /\ Len(ShapeOf(sp)) <= 1

\* Python's s[lo:hi], which stops at the end of s.
Slice(s, lo, hi) == SubSeq(s, lo + 1, IF hi < Len(s) THEN hi ELSE Len(s))

Row_Swapped(sp, r) ==   \* slip: rows and columns the wrong way round
  Slice(ValuesOf(sp), r * ShapeOf(sp)[1], (r + 1) * ShapeOf(sp)[1])

Row(sp, r) == Slice(ValuesOf(sp), r * ShapeOf(sp)[2], (r + 1) * ShapeOf(sp)[2])

KeptRows(sp) == Kept(ShapeOf(sp)[1], MaxRows)

\* min(seg) raises on a row that has no samples left.
Ragged(sp) == IsField(sp) /\ \E j \in DOMAIN KeptRows(sp) : Row(sp, KeptRows(sp)[j]) = <<>>

Field(sp) ==
  LET at     == DOMAIN KeptRows(sp)
      seg(j) == Row(sp, KeptRows(sp)[j])
  IN [rowIndices |-> KeptRows(sp),
      field      |-> [j \in at |-> AbsMaxDecimate(seg(j), MaxFieldCols)],
      rowMin     |-> [j \in at |-> Min(Range(seg(j)))],
      rowMax     |-> [j \in at |-> Max(Range(seg(j)))]]

Trace(sp) == MinMaxDecimate(ValuesOf(sp), MaxTracePoints)
Truncated(sp) == Slice(ValuesOf(sp), 0, MaxTracePoints)

-----------------------------------------------------------------------------
ResultsInit ==
  /\ results = {} /\ key = NoKey /\ spots = <<>> /\ entry = NoEntry
  /\ view = "reading"

\* FromString raises on bytes that are no SweepResultsResponse.
Undecodable ==
  /\ view = "reading" /\ results = {} /\ key = NoKey
  /\ view' = "none"
  /\ UNCHANGED <<results, key, spots, entry>>

NextKey(l) ==
  /\ view = "reading" /\ key = NoKey /\ l \notin results
  /\ key' = l
  /\ spots' \in Readouts
  /\ UNCHANGED <<results, entry, view>>

InHand == key # NoKey /\ entry = NoEntry
Draw(kind, content) ==
  /\ entry' = [drawn |-> kind, values |-> content]
  /\ UNCHANGED <<results, key, spots, view>>

NoSpots == InHand /\ spots = <<>> /\ Draw("empty", <<>>)

DrawField ==
  /\ InHand /\ spots # <<>> /\ IsField(spots)
  /\ ~Ragged(spots)
  /\ Draw("field", Field(spots))

DrawTrace ==
  /\ InHand /\ spots # <<>> /\ IsTrace(spots)
  /\ Draw("trace", Trace(spots))

KeepComplex ==
  /\ InHand /\ spots # <<>> /\ Dtype(spots) = "complex128"
  /\ Draw("complex", ValuesOf(spots))

Truncate ==
  /\ InHand /\ spots # <<>>
  /\ ~IsField(spots) /\ ~IsTrace(spots) /\ Dtype(spots) # "complex128"
  /\ Draw("other", Truncated(spots))

\* parse_artifact catches the exception: the labels read before are lost with it.
Raise ==
  /\ InHand /\ spots # <<>> /\ Ragged(spots)
  /\ view' = "none" /\ results' = {} /\ key' = NoKey
  /\ UNCHANGED <<spots, entry>>

\* out["results"][key] = entry.
Store ==
  /\ entry # NoEntry
  /\ results' = results \cup {key}
  /\ key' = NoKey /\ spots' = <<>> /\ entry' = NoEntry
  /\ UNCHANGED view

Show ==
  /\ view = "reading" /\ results = Labels
  /\ view' = "shown"
  /\ UNCHANGED <<results, key, spots, entry>>

ResultsNext ==
  \/ Undecodable \/ NoSpots \/ DrawField \/ DrawTrace \/ KeepComplex \/ Truncate
  \/ Raise \/ Store \/ Show
  \/ \E l \in Labels : NextKey(l)

-----------------------------------------------------------------------------
\* A readout whose spots all have the shape of the first and the samples it
\* announces: what the station sends of a sweep that came to its end.
Cells(shape) == FoldFunction(LAMBDA a, b : a * b, 1, shape)

Even(sp) ==
  \A i \in DOMAIN sp : sp[i].shape = sp[1].shape /\ Len(sp[i].items) = Cells(sp[1].shape)

Source == ValuesOf(spots)

\* How many members of P there are up to p, itself included.
Rank(p, P) == Cardinality(P \cap 1..p)

\* A reduced trace invents nothing and keeps its order: it is made of samples of the
\* source, left to right; and no sample of the source, however short the spike,
\* leaves the band between two drawn ones of its own bucket (_minmax_decimate).
EnvelopeKept ==
  entry.drawn = "trace" =>
    LET drawn == entry.values
        width == (Len(Source) + Pairs(MaxTracePoints) - 1) \div Pairs(MaxTracePoints)
    IN \E P \in kSubset(Len(drawn), DOMAIN Source) :
         /\ \A p \in P : drawn[Rank(p, P)] = Source[p]
         /\ \A i \in DOMAIN Source : \E p, q \in P :
              /\ {AbsOf(p - i), AbsOf(q - i)} \subseteq 0..(width - 1)
              /\ Source[p] <= Source[i] /\ Source[i] <= Source[q]

\* The samples of row r of an even field, taken from the spot they came in.
RowSamples(r) ==
  IF Len(spots) > 1 THEN spots[r + 1].items
  ELSE LET cols == spots[1].shape[2] IN [c \in 1..cols |-> spots[1].items[r * cols + c]]

\* A cell of a row is the peak of samples that lie under it, and each sample lies
\* under a cell at least as high; the bounds of the row are samples, and bound it.
RowKept(j, row) ==
  LET cells == entry.values.field[j]
      m     == Len(cells)
      n     == Len(row)
      Under(i, c) == (i - 1) * m - (c - 1) * n \in (-m)..n
      lo    == entry.values.rowMin[j]
      hi    == entry.values.rowMax[j]
  IN /\ \A c \in 1..m : \E i \in 1..n : Under(i, c) /\ cells[c] = AbsOf(row[i])
     /\ \A i \in 1..n : \E c \in 1..m : Under(i, c) /\ cells[c] >= AbsOf(row[i])
     /\ {lo, hi} \subseteq Range(row) /\ \A i \in 1..n : row[i] \in lo..hi

\* A row of a heatmap describes the spot its index names, peaks and bounds, although
\* the samples of all spots were joined and cut into rows again (parse_sweep_results).
RowsAreSpots ==
  entry.drawn = "field" /\ Even(spots) =>
    \A j \in DOMAIN entry.values.rowIndices :
      RowKept(j, RowSamples(entry.values.rowIndices[j]))

\* One label costs the others their view only if its spots are uneven: an even
\* one, empty or with a dimension of zero, never raises (parse_artifact).
OnlyUnevenLost == view = "none" /\ spots # <<>> => ~Even(spots)

\* What is stored of a label is bounded whatever the machine sent: the points of a
\* trace, the rows and columns of a field, which spread over all its rows, and
\* the items of anything else but complex samples, which are kept whole.
ViewBounded ==
  /\ entry.drawn \in {"trace", "other"} => Len(entry.values) <= MaxTracePoints
  /\ entry.drawn = "field" =>
       /\ Spread(entry.values.rowIndices, ShapeOf(spots)[1], MaxRows)
       /\ \A j \in DOMAIN entry.values.field : Len(entry.values.field[j]) <= MaxFieldCols
=============================================================================
