--------------------------- MODULE MCSweepParser ---------------------------
EXTENDS SweepParser

CONSTANTS q1, q2

Array(kind, shape, items) == [kind |-> kind, shape |-> shape, items |-> items]
Float(shape, items)       == Array("float64", shape, items)
Signed == {-2, 0, 1}

\* One spot: traces longer than twice the points kept, and fields of two rows.
Single == {<<Float(<<Len(s)>>, s)>> : s \in SeqOf(Signed, 7)}
          \cup {<<Float(<<2, Len(s) \div 2>>, s)>> :
                  s \in {t \in SeqOf(Signed, 6) : Len(t) % 2 = 0}}

\* Two and three even spots of up to three samples, and four single ones.
Several ==
  UNION {{[i \in 1..n |-> Float(<<m>>, f[i])] : f \in [1..n -> [1..m -> Signed]]} :
           n \in 2..3, m \in 0..2}
  \cup {[i \in 1..2 |-> Float(<<3>>, f[i])] : f \in [1..2 -> [1..3 -> Signed]]}
  \cup {[i \in 1..n |-> Float(<<1>>, <<f[i]>>)] : f \in [1..4 -> Signed], n \in 4..4}

\* Spots that differ in length, one of which may have nothing set.
Uneven ==
  {<<Float(<<2>>, s), Float(<<Len(t)>>, t), u>> :
     s, t \in SeqOf({0, 1}, 2),
     u \in {Array("empty", <<>>, <<>>), Float(<<3>>, <<1, 0, 1>>)}}
  \cup {<<Array("empty", <<>>, <<>>), Float(<<Len(s)>>, s)>> : s \in SeqOf({0, 1}, 2)}

\* Other types, no spots, and a shape the parser does not know.
Others ==
  {<<>>, <<Array("empty", <<>>, <<>>)>>}
  \cup {<<Array(k, <<Len(s)>>, s)>> :
         k \in {"int64", "complex128", "other"}, s \in SeqOf({0, 1, 2}, 5)}
  \cup {<<Float(<<1, 2, 2>>, <<0, 1, 2, 3>>)>>}

AllReadouts == Single \cup Several \cup Uneven \cup Others

SomeWaveforms == SeqOf(Signed, 6)

\* Instruction tables of three: references to each of them and out of the table.
SomeInstructions ==
  {Pulse("w"), Pulse("v"), Wait, Multiplexed(<<>>)}
  \cup {Multiplexed(<<i, 0>>) : i \in -1..3}
SomeTables == [1..3 -> SomeInstructions] \cup {<<>>}
SomeRefs == -1..3
=============================================================================
