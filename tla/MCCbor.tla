------------------------------- MODULE MCCbor -------------------------------
(* An instance of CborGrammar for TLC, scaled down: a byte has 6 bits, 3   *)
(* of them info; an argument is in the head (info < 4), in one byte (4) or *)
(* in the two bytes that fill a machine word (5).  A byte is written as    *)
(* its major type times 8 plus its info.                                   *)
EXTENDS CborGrammar, SequencesExt

MCBigEndian(s) == FoldLeft(LAMBDA n, c : n * 64 + c, 0, s)
MCWidth        == [f \in {4, 5} |-> f - 3]
MCSimple       == [n \in 1..3 |-> <<"false", "true", "nil">>[n]]

\* Items: heads of every type and form of length, and plain bytes among them;
\* the longest ones of heads that have something behind them.  21 31 63 is a
\* length of half a word less one: it is positive, and the position it leads to
\* is not.  Behind 21 and 37, a 63 begins lengths that are negative.
MCBytes == {0, 1, 5, 9, 17, 20, 21, 25, 31, 34, 37, 41, 45, 49, 57, 63}
MCHeads == {0, 1, 17, 20, 25, 34, 42, 45}
MCItems == UNION {[1..n -> MCBytes] : n \in 0..4} \cup [1..5 -> MCHeads]

\* Keys of five or six pairs: the right ones, a y that is not made of bytes, and
\* the label -1 as the word it is.
MCPairs == {<<1, 2>>, <<3, 12, 6>>, <<8, 1>>, <<9, 17, 1>>, <<10, 17, 2>>, <<10, 2>>, <<5, 63, 63, 1>>}
MCFour  == {p[1] \o p[2] \o p[3] \o p[4] : p \in [1..4 -> MCPairs]}
MCKeys  == {<<44, 5, 1, 2>> \o ps : ps \in MCFour}
             \cup {<<44, 6, 3, 12, 6>> \o ps \o q : ps \in MCFour, q \in MCPairs}
MCCurve == {<<1, 2>>}

\* Authenticator data: up to six bytes, and what may be a key behind them.  17
\* has the flag for attested data, 0 and 1 have not.
MCKey  == <<44, 5, 1, 2, 3, 12, 6, 8, 1, 9, 17, 1, 10, 17, 2>>
MCData == {head \o tail : head \in UNION {[1..n -> {0, 1, 17}] : n \in 0..6},
                          tail \in {<<>>, MCKey, MCKey \o <<0>>, SubSeq(MCKey, 1, 14)}}

\* TLC keeps the value of a definition but not of the one it puts for a constant.
MCInputs == [item |-> MCItems, key |-> MCKeys, data |-> MCData]
MCBlobs  == MCInputs

\* What there is from a place on, from the end of the input to its beginning.
RECURSIVE Derived(_, _)
Derived(b, at) ==
  IF at = Len(b) THEN [items |-> {}, rows |-> RowsAt({}, {}, at)]
  ELSE LET later == Derived(b, at + 1)
           here  == ItemsAt(b, later.rows, at)
       IN  [items |-> later.items \cup here, rows |-> later.rows \cup RowsAt(here, later.rows, at)]
MCItemsOf(b) == Derived(b, 0).items
MCRowsOf(b)  == Derived(b, 0).rows

MCMore  == <<1, 17>>
=============================================================================
