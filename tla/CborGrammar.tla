---------------------------- MODULE CborGrammar -----------------------------
(***************************************************************************)
(* What bytes mean, by the grammar of RFC 8949 and the part of it that the *)
(* decoder names as supported (cbor.go:11).  An item is a head and what    *)
(* the head announces, and a row is items one behind the other.  Both are  *)
(* given as triples: from where to where in the input, and what it means.  *)
(* Items and Rows are any sets of triples that the rules below produce     *)
(* from each other, nothing more and nothing less.                         *)
(*                                                                         *)
(* In two places the grammar here is wider than the RFC, as the decoder    *)
(* is.  An integer means what is left of it in an int64, so that 2^64 - 1  *)
(* means -1 and -2^64 means 0.  And a simple value may be in an argument   *)
(* of any length, so that f9 00 14, a float, means false.                  *)
(***************************************************************************)
EXTENDS CborMore

CONSTANTS
  Items(_),  \* the items in some bytes
  Rows(_)    \* the rows of items in some bytes

From(x) == x[1]
To(x)   == x[2]
What(x) == x[3]

\* The heads at a place: their argument and where they end.
HeadsAt(b, at) ==
  {[arg |-> b[at + 1] % Infos, to |-> at + 1] : f \in Direct \cap {b[at + 1] % Infos}}
    \cup {[arg |-> BigEndian(SubSeq(b, at + 2, at + 1 + Width[f])), to |-> at + 1 + Width[f]] :
            f \in {f \in DOMAIN Width \cap {b[at + 1] % Infos} : at + 1 + Width[f] <= Len(b)}}

\* Of the pairs of a map, the last one with a key says what is under it.
Pairs(kvs)    == 1..(Len(kvs) \div 2)
Final(kvs, j) == \A l \in Pairs(kvs) : kvs[2 * l - 1] = kvs[2 * j - 1] => l <= j
Table(kvs)    == {<<kvs[2 * j - 1], kvs[2 * j]>> : j \in {j \in Pairs(kvs) : Final(kvs, j)}}
Keyed(kvs)    == \A j \in Pairs(kvs) : kvs[2 * j - 1][1] \notin Unhashable

\* What may follow a head of major type m: to where, and what it all means.
Behind(b, rows, m, h) ==
  CASE m = 0 -> {<<h.to, <<"int", Signed(h.arg)>>>>}
    [] m = 1 -> {<<h.to, <<"int", Signed(-1 - h.arg)>>>>}
    [] m \in {2, 3} -> {<<to, <<IF m = 2 THEN "bytes" ELSE "text", SubSeq(b, h.to + 1, to)>>>> :
                          to \in {h.to + h.arg} \cap 0..Len(b)}
    [] m = 4 -> {<<To(r), <<"array", What(r)>>>> :
                   r \in {r \in rows : From(r) = h.to /\ Len(What(r)) = h.arg}}
    [] m = 5 -> {<<To(r), <<"map", Table(What(r))>>>> :
                   r \in {r \in rows : From(r) = h.to /\ Len(What(r)) = 2 * h.arg /\ Keyed(What(r))}}
    [] m = 7 -> {<<h.to, <<"simple", Simple[n]>>>> : n \in DOMAIN Simple \cap {h.arg}}
    [] OTHER -> {}

ItemsAt(b, rows, at) ==
  UNION {{<<at, x[1], x[2]>> : x \in Behind(b, rows, b[at + 1] \div Infos, h)} : h \in HeadsAt(b, at)}

RowsAt(items, rows, at) ==
  {<<at, at, <<>>>>} \cup
    UNION {{<<at, To(r), <<What(x)>> \o What(r)>> : r \in {r \in rows : From(r) = To(x)}} :
           x \in {x \in items : From(x) = at}}

\* The bytes the decoder is given.
Strings == Blobs["item"] \cup Blobs["key"]
             \cup {KeyPart(b) : b \in {b \in Blobs["data"] : LongEnough(b) /\ AttestedData(b)}}

ASSUME GrammarAssumption ==
  \A b \in Strings :
    LET items == Items(b)
        rows  == Rows(b)
    IN  /\ items = UNION {ItemsAt(b, rows, at) : at \in 0..(Len(b) - 1)}
        /\ rows = UNION {RowsAt(items, rows, at) : at \in 0..Len(b)}
        \* Rows lie in the bytes, and have no more items than bytes: none is empty.
        /\ \A r \in rows : /\ From(r) \in 0..Len(b) /\ To(r) \in From(r)..Len(b)
                           /\ What(r) \in Seq({What(x) : x \in items})
                           /\ Len(What(r)) <= To(r) - From(r)

\* An input fits in the memory as items.
ASSUME RoomAssumption == \A b \in Strings : Len(b) <= Room

(* value() reads a value and stops exactly where some item of the grammar  *)
(* ends, with the meaning it has there, and every item is read             *)
(* (cbor.go:81): maps and arrays nest, lengths take any form, and a length *)
(* or a position that wraps costs no item and makes none.                  *)
ReadsTheGrammar ==
  reader = "item" /\ Ended =>
    {x \in Items(blob) : From(x) = 0} = IF pc = "value" THEN {<<0, i, hand>>} ELSE {}

ReadsKey == reader = "key" \/ (reader = "data" /\ LongEnough(blob) /\ AttestedData(blob))

(* A key is what its pairs mean and not how they are ordered or spelled:   *)
(* bytes that begin with an ES256 key by the grammar, where the last pair  *)
(* with a label counts, are accepted, and no others, wherever they stand   *)
(* (webauthn.go:115).                                                      *)
KeyFromPairs ==
  ReadsKey /\ Ended =>
    (pc = "value" <=> \E x \in Items(rest) : From(x) = 0 /\ ES256(What(x)))

(* The process ends only for a key that Go cannot hash, with its value     *)
(* read, or at a head that announces more than is left of the input: no    *)
(* item that is all there, its keys hashable, is too much for the decoder  *)
(* (cbor.go:35, 100, 111, 120).                                            *)
PanicsExplained ==
  pc = "panic" =>
    \/ stack # <<>> /\ Top.kind = "map" /\ Top.key # Nothing /\ Top.key[1] \in Unhashable
    \/ i < Len(rest) /\ \E h \in HeadsAt(rest, i) : h.arg > Len(rest) - h.to
=============================================================================
