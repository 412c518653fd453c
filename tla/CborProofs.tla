----------------------------- MODULE CborProofs -----------------------------
(***************************************************************************)
(* Theorems of Cbor, for any sizes that fit the format, the code's own     *)
(* among them, and inputs of any length.  All of them rest on where a read *)
(* ends: a head is within the slice, uses up a byte at least and has an    *)
(* argument of a word, and a position wraps only where more is announced   *)
(* than there is.                                                          *)
(***************************************************************************)
EXTENDS CborGrammar, SequenceTheorems, TLAPS

-----------------------------------------------------------------------------
(* Reading.                                                                *)

\* A word that is below its upper half is the number it says.
LEMMA WordIsItself ==
  ASSUME NEW n \in Nat, 2 * n < Word
  PROVE  Signed(n) = n
<1>1. Word \in Nat \ {0}
  BY FormatAssumption
<1>2. n % Word = n
  BY <1>1
<1> QED
  BY <1>1, <1>2 DEF Signed

\* An int is read from any word.
LEMMA SignedInt ==
  ASSUME NEW n \in Int PROVE Signed(n) \in Int
<1>1. Word \in Nat \ {0}
  BY FormatAssumption
<1> QED
  BY <1>1 DEF Signed
\* A cut out of a sequence.
LEMMA CutFacts ==
  ASSUME NEW S, NEW b \in Seq(S), NEW lo \in 0..Len(b), NEW hi \in lo..Len(b)
  PROVE  /\ SubSeq(b, lo + 1, hi) \in Seq(S)
         /\ Len(SubSeq(b, lo + 1, hi)) = hi - lo
<1>1. Len(b) \in Nat /\ lo + 1 \in Int /\ hi \in Int
  OBVIOUS
<1>2. \A k \in (lo + 1)..hi : b[k] \in S
  BY <1>1
<1>3. /\ SubSeq(b, lo + 1, hi) \in Seq(S)
      /\ Len(SubSeq(b, lo + 1, hi)) = IF lo + 1 <= hi THEN hi - (lo + 1) + 1 ELSE 0
  BY <1>1, <1>2, SubSeqProperties
<1> QED
  BY <1>1, <1>3

\* A cut begins with the element behind its lower end.
LEMMA CutElements ==
  ASSUME NEW S, NEW b \in Seq(S), NEW lo \in 0..Len(b), NEW hi \in lo..Len(b)
  PROVE  \A k \in 1..(hi - lo) : SubSeq(b, lo + 1, hi)[k] = b[lo + k]
<1>1. Len(b) \in Nat /\ lo + 1 \in Int /\ hi \in Int /\ hi - (lo + 1) + 1 = hi - lo
  OBVIOUS
<1>2. \A k \in (lo + 1)..hi : b[k] \in S
  BY <1>1
<1>3. \A k \in 1..(hi - (lo + 1) + 1) : SubSeq(b, lo + 1, hi)[k] = b[lo + 1 + k - 1]
  BY <1>1, <1>2, SubSeqProperties
<1> QED
  BY <1>1, <1>3

\* What is accepted of a read: n bytes more, from where the reader stands.  A
\* read that fails says so unless the end of it has wrapped.
LEMMA TakeFacts ==
  ASSUME NEW b \in Seq(Byte), NEW j \in 0..Len(b), NEW n \in Int
  PROVE  /\ Take(b, j, n).out \in {"value", "refused", "short", "panic"}
         /\ Accepted(Take(b, j, n)) =>
              /\ Take(b, j, n).i \in j..Len(b)
              /\ Signed(j + n) = Take(b, j, n).i
              /\ Take(b, j, n).v = SubSeq(b, j + 1, Take(b, j, n).i)
         /\ n >= 0 /\ 2 * (j + n) < Word => Take(b, j, n).out \in {"value", "short"}
<1>1. Len(b) \in Nat /\ Signed(j + n) \in Int
  BY SignedInt
<1>2. n >= 0 /\ 2 * (j + n) < Word => Signed(j + n) = j + n
  <2>1. n >= 0 /\ 2 * (j + n) < Word => j + n \in Nat /\ 2 * (j + n) < Word
    BY <1>1, FormatAssumption
  <2> QED
    BY <2>1, WordIsItself
<1>3. CASE n < 0
  BY <1>1, <1>3 DEF Take, Stop, Accepted
<1>4. CASE n >= 0 /\ Signed(j + n) > Len(b)
  BY <1>1, <1>2, <1>4 DEF Take, Stop, Accepted
<1>5. CASE n >= 0 /\ Signed(j + n) <= Len(b)
  <2>1. Take(b, j, n) = Slice(b, j, Signed(j + n))
    BY <1>1, <1>5 DEF Take
  <2>2. CASE j <= Signed(j + n)
    BY <1>1, <1>5, <2>1, <2>2 DEF Slice, Ok, Accepted
  <2>3. CASE ~(j <= Signed(j + n))
    BY <1>1, <1>2, <1>5, <2>1, <2>3 DEF Slice, Stop, Accepted
  <2> QED
    BY <2>2, <2>3
<1> QED
  BY <1>1, <1>3, <1>4, <1>5

\* A head is a byte of the slice and what follows it.
LEMMA HeadFacts ==
  ASSUME NEW r \in Readers, NEW whole \in Blobs[r],
         NEW b \in Seq(Byte), Len(b) <= Len(whole), NEW j \in 0..Len(b)
  PROVE  /\ HeadAt(b, j).out \in {"value", "refused", "short"}
         /\ Accepted(HeadAt(b, j)) =>
              /\ j < Len(b)
              /\ HeadAt(b, j).major = b[j + 1] \div Infos
              /\ HeadAt(b, j).arg \in Nat /\ HeadAt(b, j).arg < Word
              /\ HeadAt(b, j).i \in (j + 1)..Len(b)
<1> DEFINE c     == b[j + 1]
           info  == c % Infos
           after == Take(b, j + 1, Width[info])
<1>1. Len(b) \in Nat /\ Len(whole) \in Nat
  BY SizeAssumption
<1>2. CASE j >= Len(b)
  BY <1>1, <1>2 DEF HeadAt, Stop, Accepted
<1>3. CASE j < Len(b) /\ info \in Direct
  <2>1. HeadAt(b, j) = HeadOf(c, info, j + 1)
    BY <1>1, <1>3, FormatAssumption DEF HeadAt
  <2>2. info \in Nat /\ info < Word
    <3>1. Word \in Nat /\ info \in 0..(Word - 1)
      BY <1>3, FormatAssumption
    <3> HIDE DEF info
    <3> QED
      BY <3>1
  <2> QED
    BY <1>1, <1>3, <2>1, <2>2 DEF HeadOf, Accepted
<1>4. CASE j < Len(b) /\ info \notin Direct /\ info \in DOMAIN Width
  <2>1. HeadAt(b, j) = IF Accepted(after) THEN HeadOf(c, BigEndian(after.v), after.i) ELSE after
    BY <1>1, <1>4, FormatAssumption DEF HeadAt
  <2>2. Width[info] \in Nat \ {0} /\ 2 * (Len(whole) + Width[info]) < Word /\ Word \in Nat
    BY <1>4, FormatAssumption, SizeAssumption
  <2>3. j + 1 \in 0..Len(b) /\ 2 * (Len(b) + Width[info]) < Word
    BY <1>1, <1>4, <2>2
  <2>4. /\ after.out \in {"value", "short"}
        /\ Accepted(after) =>
             /\ after.i \in (j + 1)..Len(b)
             /\ Signed((j + 1) + Width[info]) = after.i
             /\ after.v = SubSeq(b, (j + 1) + 1, after.i)
    <3> Width[info] \in Int /\ Width[info] >= 0 /\ 2 * ((j + 1) + Width[info]) < Word
      BY <1>1, <2>2, <2>3
    <3> HIDE DEF info
    <3> QED
      BY <2>3, TakeFacts
  <2>5. CASE Accepted(after)
    <3>1. after.i \in (j + 1)..Len(b) /\ after.v = SubSeq(b, (j + 1) + 1, after.i)
      BY <2>4, <2>5
    <3>2. after.i = j + 1 + Width[info]
      <4>1. j + 1 + Width[info] \in Nat /\ 2 * (j + 1 + Width[info]) < Word
        BY <2>2, <2>3, <1>1
      <4>2. Signed(j + 1 + Width[info]) = after.i
        BY <2>4, <2>5
      <4> QED
        BY <4>1, <4>2, WordIsItself
    <3>3. after.v \in [1..Width[info] -> Byte]
      <4>1. Len(after.v) = after.i - (j + 1) /\ after.v \in Seq(Byte)
        BY <3>1, <2>3, CutFacts
      <4>2. Len(after.v) = Width[info]
        BY <3>1, <3>2, <4>1, <2>2
      <4> QED
        BY <4>1, <4>2
    <3>4. BigEndian(after.v) \in Nat /\ BigEndian(after.v) < Word
      <4>1. BigEndian(after.v) \in 0..(Word - 1)
        BY <3>3, <1>4, FormatAssumption
      <4> QED
        BY <2>2, <4>1
    <3> QED
      BY <1>1, <1>4, <2>1, <2>5, <3>1, <3>4 DEF HeadOf, Accepted
  <2> QED
    BY <2>1, <2>4, <2>5 DEF Accepted
<1>5. CASE j < Len(b) /\ info \notin Direct /\ info \notin DOMAIN Width
  BY <1>1, <1>5 DEF HeadAt, Stop, Accepted
<1> QED
  BY <1>1, <1>2, <1>3, <1>4, <1>5

-----------------------------------------------------------------------------
(* What the actions do.                                                    *)

\* A call that has an item to store, or one above it, still expects an item.
Busy ==
  /\ \A d \in 1..Len(stack) : d < Len(stack) => stack[d].left # 0
  /\ hand # Nothing /\ stack # <<>> => Top.left # 0

Started == TypeOK /\ Busy

IsFrame(f) ==
  /\ DOMAIN f = {"kind", "left", "items", "key"}
  /\ f.kind \in {"array", "map"} /\ f.left \in Nat
  /\ f.key = Nothing \/ IsItem(f.key)

Elements(s) == {s[d] : d \in 1..Len(s)}

\* What TypeOK says of a stack, one call at a time.
IsStack(s) ==
  /\ s \in Seq(Elements(s))
  /\ \A d \in 1..Len(s) : IsFrame(s[d])

\* The stack of every state is a stack.
LEMMA StackTyped ==
  ASSUME TypeOK PROVE IsStack(stack) /\ Len(stack) \in Nat
BY DEF TypeOK, IsStack, Frames, IsFrame, Elements

\* What stands on a stack, field by field.
LEMMA StackTypes ==
  ASSUME IsStack(stack)
  PROVE  /\ stack \in Seq(Frames)
         /\ \A f \in Frames : /\ DOMAIN f = {"kind", "left", "items", "key"}
                              /\ f.kind \in {"array", "map"} /\ f.left \in Nat
                              /\ f.key = Nothing \/ IsItem(f.key)
BY DEF IsStack, Frames, IsFrame, Elements

\* A sequence is one of its own elements.
LEMMA OwnElements ==
  ASSUME NEW S, NEW s \in Seq(S) PROVE s \in Seq(Elements(s))
BY SeqOfRange, RangeEquality DEF Elements

\* A call of value() that begins to wait.
LEMMA PushedStack ==
  ASSUME NEW s, IsStack(s), NEW f, IsFrame(f)
  PROVE  /\ IsStack(Append(s, f))
         /\ Len(Append(s, f)) = Len(s) + 1 /\ Len(s) \in Nat
         /\ \A d \in 1..Len(s) : Append(s, f)[d] = s[d]
         /\ Append(s, f)[Len(s) + 1] = f
<1> DEFINE S == Elements(s) \cup {f}
<1>1. s \in Seq(S)
  BY SeqMonotonic DEF IsStack
<1>2. /\ Append(s, f) \in Seq(S)
      /\ Len(Append(s, f)) = Len(s) + 1 /\ Len(s) \in Nat
      /\ \A d \in 1..Len(s) : Append(s, f)[d] = s[d]
      /\ Append(s, f)[Len(s) + 1] = f
  BY <1>1, AppendProperties, LenProperties
<1>3. \A d \in 1..Len(Append(s, f)) : IsFrame(Append(s, f)[d])
  <2> TAKE d \in 1..Len(Append(s, f))
  <2>1. CASE d \in 1..Len(s)
    BY <1>2, <2>1 DEF IsStack
  <2>2. CASE d = Len(s) + 1
    BY <1>2, <2>2
  <2> QED
    BY <1>2, <2>1, <2>2
<1> QED
  BY <1>2, <1>3, OwnElements DEF IsStack

\* A call that goes on to its next item.
WithTop(s, f) == [s EXCEPT ![Len(s)] = f]
\* A stack whose innermost call has got on.
LEMMA ChangedStack ==
  ASSUME NEW s, IsStack(s), s # <<>>, NEW f, IsFrame(f)
  PROVE  /\ IsStack(WithTop(s, f))
         /\ Len(WithTop(s, f)) = Len(s) /\ Len(s) \in Nat \ {0}
         /\ \A d \in 1..Len(s) : WithTop(s, f)[d] = IF d = Len(s) THEN f ELSE s[d]
<1> DEFINE t == WithTop(s, f)
<1> DEFINE S == Elements(s) \cup {f}
<1>1. s \in Seq(S) /\ f \in S
  BY SeqMonotonic DEF IsStack
<1>2. Len(s) \in Nat \ {0}
  BY <1>1, EmptySeq
<1>3. /\ t \in Seq(S) /\ Len(t) = Len(s)
      /\ \A d \in 1..Len(s) : t[d] = IF d = Len(s) THEN f ELSE s[d]
  BY <1>1, <1>2, ExceptSeq DEF WithTop
<1>4. \A d \in 1..Len(t) : IsFrame(t[d])
  BY <1>3 DEF IsStack
<1>5. t \in Seq(Elements(t))
  BY <1>3, OwnElements
<1> QED
  BY <1>2, <1>3, <1>4, <1>5 DEF IsStack

\* A call that returns.
LEMMA PoppedStack ==
  ASSUME NEW s, IsStack(s), s # <<>>, NEW t, t = SubSeq(s, 1, Len(s) - 1)
  PROVE  /\ IsStack(t)
         /\ Len(t) = Len(s) - 1 /\ Len(s) \in Nat \ {0}
         /\ \A d \in 1..Len(t) : t[d] = s[d]
<1> DEFINE S == Elements(s)
<1>1. s \in Seq(S)
  BY DEF IsStack
<1>2. Len(s) \in Nat \ {0}
  BY <1>1, EmptySeq
<1>3. t \in Seq(S) /\ Len(t) = Len(s) - 1 /\ \A d \in 1..Len(t) : t[d] = s[d]
  <2> HIDE DEF S
  <2>1. 0 + 1 = 1 /\ 0 \in 0..Len(s) /\ Len(s) - 1 \in 0..Len(s)
    BY <1>2
  <2>2. /\ SubSeq(s, 0 + 1, Len(s) - 1) \in Seq(S)
        /\ Len(SubSeq(s, 0 + 1, Len(s) - 1)) = Len(s) - 1 - 0
        /\ \A k \in 1..(Len(s) - 1 - 0) : SubSeq(s, 0 + 1, Len(s) - 1)[k] = s[0 + k]
    BY <1>1, <2>1, CutFacts, CutElements
  <2> QED
    BY <1>2, <2>1, <2>2
<1>4. \A d \in 1..Len(t) : IsFrame(t[d])
  BY <1>2, <1>3 DEF IsStack
<1>5. t \in Seq(Elements(t))
  BY <1>3, OwnElements
<1> QED
  BY <1>2, <1>3, <1>4, <1>5 DEF IsStack

\* Where the input is one of the inputs, its slice is a sequence of bytes.
LEMMA RestTyped ==
  ASSUME TypeOK
  PROVE  /\ reader \in Readers /\ blob \in Blobs[reader] /\ blob \in Seq(Byte)
         /\ rest \in Seq(Byte) /\ Len(rest) <= Len(blob)
         /\ Len(rest) \in Nat /\ Len(blob) \in Nat /\ i \in 0..Len(rest)
BY SizeAssumption DEF TypeOK

\* Every pair of a kind and a value is an item.
LEMMA TupleItem ==
  ASSUME NEW k \in Kinds, NEW v
  PROVE  <<k, v>> # Nothing /\ IsItem(<<k, v>>) /\ <<k, v>>[1] = k
BY DEF Nothing, IsItem

\* A call that reads a head ends the decoding, returns an item that is not a
\* container, or waits.
TooMuch(h) == Accepted(h) /\ (h.arg > Room \/ h.arg > Len(rest) - h.i)
ReadEnds ==
  /\ pc' \in {"refused", "short", "panic"} /\ UNCHANGED <<i, stack, hand>>
  /\ pc' = "panic" => TooMuch(HeadAt(rest, i))
ReadYields ==
  /\ i' \in (i + 1)..Len(rest) /\ UNCHANGED <<stack, pc>>
  /\ \E k \in {"int", "bytes", "text", "simple"} : \E v : hand' = <<k, v>>
ReadWaits ==
  /\ i' \in (i + 1)..Len(rest) /\ UNCHANGED <<hand, pc>>
  /\ \E n \in Nat :
       \/ stack' = Append(stack, ArrayFrame(n))
       \/ stack' = Append(stack, MapFrame(n))

\* value() up to its return or first call: it ends, yields an item or waits for one.
LEMMA ReadEffect ==
  ASSUME TypeOK, ReadItem
  PROVE  /\ UNCHANGED <<reader, blob, rest>>
         /\ ReadEnds \/ ReadYields \/ ReadWaits
<1> DEFINE h == HeadAt(rest, i)
<1>1. /\ h.out \in {"value", "refused", "short"}
      /\ Accepted(h) =>
           /\ i < Len(rest)
           /\ h.arg \in Nat /\ h.arg < Word
           /\ h.i \in (i + 1)..Len(rest)
  BY RestTyped, HeadFacts
<1>2. \/ ~Accepted(h) /\ End(h.out)
      \/ /\ Accepted(h)
         /\ \/ ReadNumber(h) \/ ReadString(h) \/ OpenArray(h) \/ OpenMap(h)
            \/ ReadSimple(h) \/ Unsupported(h)
  BY DEF ReadItem
<1>3. TooMuch(h) <=> TooMuch(HeadAt(rest, i))
  OBVIOUS
<1> HIDE DEF h
<1>4. CASE ~Accepted(h) /\ End(h.out)
  BY <1>1, <1>4 DEF End, ReadEnds, Accepted
<1>5. CASE Accepted(h) /\ ReadNumber(h)
  BY <1>1, <1>5 DEF ReadNumber, Yield, ReadYields
<1>6. CASE Accepted(h) /\ ReadString(h)
  <2> DEFINE t == Take(rest, h.i, Signed(h.arg))
  <2>1. Signed(h.arg) \in Int /\ h.i \in 0..Len(rest)
    <3>1. h.arg \in Int /\ h.i \in (i + 1)..Len(rest)
      BY <1>1, <1>6
    <3>2. i \in Nat /\ Len(rest) \in Nat
      BY RestTyped
    <3>3. Signed(h.arg) \in Int
      BY <3>1, SignedInt
    <3>4. h.i \in 0..Len(rest)
      BY <3>1, <3>2
    <3> QED
      BY <3>3, <3>4
  <2>2. /\ t.out \in {"value", "refused", "short", "panic"}
        /\ Accepted(t) => t.i \in h.i..Len(rest)
        /\ Signed(h.arg) >= 0 /\ 2 * (h.i + Signed(h.arg)) < Word => t.out \in {"value", "short"}
    BY <2>1, RestTyped, TakeFacts
  <2>3. h.arg <= Len(rest) - h.i => t.out \in {"value", "short"}
    <3>1. 2 * Len(rest) < Word /\ Word \in Nat /\ Len(rest) \in Nat /\ h.arg \in Nat /\ h.i \in Nat
      <4>1. Room \in Nat /\ 2 * (Len(blob) + Room) < Word /\ Word \in Nat
        BY RestTyped, SizeAssumption, FormatAssumption
      <4> QED
        BY <1>1, <1>6, <2>1, <4>1, RestTyped
    <3>2. h.arg <= Len(rest) - h.i => 2 * (h.i + h.arg) < Word /\ 2 * h.arg < Word
      BY <3>1
    <3>3. h.arg <= Len(rest) - h.i => Signed(h.arg) = h.arg
      BY <3>1, <3>2, WordIsItself
    <3> QED
      BY <2>2, <3>1, <3>2, <3>3
  <2>0. t.out = "panic" => TooMuch(h)
    BY <1>1, <1>6, <2>1, <2>3, RestTyped DEF TooMuch
  <2>4. \/ Accepted(t) /\ Yield(<<IF h.major = 2 THEN "bytes" ELSE "text", t.v>>, t.i)
        \/ ~Accepted(t) /\ End(t.out)
    BY <1>6 DEF ReadString
  <2> HIDE DEF t
  <2>5. CASE Accepted(t) /\ Yield(<<IF h.major = 2 THEN "bytes" ELSE "text", t.v>>, t.i)
    <3>1. t.i \in (i + 1)..Len(rest)
      BY <1>1, <1>6, <2>2, <2>5, RestTyped
    <3> QED
      BY <2>5, <3>1 DEF Yield, ReadYields
  <2>6. CASE ~Accepted(t) /\ End(t.out)
    BY <1>3, <2>0, <2>2, <2>6 DEF End, ReadEnds, Accepted
  <2> QED
    BY <2>4, <2>5, <2>6
<1>7. CASE Accepted(h) /\ OpenArray(h)
  <2>1. ~Make(h.arg) => TooMuch(h)
    BY <1>1, <1>7, SizeAssumption DEF Make, TooMuch
  <2> QED
    BY <1>1, <1>3, <1>7, <2>1 DEF OpenArray, Push, End, ReadEnds, ReadWaits
<1>8. CASE Accepted(h) /\ OpenMap(h)
  <2>1. ~MakeMap(h.arg) => TooMuch(h)
    BY <1>1, <1>8, SizeAssumption DEF MakeMap, TooMuch
  <2> QED
    BY <1>1, <1>3, <1>8, <2>1 DEF OpenMap, Push, End, ReadEnds, ReadWaits
<1>9. CASE Accepted(h) /\ ReadSimple(h)
  BY <1>1, <1>9 DEF ReadSimple, Yield, ReadYields
<1>10. CASE Accepted(h) /\ Unsupported(h)
  BY <1>1, <1>10 DEF Unsupported, End, ReadEnds
<1> QED
  BY <1>2, <1>4, <1>5, <1>6, <1>7, <1>8, <1>9, <1>10

\* TypeOK after a step, from what it is about.
LEMMA TypesAfter ==
  ASSUME TypeOK, UNCHANGED <<reader, blob>>,
         rest' \in Seq(Byte), Len(rest') <= Len(blob), i' \in 0..Len(rest'),
         IsStack(stack'), hand' = Nothing \/ IsItem(hand'),
         pc' \in {"start", "item", "value", "refused", "short", "panic"}
  PROVE  TypeOK'
BY DEF TypeOK, IsStack, Frames, IsFrame, Elements

\* The slice a key is read from is what follows the credential id.
LEMMA KeyPartFacts ==
  ASSUME NEW r \in Readers, NEW b \in Blobs[r], LongEnough(b), AttestedData(b)
  PROVE  /\ IdLength(b) \in Nat /\ Attested \in Nat \ {0}
         /\ Attested + IdLength(b) \in 0..Len(b)
         /\ KeyPart(b) \in Seq(Byte)
         /\ Len(KeyPart(b)) = Len(b) - (Attested + IdLength(b))
<1>1. b \in Seq(Byte) /\ Len(b) \in Nat
  BY SizeAssumption
<1>2. /\ Attested \in Nat \ {0} /\ IdBytes \in Nat \ {0} /\ IdBytes <= Attested
      /\ \A s \in [1..IdBytes -> Byte] : BigEndian(s) \in 0..(Word - 1)
      /\ Word \in Nat
  BY FormatAssumption
<1>3. Len(b) >= Attested /\ Len(b) >= Attested + IdLength(b)
  BY DEF LongEnough, HasId
<1>4. SubSeq(b, Attested - IdBytes + 1, Attested) \in [1..IdBytes -> Byte]
  <2>1. Attested - IdBytes \in 0..Len(b) /\ Attested \in (Attested - IdBytes)..Len(b)
    BY <1>1, <1>2, <1>3
  <2>2. /\ SubSeq(b, (Attested - IdBytes) + 1, Attested) \in Seq(Byte)
        /\ Len(SubSeq(b, (Attested - IdBytes) + 1, Attested)) = Attested - (Attested - IdBytes)
    BY <1>1, <2>1, CutFacts
  <2>3. Attested - (Attested - IdBytes) = IdBytes
    BY <1>2
  <2> QED
    BY <2>2, <2>3, LenProperties
<1>5. IdLength(b) \in Nat
  <2>1. \A s \in [1..IdBytes -> Byte] : BigEndian(s) \in Nat
    BY <1>2
  <2>2. BigEndian(SubSeq(b, Attested - IdBytes + 1, Attested)) \in Nat
    BY <1>4, <2>1, Zenon
  <2> QED
    BY <2>2 DEF IdLength
<1>6. Attested + IdLength(b) \in 0..Len(b) /\ Len(b) \in (Attested + IdLength(b))..Len(b)
  BY <1>1, <1>2, <1>3, <1>5
<1>7. /\ SubSeq(b, (Attested + IdLength(b)) + 1, Len(b)) \in Seq(Byte)
      /\ Len(SubSeq(b, (Attested + IdLength(b)) + 1, Len(b))) = Len(b) - (Attested + IdLength(b))
  BY <1>1, <1>6, CutFacts
<1> QED
  BY <1>2, <1>5, <1>6, <1>7 DEF KeyPart

\* The decoder begins at the beginning of its slice, and ParseAuthenticatorData
\* with the whole input as the slice.
Fresh ==
  pc = "start" => reader = "data" /\ rest = blob /\ i = 0 /\ stack = <<>> /\ hand = Nothing

\* ParseAuthenticatorData up to parseCOSEKey: too short, done, or on to the key.
LEMMA ParseEffect ==
  ASSUME TypeOK, ParseFixed
  PROVE  /\ pc = "start" /\ UNCHANGED <<reader, blob, i, stack, hand>>
         /\ \/ pc' = "short" /\ rest' = rest /\ ~LongEnough(blob)
            \/ pc' = "value" /\ rest' = rest /\ LongEnough(blob) /\ ~AttestedData(blob)
            \/ /\ pc' = "item" /\ rest' = KeyPart(blob) /\ LongEnough(blob) /\ AttestedData(blob)
               /\ rest' \in Seq(Byte) /\ Len(rest') < Len(blob)
<1>1. LongEnough(blob) /\ AttestedData(blob) => KeyPart(blob) \in Seq(Byte) /\ Len(KeyPart(blob)) < Len(blob)
  BY KeyPartFacts, RestTyped
<1> QED
  BY <1>1 DEF ParseFixed, End

\* An item goes into the innermost call, and uses up one it waits for unless it
\* is a key.
StoreStep ==
  /\ pc = "item" /\ hand # Nothing /\ stack # <<>> /\ hand' = Nothing
  /\ UNCHANGED <<reader, blob, rest, i, pc>>
  /\ \E f :
       /\ stack' = WithTop(stack, f)
       /\ IsFrame(f) /\ f.kind = Top.kind
       /\ f.kind = "map" => \/ f.items = Top.items
                            \/ Top.key # Nothing /\ f.items = Put(Top.items, Top.key, hand)
       /\ f.key \in {Nothing, Top.key, hand}

\* A call that gets an item goes on, or a map panics over its key.
LEMMA StoreEffect ==
  ASSUME Started, StoreElement \/ StoreKey \/ StoreEntry
  PROVE  \/ StoreStep
         \/ /\ pc = "item" /\ hand # Nothing /\ stack # <<>> /\ Top.kind = "map"
            /\ Top.key # Nothing /\ Top.key[1] \in Unhashable /\ End("panic")
<1>1. pc = "item" /\ hand # Nothing /\ stack # <<>>
  BY DEF StoreElement, StoreKey, StoreEntry, Awaited
<1>2. IsFrame(Top) /\ Top.left # 0 /\ IsItem(hand)
  <2>1. Len(stack) \in 1..Len(stack)
    BY <1>1, StackTyped, EmptySeq DEF IsStack
  <2> QED
    BY <1>1, <2>1, StackTyped DEF Top, Started, Busy, IsStack, TypeOK
<1>3. Top.left - 1 \in Nat
  BY <1>2 DEF IsFrame
<1>4. CASE StoreElement
  <2> DEFINE f == [Top EXCEPT !.left = @ - 1, !.items = Append(@, hand)]
  <2>1. IsFrame(f) /\ f.kind = Top.kind /\ f.kind = "array" /\ f.key = Top.key
    BY <1>2, <1>3, <1>4 DEF IsFrame, StoreElement
  <2>2. stack' = WithTop(stack, f)
    BY <1>4 DEF StoreElement, SetTop, WithTop
  <2> HIDE DEF f
  <2> QED
    BY <1>1, <1>4, <2>1, <2>2 DEF StoreElement, Resume, StoreStep
<1>5. CASE StoreKey
  <2> DEFINE f == [Top EXCEPT !.key = hand]
  <2>1. IsFrame(f) /\ f.kind = Top.kind /\ f.items = Top.items /\ f.key = hand
    BY <1>2, <1>5 DEF IsFrame
  <2>2. stack' = WithTop(stack, f)
    BY <1>5 DEF StoreKey, SetTop, WithTop
  <2> HIDE DEF f
  <2> QED
    BY <1>1, <1>5, <2>1, <2>2 DEF StoreKey, Resume, StoreStep
<1>6. CASE StoreEntry
  <2> DEFINE f == [Top EXCEPT !.left = @ - 1, !.items = Put(@, Top.key, hand), !.key = Nothing]
  <2>1. IsFrame(f) /\ f.kind = Top.kind /\ f.items = Put(Top.items, Top.key, hand)
        /\ f.key = Nothing
    BY <1>2, <1>3 DEF IsFrame
  <2>2. /\ Top.kind = "map" /\ Top.key # Nothing
        /\ (Top.key[1] \in Unhashable /\ End("panic")) \/ (Resume /\ stack' = WithTop(stack, f))
    BY <1>6 DEF StoreEntry, SetTop, WithTop
  <2> HIDE DEF f
  <2> QED
    BY <1>1, <1>6, <2>1, <2>2 DEF Resume, StoreStep
<1> QED
  BY <1>4, <1>5, <1>6

\* A call returns, and its item is what it has put together.
CloseStep ==
  /\ pc = "item" /\ hand = Nothing /\ stack # <<>>
  /\ UNCHANGED <<reader, blob, rest, i, pc>>
  /\ stack' = SubSeq(stack, 1, Len(stack) - 1)
  /\ hand' = <<Top.kind, Top.items>> /\ IsItem(hand') /\ hand' # Nothing

\* A call whose loop is over returns.
LEMMA CloseEffect ==
  ASSUME Started, CloseItem PROVE CloseStep
<1>1. stack # <<>> /\ hand' = <<Top.kind, Top.items>>
  BY DEF CloseItem
<1>2. IsFrame(Top)
  BY <1>1, StackTyped, EmptySeq DEF Top, Started, IsStack
<1>3. Top.kind \in Kinds
  BY <1>2 DEF IsFrame, Kinds
<1> QED
  BY <1>1, <1>3, TupleItem DEF CloseItem, CloseStep

\* What a step comes to.
LEMMA StepEffect ==
  ASSUME Started, [Next]_vars
  PROVE  \/ ParseFixed
         \/ /\ ReadItem /\ UNCHANGED <<reader, blob, rest>>
            /\ ReadEnds \/ ReadYields \/ ReadWaits
         \/ StoreStep
         \/ /\ pc = "item" /\ hand # Nothing /\ stack # <<>> /\ Top.kind = "map"
            /\ Top.key # Nothing /\ Top.key[1] \in Unhashable /\ End("panic")
         \/ CloseStep
         \/ ReturnItem
         \/ UNCHANGED vars
BY ReadEffect, StoreEffect, CloseEffect DEF Next, Started

-----------------------------------------------------------------------------
(* Types.                                                                  *)

\* Every step keeps the types, and the calls below the innermost one waiting.
LEMMA StartedKept ==
  ASSUME Started, Fresh, [Next]_vars
  PROVE  Started' /\ Fresh'
<1> USE DEF Started
<1>1. /\ IsStack(stack) /\ Len(stack) \in Nat
      /\ reader \in Readers /\ blob \in Blobs[reader] /\ blob \in Seq(Byte)
      /\ rest \in Seq(Byte) /\ Len(rest) <= Len(blob)
      /\ Len(rest) \in Nat /\ Len(blob) \in Nat /\ i \in 0..Len(rest)
      /\ hand = Nothing \/ IsItem(hand)
      /\ pc \in {"start", "item", "value", "refused", "short", "panic"}
      /\ stack # <<>> => Len(stack) \in 1..Len(stack)
  BY StackTyped, RestTyped, EmptySeq DEF TypeOK, IsStack
<1>2. CASE ParseFixed
  <2>1. /\ pc = "start" /\ UNCHANGED <<reader, blob, i, stack, hand>>
        /\ pc' \in {"item", "value", "short"}
        /\ rest' \in Seq(Byte) /\ Len(rest') <= Len(blob) /\ i = 0
    BY <1>1, <1>2, ParseEffect DEF Fresh
  <2>2. i' \in 0..Len(rest')
    BY <2>1
  <2>3. TypeOK'
    BY <1>1, <2>1, <2>2, TypesAfter
  <2>4. Busy'
    BY <2>1 DEF Busy, Top
  <2> QED
    BY <2>1, <2>3, <2>4 DEF Fresh
<1>3. CASE ReadItem /\ UNCHANGED <<reader, blob, rest>> /\ ReadEnds
  <2>1. TypeOK'
    BY <1>1, <1>3, TypesAfter DEF ReadEnds
  <2>2. Busy'
    BY <1>3 DEF Busy, Top, ReadEnds
  <2> QED
    BY <1>3, <2>1, <2>2 DEF Fresh, ReadEnds
<1>4. CASE ReadItem /\ UNCHANGED <<reader, blob, rest>> /\ ReadYields
  <2>1. i' \in 0..Len(rest) /\ IsItem(hand') /\ pc = "item"
    BY <1>1, <1>4, TupleItem DEF ReadYields, Kinds, ReadItem
  <2>2. TypeOK'
    BY <1>1, <1>4, <2>1, TypesAfter DEF ReadYields
  <2>3. Busy'
    BY <1>4 DEF Busy, Top, ReadItem, ReadYields
  <2> QED
    BY <1>4, <2>1, <2>2, <2>3 DEF Fresh, ReadYields
<1>5. CASE ReadItem /\ UNCHANGED <<reader, blob, rest>> /\ ReadWaits
  <2>1. i' \in 0..Len(rest) /\ pc = "item" /\ hand = Nothing
    BY <1>1, <1>5 DEF ReadWaits, ReadItem
  <2>2. \A n \in Nat : IsFrame(ArrayFrame(n)) /\ IsFrame(MapFrame(n))
    BY DEF IsFrame, ArrayFrame, MapFrame
  <2>3. PICK f : stack' = Append(stack, f) /\ IsFrame(f)
    BY <1>5, <2>2 DEF ReadWaits
  <2>4. /\ IsStack(stack') /\ Len(stack') = Len(stack) + 1
        /\ \A d \in 1..Len(stack) : stack'[d] = stack[d]
    BY <1>1, <2>3, PushedStack
  <2>5. TypeOK'
    BY <1>1, <1>5, <2>1, <2>4, TypesAfter DEF ReadWaits
  <2>6. Busy'
    <3>1. \A d \in 1..Len(stack) : stack[d].left # 0
      BY <1>1, <1>5 DEF Busy, Top, ReadItem
    <3>2. hand' = Nothing
      BY <1>5, <2>1 DEF ReadWaits
    <3> QED
      BY <1>1, <2>4, <3>1, <3>2 DEF Busy
  <2> QED
    BY <1>5, <2>1, <2>5, <2>6 DEF Fresh, ReadWaits
<1>6. CASE StoreStep
  <2>1. PICK f : stack' = WithTop(stack, f) /\ IsFrame(f)
    BY <1>6 DEF StoreStep
  <2>0. stack # <<>> /\ hand' = Nothing
    BY <1>6 DEF StoreStep
  <2>2. /\ IsStack(stack') /\ Len(stack') = Len(stack)
        /\ \A d \in 1..Len(stack) : stack'[d] = IF d = Len(stack) THEN f ELSE stack[d]
    BY <1>1, <2>0, <2>1, ChangedStack
  <2>3. TypeOK'
    BY <1>1, <1>6, <2>2, TypesAfter DEF StoreStep
  <2>4. Busy'
    BY <1>1, <2>0, <2>2 DEF Busy
  <2> QED
    BY <1>6, <2>3, <2>4 DEF Fresh, StoreStep
<1>7. CASE pc = "item" /\ End("panic")
  <2>1. TypeOK'
    BY <1>1, <1>7, TypesAfter DEF End
  <2> QED
    BY <1>7, <2>1 DEF Fresh, End, Busy, Top
<1>8. CASE CloseStep
  <2>1. /\ IsStack(stack') /\ Len(stack') = Len(stack) - 1
        /\ \A d \in 1..Len(stack') : stack'[d] = stack[d]
    BY <1>1, <1>8, PoppedStack DEF CloseStep
  <2>2. TypeOK'
    BY <1>1, <1>8, <2>1, TypesAfter DEF CloseStep
  <2>3. \A d \in 1..Len(stack') : stack'[d].left # 0
    BY <1>1, <2>1 DEF Busy
  <2>4. Busy'
    <3>1. stack' # <<>> => Len(stack') \in 1..Len(stack')
      BY <2>1, EmptySeq DEF IsStack
    <3> QED
      BY <2>3, <3>1 DEF Busy, Top
  <2> QED
    BY <1>8, <2>2, <2>4 DEF Fresh, CloseStep
<1>9. CASE ReturnItem
  <2>1. UNCHANGED <<reader, blob, rest, i, stack, hand>> /\ pc' \in {"value", "refused"}
    BY <1>9 DEF ReturnItem, End
  <2>2. TypeOK'
    BY <1>1, <2>1, TypesAfter
  <2> QED
    BY <2>1, <2>2 DEF Fresh, Busy, Top
<1>10. CASE UNCHANGED vars
  <2>1. UNCHANGED <<reader, blob, rest, i, stack, hand, pc>>
    BY <1>10 DEF vars
  <2> QED
    BY <2>1 DEF TypeOK, Busy, Fresh, Top, Frames
<1> QED
  BY <1>2, <1>3, <1>4, <1>5, <1>6, <1>7, <1>8, <1>9, <1>10, StepEffect

\* The invariant that all theorems on the decoder rest on.
LEMMA AlwaysStarted == Spec => [](Started /\ Fresh)
<1>1. Init => Started /\ Fresh
  <2> SUFFICES ASSUME Init PROVE Started /\ Fresh
    OBVIOUS
  <2>1. blob \in Seq(Byte) /\ Len(blob) \in Nat
    BY SizeAssumption DEF Init
  <2>2. stack = <<>> /\ Len(stack) = 0
    BY EmptySeq DEF Init
  <2>3. stack \in Seq(Frames)
    BY <2>2, EmptySeq
  <2>4. TypeOK
    BY <2>1, <2>2, <2>3 DEF Init, TypeOK, Frames
  <2> QED
    BY <2>2, <2>4 DEF Init, Started, Busy, Fresh
<1>2. Started /\ Fresh /\ [Next]_vars => (Started /\ Fresh)'
  BY StartedKept
<1> QED
  BY <1>1, <1>2, PTL DEF Spec

\* The decoder stands within its slice, and its calls wait for a number of
\* items, whatever the input.
THEOREM CborTypes == Spec => []TypeOK
BY AlwaysStarted, PTL DEF Started

-----------------------------------------------------------------------------
(* How far, how deep and how long.                                         *)

\* The lengths of the stack and of the slice under a step.
LEMMA LengthsStep ==
  ASSUME Started, Fresh, [Next]_vars
  PROVE  /\ Len(stack) \in Nat /\ i \in 0..Len(rest) /\ Len(rest) \in Nat
         /\ \/ /\ ParseFixed /\ ~Ended /\ UNCHANGED <<i, stack, hand>>
               /\ \/ Ended' /\ rest' = rest
                  \/ ~Ended' /\ Len(rest') < Len(rest) /\ Len(rest') \in Nat
            \/ ~Ended /\ Ended' /\ UNCHANGED <<rest, i, stack, hand>>
            \/ /\ ~Ended /\ ~Ended' /\ rest' = rest
               /\ \/ /\ i' \in (i + 1)..Len(rest)
                     /\ \/ hand = Nothing /\ hand' # Nothing /\ Len(stack') = Len(stack)
                        \/ hand = Nothing /\ hand' = Nothing /\ Len(stack') = Len(stack) + 1
                  \/ /\ i' = i
                     /\ \/ hand # Nothing /\ hand' = Nothing /\ Len(stack') = Len(stack)
                        \/ hand = Nothing /\ hand' # Nothing /\ Len(stack') = Len(stack) - 1
            \/ UNCHANGED vars
<1>1. /\ IsStack(stack) /\ Len(stack) \in Nat
      /\ rest \in Seq(Byte) /\ Len(rest) \in Nat /\ i \in 0..Len(rest) /\ Len(blob) \in Nat
  BY StackTyped, RestTyped DEF Started
<1>2. CASE ParseFixed
  <2>1. /\ pc = "start" /\ UNCHANGED <<reader, blob, i, stack, hand>>
        /\ rest = blob /\ Len(rest) = Len(blob)
    BY <1>2, ParseEffect DEF Started, Fresh
  <2>2. rest' \in Seq(Byte) => Len(rest') \in Nat
    BY LenProperties
  <2> QED
    BY <1>1, <1>2, <2>1, <2>2, ParseEffect DEF Started, Ended
<1>3. CASE ReadItem /\ UNCHANGED <<reader, blob, rest>> /\ ReadEnds
  BY <1>1, <1>3 DEF ReadItem, ReadEnds, Ended
<1>4. CASE ReadItem /\ UNCHANGED <<reader, blob, rest>> /\ ReadYields
  <2>1. hand' # Nothing
    BY <1>4, TupleItem DEF ReadYields, Kinds
  <2> QED
    BY <1>1, <1>4, <2>1 DEF ReadItem, ReadYields, Ended
<1>5. CASE ReadItem /\ UNCHANGED <<reader, blob, rest>> /\ ReadWaits
  <2>1. \A n \in Nat : IsFrame(ArrayFrame(n)) /\ IsFrame(MapFrame(n))
    BY DEF IsFrame, ArrayFrame, MapFrame
  <2>2. PICK f : stack' = Append(stack, f) /\ IsFrame(f)
    BY <1>5, <2>1 DEF ReadWaits
  <2>3. Len(stack') = Len(stack) + 1
    BY <1>1, <2>2, PushedStack
  <2> QED
    BY <1>1, <1>5, <2>3 DEF ReadItem, ReadWaits, Ended
<1>6. CASE StoreStep
  <2>1. PICK f : stack' = WithTop(stack, f) /\ IsFrame(f)
    BY <1>6 DEF StoreStep
  <2>2. stack # <<>>
    BY <1>6 DEF StoreStep
  <2>3. Len(stack') = Len(stack)
    BY <1>1, <2>1, <2>2, ChangedStack
  <2> QED
    BY <1>1, <1>6, <2>3 DEF StoreStep, Ended
<1>7. CASE pc = "item" /\ End("panic")
  BY <1>1, <1>7 DEF End, Ended
<1>8. CASE CloseStep
  <2>1. Len(stack') = Len(stack) - 1
    BY <1>1, <1>8, PoppedStack DEF CloseStep
  <2> QED
    BY <1>1, <1>8, <2>1 DEF CloseStep, Ended
<1>9. CASE ReturnItem
  BY <1>1, <1>9 DEF ReturnItem, End, Ended
<1>10. CASE UNCHANGED vars
  BY <1>1, <1>10
<1> QED
  BY <1>2, <1>3, <1>4, <1>5, <1>6, <1>7, <1>8, <1>9, <1>10, StepEffect

\* The recursion of value() goes no deeper than the bytes read, for inputs of
\* any length.
THEOREM DepthBounded == Spec => []DepthWithinInput
<1>1. Init => DepthWithinInput
  BY EmptySeq DEF Init, DepthWithinInput, Nothing
<1>2. Started /\ Fresh /\ DepthWithinInput /\ [Next]_vars => DepthWithinInput'
  <2> SUFFICES ASSUME Started, Fresh, DepthWithinInput, [Next]_vars PROVE DepthWithinInput'
    OBVIOUS
  <2> DEFINE Held(h) == IF h = Nothing THEN 0 ELSE 1
  <2>1. Len(stack) + Held(hand) <= i
    BY DEF DepthWithinInput
  <2>2. Len(stack') + Held(hand') <= i'
    <3>1. CASE UNCHANGED <<i, stack, hand>>
      BY <2>1, <3>1
    <3>2. CASE ~UNCHANGED <<i, stack, hand>>
      <4>1. ~UNCHANGED vars
        BY <3>2 DEF vars
      <4> QED
        BY <2>1, <3>2, <4>1, LengthsStep
    <3> QED
      BY <3>1, <3>2
  <2> QED
    BY <2>2 DEF DepthWithinInput
<1> QED
  BY <1>1, <1>2, AlwaysStarted, PTL DEF Spec

\* No step is free: an input of n bytes is done with after at most 3 * n + 1
\* steps, whatever lengths it claims.
THEOREM WorkIsBounded == Spec => WorkBounded
<1>1. Started /\ Fresh /\ [Next]_vars => [Left' < Left]_vars
  <2> SUFFICES ASSUME Started, Fresh, [Next]_vars, ~UNCHANGED vars PROVE Left' < Left
    OBVIOUS
  <2> DEFINE Held(h) == IF h = Nothing THEN 0 ELSE 1
  <2>1. /\ ~Ended => Left = 3 * (Len(rest) - i) + 2 * Len(stack) + Held(hand) + 1
        /\ ~Ended' => Left' = 3 * (Len(rest') - i') + 2 * Len(stack') + Held(hand') + 1
        /\ Ended' => Left' = 3 * (Len(rest') - i') + 2 * Len(stack') + Held(hand') + 0
    BY DEF Left
  <2>2. Len(stack) \in Nat /\ Len(rest) \in Nat /\ i \in 0..Len(rest)
    BY LengthsStep
  <2>3. \/ ~Ended /\ Ended' /\ UNCHANGED <<rest, i, stack, hand>>
        \/ /\ ~Ended /\ ~Ended' /\ UNCHANGED <<i, stack, hand>>
           /\ Len(rest') < Len(rest) /\ Len(rest') \in Nat
        \/ /\ ~Ended /\ ~Ended' /\ rest' = rest /\ i' \in (i + 1)..Len(rest)
           /\ \/ hand = Nothing /\ hand' # Nothing /\ Len(stack') = Len(stack)
              \/ hand = Nothing /\ hand' = Nothing /\ Len(stack') = Len(stack) + 1
        \/ /\ ~Ended /\ ~Ended' /\ rest' = rest /\ i' = i
           /\ \/ hand # Nothing /\ hand' = Nothing /\ Len(stack') = Len(stack)
              \/ hand = Nothing /\ hand' # Nothing /\ Len(stack') = Len(stack) - 1
    BY LengthsStep
  <2>4. /\ Held(hand) \in {0, 1} /\ (hand = Nothing => Held(hand) = 0) /\ (hand # Nothing => Held(hand) = 1)
        /\ (hand' = Nothing => Held(hand') = 0) /\ (hand' # Nothing => Held(hand') = 1)
    OBVIOUS
  <2> HIDE DEF Held
  <2>5. CASE ~Ended /\ Ended' /\ UNCHANGED <<rest, i, stack, hand>>
    <3> DEFINE Rest == 3 * (Len(rest) - i) + 2 * Len(stack) + Held(hand)
    <3>1. Rest \in Int
      BY <2>2, <2>4
    <3>2. Left = Rest + 1 /\ Left' = Rest + 0
      BY <2>1, <2>4, <2>5
    <3> QED
      BY <3>1, <3>2
  <2>6. CASE /\ ~Ended /\ ~Ended' /\ UNCHANGED <<i, stack, hand>>
             /\ Len(rest') < Len(rest) /\ Len(rest') \in Nat
    BY <2>1, <2>2, <2>4, <2>6
  <2>7. CASE /\ ~Ended /\ ~Ended' /\ rest' = rest /\ i' \in (i + 1)..Len(rest)
             /\ \/ hand = Nothing /\ hand' # Nothing /\ Len(stack') = Len(stack)
                \/ hand = Nothing /\ hand' = Nothing /\ Len(stack') = Len(stack) + 1
    <3> DEFINE before == 3 * (Len(rest) - i)
               after  == 3 * (Len(rest) - i')
               calls  == 2 * Len(stack)
    <3>1. before \in Int /\ after \in Int /\ calls \in Int /\ after <= before - 3
      <4>1. i \in Int /\ i' \in Int /\ i' >= i + 1
        BY <2>2, <2>7
      <4> QED
        BY <2>2, <4>1
    <3>2. CASE hand = Nothing /\ hand' # Nothing /\ Len(stack') = Len(stack)
      <4>1. Left = before + calls + 0 + 1 /\ Left' = after + calls + 1 + 1
        BY <2>1, <2>4, <2>7, <3>2
      <4> HIDE DEF before, after, calls
      <4> QED
        BY <3>1, <4>1
    <3>3. CASE hand = Nothing /\ hand' = Nothing /\ Len(stack') = Len(stack) + 1
      <4>1. Left = before + calls + 0 + 1 /\ Left' = after + 2 * (Len(stack) + 1) + 0 + 1
        BY <2>1, <2>4, <2>7, <3>3
      <4>2. 2 * (Len(stack) + 1) = calls + 2
        BY <2>2
      <4> HIDE DEF before, after, calls
      <4> QED
        BY <3>1, <4>1, <4>2
    <3> QED
      BY <2>7, <3>2, <3>3
  <2>8. CASE /\ ~Ended /\ ~Ended' /\ rest' = rest /\ i' = i
             /\ \/ hand # Nothing /\ hand' = Nothing /\ Len(stack') = Len(stack)
                \/ hand = Nothing /\ hand' # Nothing /\ Len(stack') = Len(stack) - 1
    BY <2>1, <2>2, <2>4, <2>8
  <2> QED
    BY <2>3, <2>5, <2>6, <2>7, <2>8
<1> QED
  BY <1>1, AlwaysStarted, PTL DEF Spec, WorkBounded

-----------------------------------------------------------------------------
(* What is read.                                                           *)

\* A Go map has one value under a key.
Functional(m) == \A p, q \in m : p[1] = q[1] => p = q
MapsAreFunctions ==
  /\ \A d \in 1..Len(stack) : stack[d].kind = "map" => Functional(stack[d].items)
  /\ hand # Nothing /\ hand[1] = "map" => Functional(hand[2])

\* Writing under a key leaves one value under every key.
LEMMA PutFunctional ==
  ASSUME NEW m, NEW k, NEW v, Functional(m)
  PROVE  Functional(Put(m, k, v))
<1>1. \A p \in Put(m, k, v) : p = <<k, v>> \/ (p \in m /\ p[1] # k)
  BY DEF Put
<1>2. <<k, v>>[1] = k
  OBVIOUS
<1> QED
  BY <1>1, <1>2 DEF Functional

\* Decoded maps have one value under a key, in whatever order and how often the
\* input gives it.
LEMMA MapsFunctional == Spec => []MapsAreFunctions
<1>1. Init => MapsAreFunctions
  BY EmptySeq DEF Init, MapsAreFunctions, Nothing
<1>2. Started /\ Fresh /\ MapsAreFunctions /\ [Next]_vars => MapsAreFunctions'
  <2> SUFFICES ASSUME Started, Fresh, MapsAreFunctions, [Next]_vars PROVE MapsAreFunctions'
    OBVIOUS
  <2>1. /\ IsStack(stack) /\ Len(stack) \in Nat
        /\ stack # <<>> => Len(stack) \in 1..Len(stack)
    BY StackTyped, EmptySeq DEF Started, IsStack
  <2>2. \A d \in 1..Len(stack) : stack[d].kind = "map" => Functional(stack[d].items)
    BY DEF MapsAreFunctions
  <2>3. CASE UNCHANGED <<stack, hand>>
    BY <2>3 DEF MapsAreFunctions
  <2>4. CASE ReadItem /\ ReadYields
    BY <2>4 DEF ReadYields, MapsAreFunctions
  <2>5. CASE ReadItem /\ ReadWaits
    <3>1. \A n \in Nat : /\ IsFrame(ArrayFrame(n)) /\ ArrayFrame(n).kind = "array"
                         /\ IsFrame(MapFrame(n)) /\ MapFrame(n).items = {}
      BY DEF IsFrame, ArrayFrame, MapFrame
    <3>2. PICK f : stack' = Append(stack, f) /\ IsFrame(f) /\ (f.kind = "array" \/ f.items = {})
      BY <2>5, <3>1 DEF ReadWaits
    <3>3. f.kind = "map" => Functional(f.items)
      BY <3>2 DEF Functional
    <3>4. /\ Len(stack') = Len(stack) + 1 /\ stack'[Len(stack) + 1] = f
          /\ \A d \in 1..Len(stack) : stack'[d] = stack[d]
      BY <2>1, <3>2, PushedStack
    <3>5. \A d \in 1..Len(stack') : stack'[d].kind = "map" => Functional(stack'[d].items)
      <4> TAKE d \in 1..Len(stack')
      <4>1. d \in 1..Len(stack) \/ d = Len(stack) + 1
        BY <2>1, <3>4
      <4> QED
        BY <2>2, <3>3, <3>4, <4>1
    <3>6. hand' = Nothing
      BY <2>5 DEF ReadItem, ReadWaits
    <3> QED
      BY <3>5, <3>6 DEF MapsAreFunctions
  <2>6. CASE StoreStep
    <3>1. stack # <<>> /\ hand' = Nothing
      BY <2>6 DEF StoreStep
    <3>2. PICK f : /\ stack' = WithTop(stack, f) /\ IsFrame(f) /\ f.kind = Top.kind
                   /\ f.kind = "map" => f.items = Top.items \/ f.items = Put(Top.items, Top.key, hand)
      BY <2>6 DEF StoreStep
    <3>3. f.kind = "map" => Functional(f.items)
      <4>1. Top.kind = "map" => Functional(Top.items)
        BY <2>1, <2>2, <3>1 DEF Top
      <4> QED
        BY <3>2, <4>1, PutFunctional
    <3>4. /\ Len(stack') = Len(stack)
          /\ \A d \in 1..Len(stack) : stack'[d] = IF d = Len(stack) THEN f ELSE stack[d]
      BY <2>1, <3>1, <3>2, ChangedStack
    <3>5. \A d \in 1..Len(stack') : stack'[d].kind = "map" => Functional(stack'[d].items)
      BY <2>2, <3>3, <3>4
    <3> QED
      BY <3>1, <3>5 DEF MapsAreFunctions
  <2>7. CASE CloseStep
    <3>1. /\ stack # <<>> /\ hand' = <<Top.kind, Top.items>>
          /\ stack' = SubSeq(stack, 1, Len(stack) - 1)
      BY <2>7 DEF CloseStep
    <3>2. /\ Len(stack') = Len(stack) - 1
          /\ \A d \in 1..Len(stack') : stack'[d] = stack[d]
      BY <2>1, <3>1, PoppedStack
    <3>3. \A d \in 1..Len(stack') : stack'[d].kind = "map" => Functional(stack'[d].items)
      BY <2>1, <2>2, <3>2
    <3>4. hand'[1] = "map" => Functional(hand'[2])
      BY <2>1, <2>2, <3>1 DEF Top
    <3> QED
      BY <3>3, <3>4 DEF MapsAreFunctions
  <2> QED
    BY <2>3, <2>4, <2>5, <2>6, <2>7, StepEffect, ParseEffect
    DEF Started, ReadEnds, End, ReturnItem, vars
<1> QED
  BY <1>1, <1>2, AlwaysStarted, PTL DEF Spec

\* Items and entries are pairs of two things.
Pair(v)   == v = <<v[1], v[2]>>
Paired(m) == \A p \in m : Pair(p) /\ Pair(p[1]) /\ Pair(p[2])
AllPaired ==
  /\ \A d \in 1..Len(stack) : /\ stack[d].key # Nothing => Pair(stack[d].key)
                              /\ stack[d].kind = "map" => Paired(stack[d].items)
  /\ hand # Nothing => Pair(hand) /\ (hand[1] = "map" => Paired(hand[2]))

\* An entry of two items keeps a map one of pairs.
LEMMA PutPaired ==
  ASSUME NEW m, Paired(m), NEW k, Pair(k), NEW v, Pair(v)
  PROVE  Paired(Put(m, k, v))
<1>1. \A p \in Put(m, k, v) : p = <<k, v>> \/ p \in m
  BY DEF Put
<1>2. <<k, v>>[1] = k /\ <<k, v>>[2] = v
  OBVIOUS
<1>3. Pair(<<k, v>>)
  BY <1>2 DEF Pair
<1> QED
  BY <1>1, <1>2, <1>3 DEF Paired

\* Every step keeps the maps made of pairs, in hand and on the stack.
LEMMA AllPairedKept ==
  ASSUME Started, Fresh, AllPaired, [Next]_vars
  PROVE  AllPaired'
<1>1. /\ IsStack(stack) /\ Len(stack) \in Nat
      /\ stack # <<>> => Len(stack) \in 1..Len(stack)
  BY StackTyped, EmptySeq DEF Started, IsStack
<1> DEFINE Good(f) == /\ f.key # Nothing => Pair(f.key)
                      /\ f.kind = "map" => Paired(f.items)
<1>2. \A d \in 1..Len(stack) : Good(stack[d])
  BY DEF AllPaired
<1>3. CASE UNCHANGED <<stack, hand>>
  BY <1>3 DEF AllPaired
<1>4. CASE ReadItem /\ ReadYields
  <2>1. PICK k \in {"int", "bytes", "text", "simple"}, v \in {hand'[2]} : hand' = <<k, v>>
    BY <1>4 DEF ReadYields
  <2>2. Pair(hand') /\ hand'[1] # "map"
    BY <2>1 DEF Pair
  <2> QED
    BY <1>4, <2>2 DEF ReadYields, AllPaired
<1>5. CASE ReadItem /\ ReadWaits
  <2>1. \A n \in Nat : /\ IsFrame(ArrayFrame(n))
                       /\ ArrayFrame(n).kind = "array" /\ ArrayFrame(n).key = Nothing
                       /\ IsFrame(MapFrame(n)) /\ MapFrame(n).items = {} /\ MapFrame(n).key = Nothing
    BY DEF IsFrame, ArrayFrame, MapFrame
  <2>2. PICK f : /\ stack' = Append(stack, f) /\ IsFrame(f) /\ f.key = Nothing
                 /\ f.kind = "array" \/ f.items = {}
    BY <1>5, <2>1 DEF ReadWaits
  <2>3. Good(f)
    BY <2>2 DEF Paired
  <2>4. /\ Len(stack') = Len(stack) + 1 /\ stack'[Len(stack) + 1] = f
        /\ \A d \in 1..Len(stack) : stack'[d] = stack[d]
    BY <1>1, <2>2, PushedStack
  <2>5. \A d \in 1..Len(stack') : Good(stack'[d])
    <3> TAKE d \in 1..Len(stack')
    <3>1. d \in 1..Len(stack) \/ d = Len(stack) + 1
      BY <1>1, <2>4
    <3> QED
      BY <1>2, <2>3, <2>4, <3>1
  <2>6. hand' = Nothing
    BY <1>5 DEF ReadItem, ReadWaits
  <2> QED
    BY <2>5, <2>6 DEF AllPaired
<1>6. CASE StoreStep
  <2>1. stack # <<>> /\ hand # Nothing /\ hand' = Nothing
    BY <1>6 DEF StoreStep
  <2>2. PICK f : /\ stack' = WithTop(stack, f) /\ IsFrame(f) /\ f.kind = Top.kind
                 /\ f.kind = "map" => \/ f.items = Top.items
                                      \/ Top.key # Nothing /\ f.items = Put(Top.items, Top.key, hand)
                 /\ f.key \in {Nothing, Top.key, hand}
    BY <1>6 DEF StoreStep
  <2>3. Good(Top) /\ Pair(hand)
    BY <1>1, <1>2, <2>1 DEF Top, AllPaired
  <2>4. Good(f)
    <3>1. f.kind = "map" => Paired(f.items)
      BY <2>2, <2>3, PutPaired
    <3>2. f.key # Nothing => Pair(f.key)
      BY <2>2, <2>3
    <3> QED
      BY <3>1, <3>2
  <2>5. /\ Len(stack') = Len(stack)
        /\ \A d \in 1..Len(stack) : stack'[d] = IF d = Len(stack) THEN f ELSE stack[d]
    BY <1>1, <2>1, <2>2, ChangedStack
  <2>6. \A d \in 1..Len(stack') : Good(stack'[d])
    BY <1>2, <2>4, <2>5
  <2> QED
    BY <2>1, <2>6 DEF AllPaired
<1>7. CASE CloseStep
  <2>1. /\ stack # <<>> /\ hand' = <<Top.kind, Top.items>>
        /\ stack' = SubSeq(stack, 1, Len(stack) - 1)
    BY <1>7 DEF CloseStep
  <2>2. /\ Len(stack') = Len(stack) - 1
        /\ \A d \in 1..Len(stack') : stack'[d] = stack[d]
    BY <1>1, <2>1, PoppedStack
  <2>3. \A d \in 1..Len(stack') : Good(stack'[d])
    BY <1>1, <1>2, <2>2
  <2>4. Good(Top)
    BY <1>1, <1>2, <2>1 DEF Top
  <2>5. Pair(hand') /\ (hand'[1] = "map" => Paired(hand'[2]))
    BY <2>1, <2>4 DEF Pair
  <2> QED
    BY <2>3, <2>5 DEF AllPaired
<1> QED
  BY <1>3, <1>4, <1>5, <1>6, <1>7, StepEffect, ParseEffect
  DEF Started, ReadEnds, End, ReturnItem, vars

\* In a map with one value under a key it does not matter which pair is chosen.
LEMMA GetIs ==
  ASSUME NEW m, Functional(m), NEW k, NEW p \in m, p[1] = Label(k)
  PROVE  Get(m, k) = p[2][2]
<1> DEFINE q == CHOOSE r \in m : r[1] = Label(k)
<1>1. q \in m /\ q[1] = Label(k)
  OBVIOUS
<1>2. q = p
  BY <1>1 DEF Functional
<1> QED
  BY <1>2 DEF Get

\* Asking a map for a label is looking for the pair.
LEMMA SaysByPair ==
  ASSUME NEW m, Functional(m), Paired(m), NEW k, NEW n
  PROVE  Says(m, k, n) <=> <<Label(k), <<"int", n>>>> \in m
<1>1. ASSUME Says(m, k, n) PROVE <<Label(k), <<"int", n>>>> \in m
  <2>1. PICK p \in m : p[1] = Label(k) /\ p[2][1] = "int"
    BY <1>1 DEF Says, Holds
  <2>2. p[2][2] = n
    BY <1>1, <2>1, GetIs DEF Says
  <2>3. p = <<p[1], p[2]>> /\ p[2] = <<p[2][1], p[2][2]>>
    BY DEF Paired, Pair
  <2>4. p = <<Label(k), <<"int", n>>>>
    BY <2>1, <2>2, <2>3
  <2> QED
    BY <2>4
<1>2. ASSUME <<Label(k), <<"int", n>>>> \in m PROVE Says(m, k, n)
  <2> DEFINE p == <<Label(k), <<"int", n>>>>
  <2>1. p \in m /\ p[1] = Label(k) /\ p[2][1] = "int" /\ p[2][2] = n
    BY <1>2
  <2> HIDE DEF p
  <2>2. Get(m, k) = n
    BY <2>1, GetIs
  <2> QED
    BY <2>1, <2>2 DEF Says, Holds
<1> QED
  BY <1>1, <1>2

\* The five questions of parseCOSEKey are five pairs.
LEMMA KeyIsPairs ==
  ASSUME NEW v, v[1] = "map" => Functional(v[2]) /\ Paired(v[2])
  PROVE  IsKey(v) <=> ES256(v)
<1>1. CASE v[1] # "map"
  BY <1>1 DEF IsKey, ES256
<1>2. CASE v[1] = "map"
  <2> DEFINE m == v[2]
  <2>1. Functional(m) /\ Paired(m)
    BY <1>2
  <2>2. /\ Says(m, 1, 2) <=> <<Label(1), <<"int", 2>>>> \in m
        /\ Says(m, 3, -7) <=> <<Label(3), <<"int", -7>>>> \in m
        /\ Says(m, -1, 1) <=> <<Label(-1), <<"int", 1>>>> \in m
    BY <2>1, SaysByPair
  <2> DEFINE Point5 == Holds(m, -2, "bytes") /\ Holds(m, -3, "bytes") /\ Point(m) \in Curve
             Pairs5 == \E x, y \in m : /\ x[1] = Label(-2) /\ x[2][1] = "bytes"
                                       /\ y[1] = Label(-3) /\ y[2][1] = "bytes"
                                       /\ <<BigEndian(x[2][2]), BigEndian(y[2][2])>> \in Curve
  <2>3. \A x, y \in m : x[1] = Label(-2) /\ y[1] = Label(-3)
          => Point(m) = <<BigEndian(x[2][2]), BigEndian(y[2][2])>>
    BY <2>1, GetIs DEF Point
  <2>4. Point5 <=> Pairs5
    BY <2>3 DEF Holds
  <2>5. IsKey(v) <=> Says(m, 1, 2) /\ Says(m, 3, -7) /\ Says(m, -1, 1) /\ Point5
    BY <1>2 DEF IsKey
  <2>6. ES256(v) <=> /\ <<Label(1), <<"int", 2>>>> \in m
                     /\ <<Label(3), <<"int", -7>>>> \in m
                     /\ <<Label(-1), <<"int", 1>>>> \in m
                     /\ Pairs5
    BY <1>2 DEF ES256
  <2> QED
    BY <2>2, <2>4, <2>5, <2>6
<1> QED
  BY <1>1, <1>2

\* A decoded item is taken for a key exactly if it is a map with the five pairs
\* of an ES256 key.
THEOREM KeyIsItsPairs == Spec => []KeyByPairs
<1>1. Init => AllPaired /\ KeyByPairs
  BY EmptySeq DEF Init, AllPaired, KeyByPairs, Nothing
<1>2. Started /\ Fresh /\ AllPaired /\ [Next]_vars => AllPaired'
  BY AllPairedKept
<1>3. Started /\ Fresh /\ AllPaired /\ MapsAreFunctions /\ KeyByPairs /\ [Next]_vars => KeyByPairs'
  <2> SUFFICES ASSUME Started, Fresh, AllPaired, MapsAreFunctions, KeyByPairs, [Next]_vars
               PROVE  KeyByPairs'
    OBVIOUS
  <2>1. CASE UNCHANGED vars
    BY <2>1 DEF vars, KeyByPairs, ES256
  <2>2. CASE ParseFixed
    <3>1. hand' = Nothing
      BY <2>2, ParseEffect DEF Started, Fresh
    <3> QED
      BY <3>1 DEF KeyByPairs
  <2>3. CASE ReadItem /\ (ReadEnds \/ ReadYields \/ ReadWaits)
    <3>1. hand' = Nothing \/ pc' = "item"
      BY <2>3 DEF ReadItem, ReadEnds, ReadYields, ReadWaits
    <3> QED
      BY <3>1 DEF KeyByPairs
  <2>4. CASE StoreStep \/ CloseStep \/ End("panic")
    <3>1. pc' \in {"item", "panic"}
      BY <2>4 DEF StoreStep, CloseStep, End
    <3> QED
      BY <3>1 DEF KeyByPairs
  <2>5. CASE ReturnItem
    <3>1. /\ hand # Nothing /\ UNCHANGED <<reader, stack, hand>>
          /\ pc' = IF reader = "item" \/ IsKey(hand) THEN "value" ELSE "refused"
      BY <2>5 DEF ReturnItem, End
    <3>2. hand[1] = "map" => Functional(hand[2]) /\ Paired(hand[2])
      BY <3>1 DEF AllPaired, MapsAreFunctions
    <3>3. IsKey(hand) <=> ES256(hand)
      BY <3>2, KeyIsPairs
    <3>4. ES256(hand)' <=> ES256(hand)
      BY <3>1 DEF ES256
    <3> QED
      BY <3>1, <3>3, <3>4 DEF KeyByPairs
  <2> QED
    BY <2>1, <2>2, <2>3, <2>4, <2>5, StepEffect
<1> QED
  BY <1>1, <1>2, <1>3, AlwaysStarted, MapsFunctional, PTL DEF Spec

\* Where ParseAuthenticatorData has got to, by what the input has.
WhereData ==
  reader = "data" /\ pc # "start" =>
    IF LongEnough(blob)
      THEN IF AttestedData(blob)
             THEN rest = KeyPart(blob) /\ (pc = "value" => IsKey(hand))
             ELSE pc = "value" /\ hand = Nothing
      ELSE pc = "short"

\* Where the decoder stands on authenticator data, in every state.
LEMMA AlwaysWhereData == Spec => []WhereData
<1>1. Init => WhereData
  BY DEF Init, WhereData
<1>2. Started /\ Fresh /\ WhereData /\ [Next]_vars => WhereData'
  <2> SUFFICES ASSUME Started, Fresh, WhereData, [Next]_vars PROVE WhereData'
    OBVIOUS
  <2>1. CASE ParseFixed
    <3>1. hand = Nothing /\ UNCHANGED <<blob, hand>>
      BY <2>1, ParseEffect DEF Started, Fresh
    <3> QED
      BY <2>1, <3>1, ParseEffect DEF Started, WhereData
  <2>2. CASE pc = "item" /\ UNCHANGED <<reader, blob, rest>> /\ pc' # "value"
    BY <2>2 DEF WhereData
  <2>3. CASE ReturnItem
    BY <2>3 DEF ReturnItem, End, WhereData
  <2>4. CASE UNCHANGED vars
    BY <2>4 DEF vars, WhereData
  <2>5. ReadItem /\ (ReadEnds \/ ReadYields \/ ReadWaits) => pc = "item" /\ pc' # "value"
    BY DEF ReadItem, ReadEnds, ReadYields, ReadWaits
  <2>6. StoreStep \/ CloseStep => pc = "item" /\ UNCHANGED <<reader, blob, rest>> /\ pc' # "value"
    BY DEF StoreStep, CloseStep
  <2>7. End("panic") => UNCHANGED <<reader, blob, rest>> /\ pc' # "value"
    BY DEF End
  <2> QED
    BY <2>1, <2>2, <2>3, <2>4, <2>5, <2>6, <2>7, StepEffect
<1> QED
  BY <1>1, <1>2, AlwaysStarted, PTL DEF Spec

\* Accepted authenticator data is the fixed part, the credential id and the
\* bytes of the key, with nothing between them and nothing twice.
THEOREM DataIsLaidOut == Spec => []DataLaidOut
<1>1. TypeOK /\ WhereData => DataLaidOut
  <2> SUFFICES ASSUME TypeOK, WhereData, reader = "data", pc = "value"
               PROVE  /\ Len(blob) >= Fixed
                      /\ IF AttestedData(blob)
                           THEN /\ Len(CredentialId(blob)) = IdLength(blob)
                                /\ blob = SubSeq(blob, 1, Attested) \o CredentialId(blob) \o rest
                                /\ IsKey(hand)
                           ELSE hand = Nothing
    BY DEF DataLaidOut
  <2>1. LongEnough(blob) /\ Len(blob) >= Fixed
    BY DEF WhereData, LongEnough
  <2>2. CASE ~AttestedData(blob)
    BY <2>1, <2>2 DEF WhereData
  <2>3. CASE AttestedData(blob)
    <3> DEFINE n == Attested + IdLength(blob)
    <3>1. rest = KeyPart(blob) /\ IsKey(hand)
      BY <2>1, <2>3 DEF WhereData
    <3>2. blob \in Seq(Byte) /\ Len(blob) \in Nat
      BY RestTyped
    <3>3. IdLength(blob) \in Nat /\ Attested \in Nat \ {0} /\ n \in 0..Len(blob)
      BY <2>1, <2>3, RestTyped, KeyPartFacts
    <3>4. Attested \in 0..Len(blob) /\ n \in Attested..Len(blob)
      BY <3>2, <3>3
    <3>5. Len(CredentialId(blob)) = IdLength(blob)
      <4>1. Len(SubSeq(blob, Attested + 1, n)) = n - Attested
        BY <3>2, <3>4, CutFacts
      <4> QED
        BY <3>3, <4>1 DEF CredentialId
    <3>6. blob = SubSeq(blob, 1, Attested) \o CredentialId(blob) \o rest
      <4>1. SubSeq(blob, 1, Attested) \o SubSeq(blob, Attested + 1, n) = SubSeq(blob, 1, n)
        <5>1. 1 \in 1..(Len(blob) + 1) /\ Attested \in (1 - 1)..Len(blob) /\ n \in Attested..Len(blob)
          BY <3>2, <3>4
        <5> QED
          BY <3>2, <5>1, ConcatAdjacentSubSeq
      <4>2. SubSeq(blob, 1, n) \o SubSeq(blob, n + 1, Len(blob)) = SubSeq(blob, 1, Len(blob))
        <5>1. 1 \in 1..(Len(blob) + 1) /\ n \in (1 - 1)..Len(blob) /\ Len(blob) \in n..Len(blob)
          BY <3>2, <3>3
        <5> HIDE DEF n
        <5> QED
          BY <3>2, <5>1, ConcatAdjacentSubSeq
      <4>3. SubSeq(blob, 1, Len(blob)) = blob
        BY <3>2, SubSeqFull
      <4> QED
        BY <3>1, <4>1, <4>2, <4>3 DEF CredentialId, KeyPart
    <3> QED
      BY <2>1, <2>3, <3>1, <3>5, <3>6
  <2> QED
    BY <2>2, <2>3
<1> QED
  BY <1>1, AlwaysWhereData, CborTypes, PTL

-----------------------------------------------------------------------------
(* The same input with More behind it.                                     *)

\* An input with More behind it.
LEMMA MoreTyped ==
  ASSUME NEW b \in Seq(Byte)
  PROVE  /\ More \in Seq(Byte) /\ Len(More) \in Nat /\ Len(b) \in Nat
         /\ b \o More \in Seq(Byte) /\ Len(b \o More) = Len(b) + Len(More)
         /\ \A k \in 1..Len(b) : (b \o More)[k] = b[k]
         /\ \A k \in 1..Len(More) : (b \o More)[Len(b) + k] = More[k]
<1>1. More \in Seq(Byte) /\ Len(More) \in Nat /\ Len(b) \in Nat
  BY MoreAssumption
<1>2. /\ b \o More \in Seq(Byte) /\ Len(b \o More) = Len(b) + Len(More)
      /\ \A k \in 1..(Len(b) + Len(More)) :
           (b \o More)[k] = IF k <= Len(b) THEN b[k] ELSE More[k - Len(b)]
  BY <1>1, ConcatProperties
<1>3. \A k \in 1..Len(b) : k \in 1..(Len(b) + Len(More)) /\ k <= Len(b)
  BY <1>1
<1>4. \A k \in 1..Len(More) : /\ Len(b) + k \in 1..(Len(b) + Len(More)) /\ ~(Len(b) + k <= Len(b))
                              /\ (Len(b) + k) - Len(b) = k
  BY <1>1
<1> QED
  BY <1>1, <1>2, <1>3, <1>4

\* A cut within the shorter input is the same cut.
LEMMA SameCut ==
  ASSUME NEW b \in Seq(Byte), NEW lo \in 0..Len(b), NEW hi \in lo..Len(b)
  PROVE  SubSeq(b \o More, lo + 1, hi) = SubSeq(b, lo + 1, hi)
<1>1. /\ More \in Seq(Byte) /\ Len(b) \in Nat /\ lo \in Nat /\ hi \in Nat /\ lo <= hi /\ hi <= Len(b)
  BY MoreTyped
<1>2. CASE lo = hi
  BY <1>1, <1>2, SubSeqEmpty
<1>3. CASE lo < hi
  <2>1. lo + 1 \in 1..Len(b) /\ hi \in 1..Len(b)
    BY <1>1, <1>3
  <2> QED
    BY <1>1, <2>1, SubSeqOfConcat1
<1> QED
  BY <1>1, <1>2, <1>3

\* What is taken is the same unless the shorter input has too little of it.
LEMMA SameTake ==
  ASSUME NEW b \in Seq(Byte), NEW j \in 0..Len(b), NEW n \in Int, Take(b, j, n).out # "short"
  PROVE  Take(b \o More, j, n) = Take(b, j, n)
<1> DEFINE hi == Signed(j + n)
<1>1. /\ Len(b) \in Nat /\ Len(More) \in Nat /\ Len(b \o More) = Len(b) + Len(More) /\ hi \in Int
  BY MoreTyped, SignedInt
<1>2. CASE n < 0
  BY <1>2 DEF Take
<1>3. CASE n >= 0
  <2>1. hi <= Len(b)
    BY <1>1, <1>3 DEF Take, Stop
  <2>2. hi <= Len(b \o More)
    BY <1>1, <2>1
  <2>3. Take(b, j, n) = Slice(b, j, hi) /\ Take(b \o More, j, n) = Slice(b \o More, j, hi)
    BY <1>1, <1>3, <2>1, <2>2 DEF Take
  <2>4. CASE j <= hi
    <3>1. hi \in j..Len(b)
      BY <1>1, <2>1, <2>4
    <3>2. SubSeq(b \o More, j + 1, hi) = SubSeq(b, j + 1, hi)
      BY <3>1, SameCut
    <3> QED
      BY <2>1, <2>2, <2>3, <2>4, <3>2 DEF Slice
  <2>5. CASE ~(j <= hi)
    BY <2>3, <2>5 DEF Slice
  <2> QED
    BY <2>4, <2>5
<1> QED
  BY <1>2, <1>3

\* A head is the same unless it is cut off.
LEMMA SameHead ==
  ASSUME NEW b \in Seq(Byte), NEW j \in 0..Len(b), HeadAt(b, j).out # "short"
  PROVE  HeadAt(b \o More, j) = HeadAt(b, j)
<1> DEFINE c     == b[j + 1]
           info  == c % Infos
           after == Take(b, j + 1, Width[info])
<1>1. Len(b) \in Nat /\ Len(More) \in Nat /\ Len(b \o More) = Len(b) + Len(More)
  BY MoreTyped
<1>2. j < Len(b)
  BY <1>1 DEF HeadAt, Stop
<1>3. /\ j + 1 \in 0..Len(b) /\ j + 1 \in 1..Len(b)
      /\ ~(j >= Len(b)) /\ ~(j >= Len(b \o More))
  BY <1>1, <1>2
<1>4. (b \o More)[j + 1] = c
  BY <1>3, MoreTyped
<1>5. CASE info \in Direct
  BY <1>3, <1>4, <1>5, FormatAssumption DEF HeadAt
<1>6. CASE info \notin Direct /\ info \in DOMAIN Width
  <2> DEFINE read(r) == IF Accepted(r) THEN HeadOf(c, BigEndian(r.v), r.i) ELSE r
  <2>1. HeadAt(b, j) = read(after)
    BY <1>3, <1>6, FormatAssumption DEF HeadAt
  <2>2. HeadAt(b \o More, j) = read(Take(b \o More, j + 1, Width[info]))
    BY <1>3, <1>4, <1>6, FormatAssumption DEF HeadAt
  <2>3. after.out # "short"
    BY <2>1 DEF Accepted
  <2>4. Width[info] \in Int
    BY <1>6, FormatAssumption
  <2>5. Take(b \o More, j + 1, Width[info]) = after
    BY <1>3, <2>3, <2>4, SameTake
  <2> QED
    BY <2>1, <2>2, <2>5
<1>7. CASE info \notin Direct /\ info \notin DOMAIN Width
  BY <1>3, <1>4, <1>7 DEF HeadAt
<1> QED
  BY <1>5, <1>6, <1>7

\* Data that is long enough says the same of what it has, and has a key with
\* More behind it.
LEMMA SameData ==
  ASSUME NEW r \in Readers, NEW b \in Blobs[r], LongEnough(b)
  PROVE  /\ LongEnough(b \o More) /\ AttestedData(b \o More) = AttestedData(b)
         /\ AttestedData(b) => KeyPart(b \o More) = KeyPart(b) \o More
<1>1. b \in Seq(Byte)
  BY SizeAssumption
<1>2. /\ More \in Seq(Byte) /\ Len(More) \in Nat /\ Len(b) \in Nat
      /\ b \o More \in Seq(Byte) /\ Len(b \o More) = Len(b) + Len(More)
      /\ \A k \in 1..Len(b) : (b \o More)[k] = b[k]
      /\ \A k \in 1..Len(More) : (b \o More)[Len(b) + k] = More[k]
  BY <1>1, MoreTyped
<1>3. FlagsAt \in 1..Len(b)
  BY <1>2, FormatAssumption DEF LongEnough
<1>4. AttestedData(b \o More) = AttestedData(b)
  BY <1>2, <1>3 DEF AttestedData
<1>5. CASE ~AttestedData(b)
  BY <1>2, <1>4, <1>5, FormatAssumption DEF LongEnough
<1>6. CASE AttestedData(b)
  <2> DEFINE n == Attested + IdLength(b)
  <2>1. /\ IdLength(b) \in Nat /\ Attested \in Nat \ {0} /\ n \in 0..Len(b)
        /\ KeyPart(b) \in Seq(Byte) /\ Len(KeyPart(b)) = Len(b) - n
    BY <1>6, KeyPartFacts
  <2>2. IdLength(b \o More) = IdLength(b)
    <3>1. Attested - IdBytes \in 0..Len(b) /\ Attested \in (Attested - IdBytes)..Len(b)
      BY <1>2, <2>1, FormatAssumption
    <3> QED
      BY <1>1, <3>1, SameCut DEF IdLength
  <2>3. LongEnough(b \o More)
    BY <1>2, <1>4, <2>1, <2>2, FormatAssumption DEF LongEnough, HasId
  <2>4. KeyPart(b \o More) = KeyPart(b) \o More
    <3> DEFINE whole == b \o More
               key   == KeyPart(b)
    <3>1. Len(whole) \in n..Len(whole) /\ n \in 0..Len(whole) /\ Len(b) \in n..Len(b)
      BY <1>2, <2>1
    <3>2. KeyPart(whole) = SubSeq(whole, n + 1, Len(whole)) /\ key = SubSeq(b, n + 1, Len(b))
      BY <2>2 DEF KeyPart
    <3> HIDE DEF n, whole, key
    <3>3. /\ KeyPart(whole) \in Seq(Byte) /\ Len(KeyPart(whole)) = Len(whole) - n
          /\ \A k \in 1..(Len(whole) - n) : KeyPart(whole)[k] = whole[n + k]
      BY <1>2, <3>1, <3>2, CutFacts, CutElements DEF whole
    <3>4. \A k \in 1..(Len(b) - n) : key[k] = b[n + k]
      BY <1>1, <2>1, <3>1, <3>2, CutElements DEF key
    <3>5. /\ key \o More \in Seq(Byte) /\ Len(key \o More) = Len(key) + Len(More)
          /\ \A k \in 1..Len(key) : (key \o More)[k] = key[k]
          /\ \A k \in 1..Len(More) : (key \o More)[Len(key) + k] = More[k]
      BY <2>1, MoreTyped DEF key
    <3>6. n \in Nat /\ n <= Len(b) /\ Len(key) = Len(b) - n /\ Len(whole) = Len(b) + Len(More)
      BY <1>2, <2>1 DEF key, whole
    <3>7. Len(KeyPart(whole)) = Len(key \o More)
      BY <1>2, <3>3, <3>5, <3>6
    <3>8. ASSUME NEW k \in 1..Len(KeyPart(whole))
          PROVE  KeyPart(whole)[k] = (key \o More)[k]
      <4>1. KeyPart(whole)[k] = whole[n + k]
        BY <3>3, <3>8
      <4>2. CASE k <= Len(key)
        <5>1. k \in 1..Len(key) /\ k \in 1..(Len(b) - n) /\ n + k \in 1..Len(b)
          BY <1>2, <3>6, <4>2
        <5>2. whole[n + k] = b[n + k]
          BY <1>2, <5>1 DEF whole
        <5>3. (key \o More)[k] = key[k] /\ key[k] = b[n + k]
          BY <3>4, <3>5, <5>1
        <5> QED
          BY <4>1, <5>2, <5>3
      <4>3. CASE k > Len(key)
        <5>1. /\ k - Len(key) \in 1..Len(More)
              /\ Len(key) + (k - Len(key)) = k /\ Len(b) + (k - Len(key)) = n + k
          BY <1>2, <3>3, <3>6, <4>3
        <5>2. whole[Len(b) + (k - Len(key))] = More[k - Len(key)]
          BY <1>2, <5>1 DEF whole
        <5>3. (key \o More)[Len(key) + (k - Len(key))] = More[k - Len(key)]
          BY <3>5, <5>1
        <5> QED
          BY <4>1, <5>1, <5>2, <5>3
      <4>4. k \in Nat /\ Len(key) \in Nat
        BY <1>2, <3>3, <3>6
      <4>5. k <= Len(key) \/ k > Len(key)
        BY <4>4
      <4> QED
        BY <4>2, <4>3, <4>5
    <3>9. KeyPart(whole) = key \o More
      BY <3>3, <3>5, <3>7, <3>8, SeqEqual
    <3> QED
      BY <3>9 DEF whole, key
  <2> QED
    BY <1>4, <1>6, <2>3, <2>4
<1> QED
  BY <1>4, <1>5, <1>6

\* The operators of the longer run are the ones of this run.
LEMMA SameOperators ==
  /\ \A b, j : Longer!HeadAt(b, j) = HeadAt(b, j)
  /\ \A b, j, n : Longer!Take(b, j, n) = Take(b, j, n)
  /\ \A n : Longer!Signed(n) = Signed(n)
  /\ \A r : Longer!Accepted(r) = Accepted(r)
  /\ \A v : Longer!IsKey(v) = IsKey(v)
  /\ \A b : /\ Longer!LongEnough(b) = LongEnough(b) /\ Longer!AttestedData(b) = AttestedData(b)
            /\ Longer!KeyPart(b) = KeyPart(b)
  /\ Longer!Top = Top
  /\ Longer!Nothing = Nothing
<1>1. \A n : Longer!Signed(n) = Signed(n)
  BY DEF Longer!Signed, Signed
<1>2. \A b, lo, hi : Longer!Slice(b, lo, hi) = Slice(b, lo, hi)
  BY DEF Longer!Slice, Slice, Longer!Ok, Ok, Longer!Stop, Stop
<1>3. \A b, j, n : Longer!Take(b, j, n) = Take(b, j, n)
  BY <1>1, <1>2 DEF Longer!Take, Take, Longer!Stop, Stop
<1>4. \A r : Longer!Accepted(r) = Accepted(r)
  BY DEF Longer!Accepted, Accepted
<1>5. \A c, arg, j : Longer!HeadOf(c, arg, j) = HeadOf(c, arg, j)
  BY DEF Longer!HeadOf, HeadOf
<1>6. \A b, j : Longer!HeadAt(b, j) = HeadAt(b, j)
  BY <1>3, <1>4, <1>5 DEF Longer!HeadAt, HeadAt, Longer!Stop, Stop
<1>7. \A v : Longer!IsKey(v) = IsKey(v)
  BY DEF Longer!IsKey, IsKey, Longer!Says, Says, Longer!Holds, Holds, Longer!Get, Get,
         Longer!Label, Label, Longer!Point, Point
<1>8. \A b : /\ Longer!LongEnough(b) = LongEnough(b) /\ Longer!AttestedData(b) = AttestedData(b)
             /\ Longer!KeyPart(b) = KeyPart(b)
  BY DEF Longer!LongEnough, LongEnough, Longer!AttestedData, AttestedData, Longer!KeyPart, KeyPart,
         Longer!HasId, HasId, Longer!IdLength, IdLength
<1>9. Longer!Top = Top /\ Longer!Nothing = Nothing
  BY DEF Longer!Top, Top, Longer!Nothing, Nothing
<1> QED
  BY <1>1, <1>3, <1>4, <1>6, <1>7, <1>8, <1>9

\* What an action leaves alone is left alone in the longer run.
LEMMA SameEffects ==
  ASSUME pc = "item"
  PROVE  /\ \A how : how # "short" /\ End(how) => Longer!End(how)
         /\ \A v, j : Yield(v, j) => Longer!Yield(v, j)
         /\ \A f, j : Push(f, j) => Longer!Push(f, j)
         /\ Resume => Longer!Resume
         /\ \A f : SetTop(f) => Longer!SetTop(f)
         /\ End("short") /\ (reader = "data" => LongEnough(blob)) => UNCHANGED Longer!vars
<1>1. \A how : how # "short" /\ End(how) => Longer!End(how)
  BY DEF End, Longer!End
<1>2. \A v, j : Yield(v, j) => Longer!Yield(v, j)
  BY DEF Yield, Longer!Yield
<1>3. \A f, j : Push(f, j) => Longer!Push(f, j)
  BY DEF Push, Longer!Push
<1>4. Resume => Longer!Resume
  BY DEF Resume, Longer!Resume, Nothing, Longer!Nothing
<1>5. \A f : SetTop(f) => Longer!SetTop(f)
  BY DEF SetTop, Longer!SetTop
<1>6. End("short") /\ (reader = "data" => LongEnough(blob)) => UNCHANGED Longer!vars
  BY DEF End, Longer!vars
<1> QED
  BY <1>1, <1>2, <1>3, <1>4, <1>5, <1>6

\* A read of the shorter input is a read of the longer one, or has too little.
LEMMA SameRead ==
  ASSUME Started, reader = "data" => LongEnough(blob), ReadItem
  PROVE  Longer!ReadItem \/ UNCHANGED Longer!vars
<1> DEFINE h    == HeadAt(rest, i)
           more == rest \o More
<1>1. /\ rest \in Seq(Byte) /\ i \in 0..Len(rest) /\ Len(rest) \in Nat
      /\ pc = "item" /\ hand = Nothing /\ (stack # <<>> => Top.left # 0)
  BY RestTyped DEF Started, ReadItem
<1>2. \/ ~Accepted(h) /\ End(h.out)
      \/ /\ Accepted(h)
         /\ \/ ReadNumber(h) \/ ReadString(h) \/ OpenArray(h) \/ OpenMap(h)
            \/ ReadSimple(h) \/ Unsupported(h)
  BY DEF ReadItem
<1>3. CASE h.out = "short"
  BY <1>1, <1>2, <1>3, SameEffects DEF Accepted
<1>4. CASE h.out # "short"
  <2>1. Longer!HeadAt(more, i) = h /\ Longer!Accepted(h) = Accepted(h)
    BY <1>1, <1>4, SameHead, SameOperators
  <2>2. /\ Accepted(h) => h.arg \in Nat /\ h.i \in (i + 1)..Len(rest)
    BY RestTyped, HeadFacts DEF Started
  <2> HIDE DEF h
  <2>3. SUFFICES ASSUME ~UNCHANGED Longer!vars
                 PROVE  \/ ~Accepted(h) /\ Longer!End(h.out)
                        \/ /\ Accepted(h)
                           /\ \/ Longer!ReadNumber(h) \/ Longer!ReadString(h)
                              \/ Longer!OpenArray(h) \/ Longer!OpenMap(h)
                              \/ Longer!ReadSimple(h) \/ Longer!Unsupported(h)
    <3>1. Longer!ReadItem <=>
            /\ pc = "item" /\ hand = Nothing /\ (stack # <<>> => Top.left # 0)
            /\ \/ ~Accepted(h) /\ Longer!End(h.out)
               \/ /\ Accepted(h)
                  /\ \/ Longer!ReadNumber(h) \/ Longer!ReadString(h)
                     \/ Longer!OpenArray(h) \/ Longer!OpenMap(h)
                     \/ Longer!ReadSimple(h) \/ Longer!Unsupported(h)
      BY <1>1, <2>1, SameOperators DEF Longer!ReadItem
    <3> QED
      BY <1>1, <3>1
  <2>4. CASE ~Accepted(h) /\ End(h.out)
    BY <1>1, <1>4, <2>4, SameEffects
  <2>5. CASE Accepted(h) /\ ReadNumber(h)
    BY <1>1, <2>5, SameEffects, SameOperators DEF ReadNumber, Longer!ReadNumber
  <2>6. CASE Accepted(h) /\ ReadString(h)
    <3> DEFINE t == Take(rest, h.i, Signed(h.arg))
    <3>1. /\ h.major \in {2, 3}
          /\ \/ Accepted(t) /\ Yield(<<IF h.major = 2 THEN "bytes" ELSE "text", t.v>>, t.i)
             \/ ~Accepted(t) /\ End(t.out)
      BY <2>6 DEF ReadString
    <3>2. t.out # "short"
      BY <1>1, <2>3, <3>1, SameEffects DEF Accepted
    <3>3. Signed(h.arg) \in Int /\ h.i \in 0..Len(rest)
      <4>1. h.arg \in Int /\ h.i \in (i + 1)..Len(rest) /\ i \in Nat
        BY <1>1, <2>2, <2>6
      <4>2. h.i \in 0..Len(rest)
        BY <1>1, <4>1
      <4>3. Signed(h.arg) \in Int
        BY <4>1, SignedInt
      <4> QED
        BY <4>2, <4>3
    <3>4. Take(more, h.i, Signed(h.arg)) = t
      BY <1>1, <3>2, <3>3, SameTake
    <3>5. Longer!Take(more, h.i, Longer!Signed(h.arg)) = t /\ Longer!Accepted(t) = Accepted(t)
      BY <3>4, SameOperators
    <3>6. \/ Accepted(t) /\ Longer!Yield(<<IF h.major = 2 THEN "bytes" ELSE "text", t.v>>, t.i)
          \/ ~Accepted(t) /\ Longer!End(t.out)
      BY <1>1, <3>1, <3>2, SameEffects
    <3> HIDE DEF t
    <3>7. Longer!ReadString(h)
      BY <3>1, <3>5, <3>6 DEF Longer!ReadString
    <3> QED
      BY <2>6, <3>7
  <2>7. CASE Accepted(h) /\ OpenArray(h)
    BY <1>1, <2>7, SameEffects
    DEF OpenArray, Longer!OpenArray, Make, Longer!Make, ArrayFrame, Longer!ArrayFrame, Nothing, Longer!Nothing
  <2>8. CASE Accepted(h) /\ OpenMap(h)
    BY <1>1, <2>8, SameEffects
    DEF OpenMap, Longer!OpenMap, MakeMap, Longer!MakeMap, MapFrame, Longer!MapFrame, Nothing, Longer!Nothing
  <2>9. CASE Accepted(h) /\ ReadSimple(h)
    BY <1>1, <2>9, SameEffects DEF ReadSimple, Longer!ReadSimple
  <2>10. CASE Accepted(h) /\ Unsupported(h)
    BY <1>1, <2>10, SameEffects DEF Unsupported, Longer!Unsupported
  <2> QED
    BY <1>2, <2>4, <2>5, <2>6, <2>7, <2>8, <2>9, <2>10
<1> QED
  BY <1>3, <1>4

\* Every step on the input is a step on the longer one.
LEMMA SameStep ==
  ASSUME Started, Fresh, WhereData, [Next]_vars
  PROVE  [Longer!Next]_(Longer!vars)
<1>1. reader = "data" /\ pc = "item" => LongEnough(blob)
  BY DEF WhereData
<1>2. CASE ParseFixed
  <2>1. /\ pc = "start" /\ UNCHANGED <<reader, blob, i, stack, hand>>
        /\ reader = "data" /\ rest = blob /\ reader \in Readers /\ blob \in Blobs[reader]
    BY <1>2, ParseEffect, RestTyped DEF Started, Fresh
  <2>2. CASE pc' = "short" /\ rest' = rest /\ ~LongEnough(blob)
    BY <2>1, <2>2 DEF Longer!vars
  <2>3. CASE pc' = "value" /\ rest' = rest /\ LongEnough(blob) /\ ~AttestedData(blob)
    <3>1. LongEnough(blob \o More) /\ ~AttestedData(blob \o More)
      BY <2>1, <2>3, SameData
    <3>2. Longer!End("value")
      BY <2>1, <2>3 DEF Longer!End
    <3> QED
      BY <2>1, <3>1, <3>2, SameOperators DEF Longer!Next, Longer!ParseFixed
  <2>4. CASE pc' = "item" /\ rest' = KeyPart(blob) /\ LongEnough(blob) /\ AttestedData(blob)
    <3>1. /\ LongEnough(blob \o More) /\ AttestedData(blob \o More)
          /\ KeyPart(blob \o More) = rest' \o More
      BY <2>1, <2>4, SameData
    <3> QED
      BY <2>1, <2>4, <3>1, SameOperators DEF Longer!Next, Longer!ParseFixed
  <2> QED
    BY <1>2, <2>2, <2>3, <2>4, ParseEffect DEF Started
<1>3. CASE ReadItem
  BY <1>1, <1>3, SameRead DEF Longer!Next, ReadItem
<1>4. CASE StoreElement
  <2>1. pc = "item" /\ Awaited /\ Top.kind = "array" /\ Resume
        /\ SetTop([Top EXCEPT !.left = @ - 1, !.items = Append(@, hand)])
    BY <1>4 DEF StoreElement, Awaited
  <2>2. Longer!Resume /\ Longer!SetTop([Top EXCEPT !.left = @ - 1, !.items = Append(@, hand)])
    BY <2>1, SameEffects
  <2> QED
    BY <2>1, <2>2, SameOperators DEF Longer!Next, Longer!StoreElement, Longer!Awaited, Awaited
<1>5. CASE StoreKey
  <2>1. pc = "item" /\ Awaited /\ Top.kind = "map" /\ Top.key = Nothing /\ Resume
        /\ SetTop([Top EXCEPT !.key = hand])
    BY <1>5 DEF StoreKey, Awaited
  <2>2. Longer!Resume /\ Longer!SetTop([Top EXCEPT !.key = hand])
    BY <2>1, SameEffects
  <2> QED
    BY <2>1, <2>2, SameOperators DEF Longer!Next, Longer!StoreKey, Longer!Awaited, Awaited
<1>6. CASE StoreEntry
  <2> DEFINE f == [Top EXCEPT !.left = @ - 1, !.items = Put(@, Top.key, hand), !.key = Nothing]
  <2>1. pc = "item" /\ Awaited /\ Top.kind = "map" /\ Top.key # Nothing
        /\ \/ Top.key[1] \in Unhashable /\ End("panic")
           \/ Top.key[1] \notin Unhashable /\ SetTop(f) /\ Resume
    BY <1>6 DEF StoreEntry, Awaited
  <2>2. \/ Top.key[1] \in Unhashable /\ Longer!End("panic")
        \/ Top.key[1] \notin Unhashable /\ Longer!SetTop(f) /\ Longer!Resume
    <3> HIDE DEF f
    <3> QED
      BY <2>1, SameEffects
  <2>3. Longer!Unhashable = Unhashable /\ \A m, k, v : Longer!Put(m, k, v) = Put(m, k, v)
    BY DEF Longer!Unhashable, Unhashable, Longer!Put, Put
  <2>4. Longer!StoreEntry
    BY <2>1, <2>2, <2>3, SameOperators DEF Longer!StoreEntry, Longer!Awaited, Awaited
  <2> QED
    BY <2>4 DEF Longer!Next
<1>7. CASE CloseItem
  <2>1. pc = "item" /\ pc' = "item"
    BY <1>7 DEF CloseItem
  <2>2. Longer!CloseItem
    BY <1>7, <2>1, SameOperators DEF CloseItem, Longer!CloseItem
  <2> QED
    BY <2>2 DEF Longer!Next
<1>8. CASE ReturnItem
  <2>1. pc = "item" /\ hand # Nothing /\ stack = <<>>
        /\ End(IF reader = "item" \/ IsKey(hand) THEN "value" ELSE "refused")
    BY <1>8 DEF ReturnItem
  <2>2. Longer!End(IF reader = "item" \/ IsKey(hand) THEN "value" ELSE "refused")
    BY <2>1, SameEffects
  <2>3. Longer!ReturnItem
    BY <2>1, <2>2, SameOperators DEF Longer!ReturnItem
  <2> QED
    BY <2>3 DEF Longer!Next
<1>9. CASE UNCHANGED vars
  BY <1>9 DEF vars, Longer!vars
<1> QED
  BY <1>2, <1>3, <1>4, <1>5, <1>6, <1>7, <1>8, <1>9 DEF Next

\* What was read stays as it was read whatever follows it: the run on an input
\* implements the run on any longer one, up to where the shorter ends.
THEOREM LongerReadsTheSame == Spec => NothingAfterCounts
<1>1. Init => Longer!Init
  <2> SUFFICES ASSUME Init PROVE Longer!Init
    OBVIOUS
  <2>1. reader \in Readers /\ blob \in Blobs[reader] /\ pc # "short"
    BY DEF Init
  <2>2. blob \o More \in LongerBlobs[reader]
    <3>1. LongerBlobs[reader] = Extended(reader)
      BY <2>1 DEF LongerBlobs, Readers
    <3>2. blob \o More \in Extended(reader)
      BY <2>1 DEF Extended
    <3> QED
      BY <3>1, <3>2
  <2> QED
    BY <2>1, <2>2 DEF Init, Longer!Init, Longer!Readers, Readers, Nothing, Longer!Nothing
<1>2. Started /\ Fresh /\ WhereData /\ [Next]_vars => [Longer!Next]_(Longer!vars)
  BY SameStep
<1> QED
  BY <1>1, <1>2, AlwaysStarted, AlwaysWhereData, PTL DEF Spec, NothingAfterCounts, Longer!Spec

-----------------------------------------------------------------------------
(* The grammar.                                                            *)

\* Triples are told apart by their parts.
LEMMA Triples ==
  \A x1, x2, x3, y1, y2, y3 :
    <<x1, x2, x3>> = <<y1, y2, y3>> <=> x1 = y1 /\ x2 = y2 /\ x3 = y3
OBVIOUS

\* What the rules give: items and rows as triples, and where they lie.
LEMMA RowTyped ==
  ASSUME NEW b \in Strings, NEW p, NEW q, NEW w, <<p, q, w>> \in Rows(b)
  PROVE  /\ p \in 0..Len(b) /\ q \in p..Len(b)
         /\ w \in Seq({What(x) : x \in Items(b)})
         /\ Len(w) \in Nat /\ Len(w) <= q - p
<1> DEFINE V == {What(x) : x \in Items(b)}
           r == <<p, q, w>>
<1>1. /\ From(r) \in 0..Len(b) /\ To(r) \in From(r)..Len(b)
      /\ What(r) \in Seq(V) /\ Len(What(r)) <= To(r) - From(r)
  BY GrammarAssumption
<1>2. From(r) = p /\ To(r) = q /\ What(r) = w
  BY DEF From, To, What
<1> HIDE DEF V
<1>3. Len(w) \in Nat
  BY <1>1, <1>2, LenProperties
<1> QED
  BY <1>1, <1>2, <1>3 DEF V

\* The rule for items, read as an equivalence.
LEMMA ItemsRule ==
  ASSUME NEW b \in Strings, NEW p, NEW m, NEW x
  PROVE  <<p, m, x>> \in Items(b) <=>
           /\ p \in 0..(Len(b) - 1)
           /\ \E h \in HeadsAt(b, p) : <<m, x>> \in Behind(b, Rows(b), b[p + 1] \div Infos, h)
<1>1. <<p, m, x>> \in Items(b) <=>
        \E at \in 0..(Len(b) - 1) : <<p, m, x>> \in ItemsAt(b, Rows(b), at)
  BY GrammarAssumption
<1>2. ASSUME NEW at, NEW h
      PROVE  <<p, m, x>> \in {<<at, z[1], z[2]>> : z \in Behind(b, Rows(b), b[at + 1] \div Infos, h)}
               <=> at = p /\ <<m, x>> \in Behind(b, Rows(b), b[at + 1] \div Infos, h)
  <2> DEFINE B == Behind(b, Rows(b), b[at + 1] \div Infos, h)
  <2>1. \A z \in B : z = <<z[1], z[2]>>
    BY DEF Behind
  <2> HIDE DEF B
  <2>2. \A z \in B : <<p, m, x>> = <<at, z[1], z[2]>> <=> at = p /\ z = <<m, x>>
    BY <2>1
  <2> QED
    BY <2>2 DEF B
<1>3. ASSUME NEW at
      PROVE  <<p, m, x>> \in ItemsAt(b, Rows(b), at) <=>
               at = p /\ \E h \in HeadsAt(b, at) : <<m, x>> \in Behind(b, Rows(b), b[at + 1] \div Infos, h)
  <2> DEFINE Img(h) == {<<at, z[1], z[2]>> : z \in Behind(b, Rows(b), b[at + 1] \div Infos, h)}
  <2>1. ItemsAt(b, Rows(b), at) = UNION {Img(h) : h \in HeadsAt(b, at)}
    BY DEF ItemsAt
  <2>2. \A h : <<p, m, x>> \in Img(h) <=>
                 at = p /\ <<m, x>> \in Behind(b, Rows(b), b[at + 1] \div Infos, h)
    BY <1>2
  <2> HIDE DEF Img
  <2> QED
    BY <2>1, <2>2
<1> QED
  BY <1>1, <1>3

\* Items are what the rule makes, triples.
LEMMA ItemsAreTriples ==
  ASSUME NEW b \in Strings PROVE \A z \in Items(b) : z = <<z[1], z[2], z[3]>>
BY GrammarAssumption DEF ItemsAt

\* So are rows.
LEMMA RowsAreTriples ==
  ASSUME NEW b \in Strings PROVE \A r \in Rows(b) : r = <<r[1], r[2], r[3]>>
<1>1. ASSUME NEW at, NEW r \in RowsAt(Items(b), Rows(b), at) PROVE r = <<r[1], r[2], r[3]>>
  <2>1. \E e1, e2, e3 : r = <<e1, e2, e3>>
    BY <1>1 DEF RowsAt
  <2> QED
    BY <2>1
<1>2. \A r \in Rows(b) : \E at \in 0..Len(b) : r \in RowsAt(Items(b), Rows(b), at)
  BY GrammarAssumption
<1> QED
  BY <1>1, <1>2

\* A row that begins with an item.
Parted(b, p, q, w) ==
  \E m, x, u : <<p, m, x>> \in Items(b) /\ <<m, q, u>> \in Rows(b) /\ w = <<x>> \o u

\* The rule for rows, read as an equivalence.
LEMMA RowsRule ==
  ASSUME NEW b \in Strings, NEW p \in 0..Len(b), NEW q, NEW w
  PROVE  <<p, q, w>> \in Rows(b) <=> (q = p /\ w = <<>>) \/ Parted(b, p, q, w)
<1>1. <<p, q, w>> \in Rows(b) <=>
        \E at \in 0..Len(b) : <<p, q, w>> \in RowsAt(Items(b), Rows(b), at)
  BY GrammarAssumption
<1>2. \A z \in Items(b) : z = <<z[1], z[2], z[3]>>
  BY ItemsAreTriples
<1>3. \A r \in Rows(b) : r = <<r[1], r[2], r[3]>>
  BY RowsAreTriples
<1>4. ASSUME NEW at
      PROVE  <<p, q, w>> \in RowsAt(Items(b), Rows(b), at) <=>
               /\ at = p
               /\ \/ q = p /\ w = <<>>
                  \/ \E m, x, u : /\ <<p, m, x>> \in Items(b) /\ <<m, q, u>> \in Rows(b)
                                  /\ w = <<x>> \o u
  <2>1. <<p, q, w>> \in RowsAt(Items(b), Rows(b), at) <=>
          \/ <<p, q, w>> = <<at, at, <<>>>>
          \/ \E z \in Items(b), r \in Rows(b) :
               z[1] = at /\ r[1] = z[2] /\ <<p, q, w>> = <<at, r[2], <<z[3]>> \o r[3]>>
    <3> DEFINE Img(z) == {<<at, To(r), <<What(z)>> \o What(r)>> : r \in {r \in Rows(b) : From(r) = To(z)}}
    <3>1. RowsAt(Items(b), Rows(b), at)
            = {<<at, at, <<>>>>} \cup UNION {Img(z) : z \in {z \in Items(b) : From(z) = at}}
      BY DEF RowsAt
    <3>2. \A z : <<p, q, w>> \in Img(z) <=>
                   \E r \in Rows(b) : r[1] = z[2] /\ <<p, q, w>> = <<at, r[2], <<z[3]>> \o r[3]>>
      BY DEF From, To, What
    <3> HIDE DEF Img
    <3> QED
      BY <3>1, <3>2 DEF From
  <2>2. ASSUME NEW z \in Items(b), NEW r \in Rows(b), z[1] = at, r[1] = z[2],
               <<p, q, w>> = <<at, r[2], <<z[3]>> \o r[3]>>
        PROVE  <<p, z[2], z[3]>> \in Items(b) /\ <<z[2], q, r[3]>> \in Rows(b)
                 /\ w = <<z[3]>> \o r[3] /\ at = p
    <3>1. p = at /\ q = r[2] /\ w = <<z[3]>> \o r[3]
      BY <2>2
    <3>2. z = <<p, z[2], z[3]>> /\ r = <<z[2], q, r[3]>>
      BY <1>2, <1>3, <2>2, <3>1
    <3> QED
      BY <3>1, <3>2
  <2>3. ASSUME NEW m, NEW x, NEW u, <<p, m, x>> \in Items(b), <<m, q, u>> \in Rows(b),
               w = <<x>> \o u, at = p
        PROVE  \E z \in Items(b), r \in Rows(b) :
                 z[1] = at /\ r[1] = z[2] /\ <<p, q, w>> = <<at, r[2], <<z[3]>> \o r[3]>>
    <3> DEFINE z == <<p, m, x>>
               r == <<m, q, u>>
    <3>1. z[1] = p /\ z[2] = m /\ z[3] = x /\ r[1] = m /\ r[2] = q /\ r[3] = u
      OBVIOUS
    <3>2. z \in Items(b) /\ r \in Rows(b)
      BY <2>3
    <3> HIDE DEF z, r
    <3> QED
      BY <2>3, <3>1, <3>2
  <2>4. <<p, q, w>> = <<at, at, <<>>>> <=> at = p /\ q = p /\ w = <<>>
    BY Triples
  <2> DEFINE B == \E z \in Items(b), r \in Rows(b) :
                    z[1] = at /\ r[1] = z[2] /\ <<p, q, w>> = <<at, r[2], <<z[3]>> \o r[3]>>
             C == \E m, x, u : <<p, m, x>> \in Items(b) /\ <<m, q, u>> \in Rows(b) /\ w = <<x>> \o u
  <2>5. B => at = p /\ C
    <3> SUFFICES ASSUME B PROVE at = p /\ C
      OBVIOUS
    <3>1. PICK z \in Items(b), r \in Rows(b) :
            z[1] = at /\ r[1] = z[2] /\ <<p, q, w>> = <<at, r[2], <<z[3]>> \o r[3]>>
      OBVIOUS
    <3>2. /\ <<p, z[2], z[3]>> \in Items(b) /\ <<z[2], q, r[3]>> \in Rows(b)
          /\ w = <<z[3]>> \o r[3] /\ at = p
      BY <2>2, <3>1
    <3> QED
      BY <3>2
  <2>6. at = p /\ C => B
    BY <2>3
  <2>7. <<p, q, w>> \in RowsAt(Items(b), Rows(b), at) <=> <<p, q, w>> = <<at, at, <<>>>> \/ B
    BY <2>1
  <2> HIDE DEF B
  <2> QED
    BY <2>4, <2>5, <2>6, <2>7
<1> QED
  BY <1>1, <1>4 DEF Parted

-----------------------------------------------------------------------------
(* Rows in front of which an item stands, and maps from rows.              *)

\* A sequence with one element in front of it.
LEMMA Consed ==
  ASSUME NEW V, NEW w \in Seq(V), NEW x
  PROVE  /\ <<x>> \o w \in Seq(V \cup {x}) /\ <<x>> \o w # <<>>
         /\ Len(w) \in Nat /\ Len(<<x>> \o w) = Len(w) + 1
         /\ (<<x>> \o w)[1] = x
         /\ \A k \in 1..Len(w) : (<<x>> \o w)[k + 1] = w[k]
<1> DEFINE W == V \cup {x}
<1>1. w \in Seq(W) /\ <<x>> \in Seq(W) /\ Len(<<x>>) = 1 /\ <<x>>[1] = x /\ Len(w) \in Nat
  BY SeqMonotonic, LenProperties
<1> HIDE DEF W
<1>2. /\ <<x>> \o w \in Seq(W) /\ Len(<<x>> \o w) = Len(<<x>>) + Len(w)
      /\ \A k \in 1..Len(<<x>>) + Len(w) : (<<x>> \o w)[k] =
                     IF k <= Len(<<x>>) THEN <<x>>[k] ELSE w[k - Len(<<x>>)]
  BY <1>1, ConcatProperties
<1>3. /\ Len(<<x>> \o w) = Len(w) + 1
      /\ \A k \in 1..(1 + Len(w)) : (<<x>> \o w)[k] = IF k <= 1 THEN x ELSE w[k - 1]
  BY <1>1, <1>2
<1>4. (<<x>> \o w)[1] = x /\ \A k \in 1..Len(w) : (<<x>> \o w)[k + 1] = w[k]
  BY <1>1, <1>3
<1>5. <<x>> \o w # <<>>
  BY <1>1, <1>2, <1>3, EmptySeq
<1> QED
  BY <1>1, <1>2, <1>3, <1>4, <1>5 DEF W

\* The keys and values of a row.
KeyAt(kvs, j) == kvs[2 * j - 1]
ValAt(kvs, j) == kvs[2 * j]

\* A map on top of which a row of keys and values is put.
Over(m, kvs) == {p \in m : \A j \in Pairs(kvs) : KeyAt(kvs, j) # p[1]} \cup Table(kvs)

\* Such a row with the pair of k and x in front of w.
InFront(kvs, w, k, x) ==
  /\ \A j \in Pairs(kvs) : j = 1 \/ (j - 1 \in Pairs(w) /\ j = (j - 1) + 1)
  /\ 1 \in Pairs(kvs)
  /\ \A j \in Pairs(w) : j + 1 \in Pairs(kvs) /\ j \in Nat /\ j >= 1
  /\ KeyAt(kvs, 1) = k /\ ValAt(kvs, 1) = x
  /\ \A j \in Pairs(w) : KeyAt(kvs, j + 1) = KeyAt(w, j) /\ ValAt(kvs, j + 1) = ValAt(w, j)

\* A row with a pair in front of it, place by place.
LEMMA PairInFront ==
  ASSUME NEW V, NEW w \in Seq(V), NEW k, NEW x, NEW kvs, kvs = <<k>> \o (<<x>> \o w)
  PROVE  InFront(kvs, w, k, x)
<1> DEFINE v == <<x>> \o w
<1>1. /\ v \in Seq(V \cup {x}) /\ Len(w) \in Nat /\ Len(v) = Len(w) + 1 /\ v[1] = x
      /\ \A n \in 1..Len(w) : v[n + 1] = w[n]
  BY Consed
<1> HIDE DEF v
<1>2. /\ Len(kvs) = Len(v) + 1 /\ kvs[1] = k
      /\ \A n \in 1..Len(v) : kvs[n + 1] = v[n]
  BY <1>1, Consed DEF v
<1>3. Len(kvs) = Len(w) + 2 /\ kvs[1] = k /\ kvs[2] = x
  <2>1. 1 \in 1..Len(v) /\ 1 + 1 = 2
    BY <1>1
  <2> QED
    BY <1>1, <1>2, <2>1
<1>4. \A n \in 1..Len(w) : kvs[n + 2] = w[n]
  <2> TAKE n \in 1..Len(w)
  <2>1. n + 1 \in 1..Len(v) /\ (n + 1) + 1 = n + 2
    BY <1>1
  <2> QED
    BY <1>1, <1>2, <2>1
<1>5. Pairs(kvs) = 1..((Len(w) \div 2) + 1) /\ Len(w) \div 2 \in Nat
  <2>1. (Len(w) + 2) \div 2 = (Len(w) \div 2) + 1 /\ Len(w) \div 2 \in Nat
    BY <1>1
  <2> QED
    BY <1>3, <2>1 DEF Pairs
<1>6. Pairs(w) = 1..(Len(w) \div 2)
  BY DEF Pairs
<1>7. \A j \in Pairs(w) : KeyAt(kvs, j + 1) = KeyAt(w, j) /\ ValAt(kvs, j + 1) = ValAt(w, j)
  <2> TAKE j \in Pairs(w)
  <2>1. 2 * j - 1 \in 1..Len(w) /\ 2 * j \in 1..Len(w) /\ j \in Nat
    BY <1>1, <1>6
  <2>2. 2 * (j + 1) - 1 = (2 * j - 1) + 2 /\ 2 * (j + 1) = 2 * j + 2
    BY <2>1
  <2> QED
    BY <1>4, <2>1, <2>2 DEF KeyAt, ValAt
<1>8. KeyAt(kvs, 1) = k /\ ValAt(kvs, 1) = x
  <2>1. 2 * 1 - 1 = 1 /\ 2 * 1 = 2
    OBVIOUS
  <2> QED
    BY <1>3, <2>1 DEF KeyAt, ValAt
<1> DEFINE d == Len(w) \div 2
<1>9. Pairs(kvs) = 1..(d + 1) /\ Pairs(w) = 1..d /\ d \in Nat
  BY <1>5, <1>6
<1> HIDE DEF d
<1>10. \A j \in Pairs(kvs) : j = 1 \/ (j - 1 \in Pairs(w) /\ j = (j - 1) + 1)
  BY <1>9
<1>11. /\ 1 \in Pairs(kvs)
       /\ \A j \in Pairs(w) : j + 1 \in Pairs(kvs) /\ j \in Nat /\ j >= 1
  <2>1. /\ 1 \in 1..(d + 1)
        /\ \A j \in 1..d : j + 1 \in 1..(d + 1) /\ j \in Nat /\ j >= 1
    BY <1>9
  <2> QED
    BY <1>9, <2>1
<1> QED
  BY <1>7, <1>8, <1>10, <1>11 DEF InFront

\* out[k] = v for the first pair, and then the others.
LEMMA OverPut ==
  ASSUME NEW V, NEW w \in Seq(V), NEW k, NEW x, NEW m
  PROVE  /\ Over(m, <<k>> \o (<<x>> \o w)) = Over(Put(m, k, x), w)
         /\ Keyed(<<k>> \o (<<x>> \o w)) <=> k[1] \notin Unhashable /\ Keyed(w)
<1> DEFINE kvs == <<k>> \o (<<x>> \o w)
<1>1. /\ \A j \in Pairs(kvs) : j = 1 \/ (j - 1 \in Pairs(w) /\ j = (j - 1) + 1)
      /\ 1 \in Pairs(kvs)
      /\ \A j \in Pairs(w) : j + 1 \in Pairs(kvs) /\ j \in Nat /\ j >= 1
      /\ KeyAt(kvs, 1) = k /\ ValAt(kvs, 1) = x
      /\ \A j \in Pairs(w) : KeyAt(kvs, j + 1) = KeyAt(w, j) /\ ValAt(kvs, j + 1) = ValAt(w, j)
  <2>1. InFront(kvs, w, k, x)
    BY PairInFront
  <2> HIDE DEF kvs
  <2> QED
    BY <2>1 DEF InFront
<1> HIDE DEF kvs
<1>2. /\ Keyed(kvs) <=> \A j \in Pairs(kvs) : KeyAt(kvs, j)[1] \notin Unhashable
      /\ Keyed(w) <=> \A j \in Pairs(w) : KeyAt(w, j)[1] \notin Unhashable
  BY DEF Keyed, KeyAt
<1>3. Keyed(kvs) <=> k[1] \notin Unhashable /\ Keyed(w)
  BY <1>1, <1>2
<1>4. Final(kvs, 1) <=> \A j \in Pairs(w) : KeyAt(w, j) # k
  <2>1. Final(kvs, 1) <=> \A l \in Pairs(kvs) : KeyAt(kvs, l) = KeyAt(kvs, 1) => l <= 1
    BY DEF Final, KeyAt
  <2>2. \A j \in Pairs(w) : ~(j + 1 <= 1)
    BY <1>1
  <2> QED
    BY <1>1, <2>1, <2>2
<1>5. \A j \in Pairs(w) : Final(kvs, j + 1) <=> Final(w, j)
  <2> TAKE j \in Pairs(w)
  <2>1. Final(kvs, j + 1) <=> \A l \in Pairs(kvs) : KeyAt(kvs, l) = KeyAt(kvs, j + 1) => l <= j + 1
    BY DEF Final, KeyAt
  <2>2. Final(w, j) <=> \A l \in Pairs(w) : KeyAt(w, l) = KeyAt(w, j) => l <= j
    BY DEF Final, KeyAt
  <2>3. 1 <= j + 1 /\ \A l \in Pairs(w) : l + 1 <= j + 1 <=> l <= j
    BY <1>1
  <2> QED
    BY <1>1, <2>1, <2>2, <2>3
<1>6. \A p : p \in Table(kvs) <=> \/ p = <<k, x>> /\ \A j \in Pairs(w) : KeyAt(w, j) # k
                                  \/ p \in Table(w)
  <2>1. /\ \A p : p \in Table(kvs) <=>
                \E j \in Pairs(kvs) : Final(kvs, j) /\ p = <<KeyAt(kvs, j), ValAt(kvs, j)>>
        /\ \A p : p \in Table(w) <=>
                \E j \in Pairs(w) : Final(w, j) /\ p = <<KeyAt(w, j), ValAt(w, j)>>
    BY DEF Table, KeyAt, ValAt
  <2> TAKE p
  <2>2. ASSUME NEW j \in Pairs(kvs), Final(kvs, j), p = <<KeyAt(kvs, j), ValAt(kvs, j)>>
        PROVE  \/ p = <<k, x>> /\ \A l \in Pairs(w) : KeyAt(w, l) # k
               \/ p \in Table(w)
    <3>1. CASE j = 1
      BY <1>1, <1>4, <2>2, <3>1
    <3>2. CASE j # 1
      <4>1. j - 1 \in Pairs(w) /\ j = (j - 1) + 1
        BY <1>1, <3>2
      <4>2. PICK l \in Pairs(w) : j = l + 1
        BY <4>1
      <4>3. Final(w, l) /\ p = <<KeyAt(w, l), ValAt(w, l)>>
        BY <1>1, <1>5, <2>2, <4>2
      <4> QED
        BY <2>1, <4>3
    <3> QED
      BY <3>1, <3>2
  <2>3. ASSUME p = <<k, x>>, \A l \in Pairs(w) : KeyAt(w, l) # k PROVE p \in Table(kvs)
    BY <1>1, <1>4, <2>1, <2>3
  <2>4. ASSUME p \in Table(w) PROVE p \in Table(kvs)
    <3>1. PICK j \in Pairs(w) : Final(w, j) /\ p = <<KeyAt(w, j), ValAt(w, j)>>
      BY <2>1, <2>4
    <3>2. j + 1 \in Pairs(kvs) /\ Final(kvs, j + 1) /\ p = <<KeyAt(kvs, j + 1), ValAt(kvs, j + 1)>>
      BY <1>1, <1>5, <3>1
    <3> QED
      BY <2>1, <3>2
  <2> QED
    BY <2>1, <2>2, <2>3, <2>4
<1>7. \A c : (\A j \in Pairs(kvs) : KeyAt(kvs, j) # c)
               <=> c # k /\ \A j \in Pairs(w) : KeyAt(w, j) # c
  BY <1>1
<1>8. \A p : p \in Put(m, k, x) <=> (p \in m /\ p[1] # k) \/ p = <<k, x>>
  BY DEF Put
<1>9. ASSUME NEW p PROVE p \in Over(m, kvs) <=> p \in Over(Put(m, k, x), w)
  <2> DEFINE Fresh1 == \A j \in Pairs(w) : KeyAt(w, j) # p[1]
  <2>1. p \in Over(m, kvs) <=> (p \in m /\ p[1] # k /\ Fresh1) \/ p \in Table(kvs)
    BY <1>7 DEF Over
  <2>2. p \in Over(Put(m, k, x), w) <=> (p \in Put(m, k, x) /\ Fresh1) \/ p \in Table(w)
    BY DEF Over
  <2>3. p = <<k, x>> => (Fresh1 <=> \A j \in Pairs(w) : KeyAt(w, j) # k)
    OBVIOUS
  <2> HIDE DEF Fresh1
  <2> QED
    BY <1>6, <1>8, <2>1, <2>2, <2>3
<1> QED
  BY <1>3, <1>9 DEF kvs

\* No pairs change no map, and what they make of the empty one is their table.
LEMMA OverNothing ==
  /\ \A m : Over(m, <<>>) = m
  /\ \A kvs : Over({}, kvs) = Table(kvs)
  /\ Keyed(<<>>)
<1>1. Pairs(<<>>) = {}
  BY EmptySeq DEF Pairs
<1> QED
  BY <1>1 DEF Over, Table, Keyed

-----------------------------------------------------------------------------
(* What the calls that wait will make of the rest of the input.            *)

\* The items a call still waits for, and what it returns if they are w.
Need(f)     == IF f.kind = "array" THEN f.left
               ELSE IF f.key = Nothing THEN 2 * f.left ELSE 2 * f.left - 1
Kvs(f, w)   == IF f.key = Nothing THEN w ELSE <<f.key>> \o w
Built(f, w) == IF f.kind = "array" THEN <<"array", f.items \o w>>
               ELSE <<"map", Over(f.items, Kvs(f, w))>>
Fits(f, w)  == Len(w) = Need(f) /\ (f.kind = "map" => Keyed(Kvs(f, w)))

\* From p on, or given the item x that ended at p, the call f can come to an end
\* at q and return y.
Ends(b, f, p, q, y) ==
  \E w : <<p, q, w>> \in Rows(b) /\ Fits(f, w) /\ y = Built(f, w)
Takes(b, f, p, x, q, y) ==
  \E w : <<p, q, w>> \in Rows(b) /\ Fits(f, <<x>> \o w) /\ y = Built(f, <<x>> \o w)

\* A call as it may stand on the stack.
IsCall(f) ==
  /\ IsFrame(f)
  /\ f.kind = "array" => f.key = Nothing /\ f.items \in Seq(Elements(f.items))
  /\ f.key # Nothing => f.left # 0

\* A call waits for items while its loop is not over, and for none after.
LEMMA NeedIs ==
  ASSUME NEW f, IsCall(f)
  PROVE  /\ Need(f) \in Nat
         /\ f.left # 0 => Need(f) >= 1
         /\ f.left = 0 => Need(f) = 0 /\ f.key = Nothing
BY DEF IsCall, IsFrame, Need

\* A row with an item in front is not empty, and one longer.
LEMMA RowConsed ==
  ASSUME NEW b \in Strings, NEW p, NEW q, NEW w, <<p, q, w>> \in Rows(b), NEW x
  PROVE  /\ Len(w) \in Nat /\ Len(<<x>> \o w) = Len(w) + 1
         /\ <<x>> \o w # <<>>
         /\ \E V : w \in Seq(V)
<1> DEFINE V == {What(z) : z \in Items(b)}
<1>1. w \in Seq(V)
  BY RowTyped
<1> HIDE DEF V
<1>2. /\ Len(w) \in Nat /\ Len(<<x>> \o w) = Len(w) + 1
      /\ <<x>> \o w # <<>>
  BY <1>1, Consed
<1> QED
  BY <1>1, <1>2

\* A call that waits for an item takes the next one there is.
LEMMA EndsByTaking ==
  ASSUME NEW b \in Strings, NEW f, IsCall(f), f.left # 0, NEW p \in 0..Len(b), NEW q, NEW y
  PROVE  Ends(b, f, p, q, y) <=>
           \E m, x : <<p, m, x>> \in Items(b) /\ Takes(b, f, m, x, q, y)
<1>1. ASSUME Ends(b, f, p, q, y)
      PROVE  \E m, x : <<p, m, x>> \in Items(b) /\ Takes(b, f, m, x, q, y)
  <2>1. PICK w : <<p, q, w>> \in Rows(b) /\ Fits(f, w) /\ y = Built(f, w)
    BY <1>1 DEF Ends
  <2>2. w # <<>>
    <3>1. Len(w) >= 1
      BY <2>1, NeedIs DEF Fits
    <3> QED
      BY <3>1, EmptySeq
  <2>3. Parted(b, p, q, w)
    BY <2>1, <2>2, RowsRule
  <2>4. PICK m, x, u : /\ <<p, m, x>> \in Items(b) /\ <<m, q, u>> \in Rows(b)
                       /\ w = <<x>> \o u
    BY <2>3 DEF Parted
  <2> QED
    BY <2>1, <2>4 DEF Takes
<1>2. ASSUME NEW m, NEW x, <<p, m, x>> \in Items(b), Takes(b, f, m, x, q, y)
      PROVE  Ends(b, f, p, q, y)
  <2>1. PICK w : <<m, q, w>> \in Rows(b) /\ Fits(f, <<x>> \o w) /\ y = Built(f, <<x>> \o w)
    BY <1>2 DEF Takes
  <2>2. <<p, q, <<x>> \o w>> \in Rows(b)
    <3>1. Parted(b, p, q, <<x>> \o w)
      BY <1>2, <2>1 DEF Parted
    <3> QED
      BY <3>1, RowsRule
  <2> QED
    BY <2>1, <2>2 DEF Ends
<1> QED
  BY <1>1, <1>2

\* A call that waits for nothing returns what it has.
LEMMA EndsAtOnce ==
  ASSUME NEW b \in Strings, NEW f, IsCall(f), f.left = 0, NEW p \in 0..Len(b), NEW q, NEW y
  PROVE  Ends(b, f, p, q, y) <=> q = p /\ y = <<f.kind, f.items>>
<1>1. Need(f) = 0 /\ f.key = Nothing
  BY NeedIs
<1>2. Built(f, <<>>) = <<f.kind, f.items>> /\ Fits(f, <<>>)
  <2>1. f.kind = "array" => f.items \o <<>> = f.items
    BY ConcatEmptySeq DEF IsCall
  <2> QED
    BY <1>1, <2>1, OverNothing, EmptySeq DEF Built, Fits, Kvs, IsCall, IsFrame
<1>3. \A w : <<p, q, w>> \in Rows(b) /\ Fits(f, w) => w = <<>>
  <2> TAKE w
  <2> HAVE <<p, q, w>> \in Rows(b) /\ Fits(f, w)
  <2>1. Len(w) = 0
    BY <1>1 DEF Fits
  <2> QED
    BY <2>1, RowTyped, EmptySeq
<1>5. <<p, q, <<>>>> \in Rows(b) <=> q = p
  <2>1. ASSUME <<p, q, <<>>>> \in Rows(b), q # p PROVE FALSE
    <3>0. Parted(b, p, q, <<>>)
      BY <2>1, RowsRule
    <3>1. PICK m, x, u : <<p, m, x>> \in Items(b) /\ <<m, q, u>> \in Rows(b) /\ <<>> = <<x>> \o u
      BY <3>0 DEF Parted
    <3>2. <<x>> \o u # <<>>
      BY <3>1, RowConsed
    <3> QED
      BY <3>1, <3>2
  <2> QED
    BY <2>1, RowsRule
<1> QED
  BY <1>2, <1>3, <1>5 DEF Ends

\* An item that has been stored is one the call has taken.
LEMMA StoredElement ==
  ASSUME NEW b \in Strings, NEW f, IsCall(f), f.kind = "array", f.left # 0, NEW x,
         NEW g, g = [f EXCEPT !.left = @ - 1, !.items = Append(@, x)]
  PROVE  IsCall(g) /\ \A p, q, y : Ends(b, g, p, q, y) <=> Takes(b, f, p, x, q, y)
<1> DEFINE S == Elements(f.items) \cup {x}
<1>1. /\ f.items \in Seq(S) /\ f.left \in Nat /\ f.key = Nothing
      /\ DOMAIN f = {"kind", "left", "items", "key"}
  BY SeqMonotonic DEF IsCall, IsFrame
<1>2. /\ g.kind = "array" /\ g.left = f.left - 1 /\ g.items = Append(f.items, x) /\ g.key = Nothing
      /\ DOMAIN g = {"kind", "left", "items", "key"}
  BY <1>1
<1> HIDE DEF S
<1>3. g.items = f.items \o <<x>> /\ g.items \in Seq(S)
  <2>1. x \in S
    BY DEF S
  <2> QED
    BY <1>1, <1>2, <2>1, AppendIsConcat, AppendProperties
<1>4. IsCall(g)
  <2>1. g.items \in Seq(Elements(g.items))
    BY <1>3, OwnElements
  <2>2. g.left \in Nat
    BY <1>1, <1>2
  <2> QED
    BY <1>2, <2>1, <2>2 DEF IsCall, IsFrame
<1>5. ASSUME NEW p, NEW q, NEW w, <<p, q, w>> \in Rows(b)
      PROVE  /\ Fits(g, w) <=> Fits(f, <<x>> \o w)
             /\ Built(g, w) = Built(f, <<x>> \o w)
  <2> DEFINE V == {What(z) : z \in Items(b)}
  <2>1. w \in Seq(V)
    BY <1>5, RowTyped
  <2> HIDE DEF V
  <2>2. Len(w) \in Nat /\ Len(<<x>> \o w) = Len(w) + 1
    BY <2>1, Consed
  <2>3. Fits(g, w) <=> Fits(f, <<x>> \o w)
    BY <1>1, <1>2, <2>2 DEF Fits, Need
  <2>4. f.items \o (<<x>> \o w) = (f.items \o <<x>>) \o w
    <3> DEFINE T == S \cup V \cup {x}
    <3>1. S \subseteq T /\ V \subseteq T /\ x \in T
      OBVIOUS
    <3>2. f.items \in Seq(T)
      BY <1>1, <3>1, SeqMonotonic
    <3>3. w \in Seq(T)
      BY <2>1, <3>1, SeqMonotonic
    <3>4. <<x>> \in Seq(T)
      BY <3>1
    <3> HIDE DEF T
    <3>5. \A r, s, t \in Seq(T) : (r \o s) \o t = r \o (s \o t)
      BY ConcatAssociative
    <3> QED
      BY <3>2, <3>3, <3>4, <3>5
  <2> QED
    BY <1>2, <1>3, <2>3, <2>4 DEF Built
<1> QED
  BY <1>4, <1>5 DEF Ends, Takes

\* A map that has a key ends where it would have ended given that item.
LEMMA StoredKey ==
  ASSUME NEW b \in Strings, NEW f, IsCall(f), f.kind = "map", f.key = Nothing, f.left # 0,
         NEW x, IsItem(x), x # Nothing, NEW g, g = [f EXCEPT !.key = x]
  PROVE  IsCall(g) /\ \A p, q, y : Ends(b, g, p, q, y) <=> Takes(b, f, p, x, q, y)
<1>1. /\ f.left \in Nat /\ DOMAIN f = {"kind", "left", "items", "key"}
  BY DEF IsCall, IsFrame
<1>2. /\ g.kind = "map" /\ g.left = f.left /\ g.items = f.items /\ g.key = x
      /\ DOMAIN g = {"kind", "left", "items", "key"}
  BY <1>1
<1>4. IsCall(g)
  BY <1>1, <1>2 DEF IsCall, IsFrame
<1>5. ASSUME NEW p, NEW q, NEW w, <<p, q, w>> \in Rows(b)
      PROVE  /\ Fits(g, w) <=> Fits(f, <<x>> \o w)
             /\ Built(g, w) = Built(f, <<x>> \o w)
  <2>1. Len(w) \in Nat /\ Len(<<x>> \o w) = Len(w) + 1
    BY <1>5, RowConsed
  <2>2. Kvs(g, w) = <<x>> \o w /\ Kvs(f, <<x>> \o w) = <<x>> \o w
    BY <1>2 DEF Kvs
  <2>3. Need(f) = Need(g) + 1 /\ Need(g) \in Nat
    BY <1>1, <1>2 DEF Need
  <2>4. Len(w) = Need(g) <=> Len(<<x>> \o w) = Need(f)
    BY <2>1, <2>3
  <2> QED
    BY <1>2, <2>2, <2>4 DEF Fits, Built
<1> QED
  BY <1>4, <1>5 DEF Ends, Takes

\* So does one that has the value, by overwriting; a key Go cannot hash ends it.
LEMMA StoredEntry ==
  ASSUME NEW b \in Strings, NEW f, IsCall(f), f.kind = "map", f.key # Nothing, NEW x,
         NEW g, g = [f EXCEPT !.left = @ - 1, !.items = Put(@, f.key, x), !.key = Nothing]
  PROVE  /\ IsCall(g)
         /\ f.key[1] \notin Unhashable =>
              \A p, q, y : Ends(b, g, p, q, y) <=> Takes(b, f, p, x, q, y)
         /\ f.key[1] \in Unhashable => \A p, q, y : ~Takes(b, f, p, x, q, y)
<1>1. f.left \in Nat /\ f.left # 0 /\ DOMAIN f = {"kind", "left", "items", "key"}
  BY DEF IsCall, IsFrame
<1>2. /\ g.kind = "map" /\ g.left = f.left - 1 /\ g.items = Put(f.items, f.key, x) /\ g.key = Nothing
      /\ DOMAIN g = {"kind", "left", "items", "key"}
  BY <1>1
<1>4. IsCall(g)
  BY <1>1, <1>2 DEF IsCall, IsFrame
<1>5. ASSUME NEW p, NEW q, NEW w, <<p, q, w>> \in Rows(b)
      PROVE  /\ Fits(f, <<x>> \o w) <=> f.key[1] \notin Unhashable /\ Fits(g, w)
             /\ Built(g, w) = Built(f, <<x>> \o w)
  <2> DEFINE V == {What(z) : z \in Items(b)}
  <2>0. w \in Seq(V)
    BY <1>5, RowTyped
  <2> HIDE DEF V
  <2>1. Len(w) \in Nat /\ Len(<<x>> \o w) = Len(w) + 1
    BY <1>5, RowConsed
  <2>2. Kvs(g, w) = w /\ Kvs(f, <<x>> \o w) = <<f.key>> \o (<<x>> \o w)
    BY <1>2 DEF Kvs
  <2>3. Need(f) = Need(g) + 1 /\ Need(g) \in Nat
    BY <1>1, <1>2 DEF Need
  <2>4. /\ Over(f.items, <<f.key>> \o (<<x>> \o w)) = Over(g.items, w)
        /\ Keyed(<<f.key>> \o (<<x>> \o w)) <=> f.key[1] \notin Unhashable /\ Keyed(w)
    BY <1>2, <2>0, OverPut
  <2>5. Len(w) = Need(g) <=> Len(<<x>> \o w) = Need(f)
    BY <2>1, <2>3
  <2> QED
    BY <1>2, <2>2, <2>4, <2>5 DEF Fits, Built
<1> QED
  BY <1>4, <1>5 DEF Ends, Takes

\* A call that has just begun.
ArrayFrom(b, n, p, q, y) ==
  \E w : <<p, q, w>> \in Rows(b) /\ Len(w) = n /\ y = <<"array", w>>
MapFrom(b, n, p, q, y) ==
  \E w : <<p, q, w>> \in Rows(b) /\ Len(w) = 2 * n /\ Keyed(w) /\ y = <<"map", Table(w)>>

\* A call that opens an array has all its items to come.
LEMMA OpenedArray ==
  ASSUME NEW b \in Strings, NEW n \in Nat, NEW p, NEW q, NEW y
  PROVE  /\ IsCall(ArrayFrame(n))
         /\ Ends(b, ArrayFrame(n), p, q, y) <=> ArrayFrom(b, n, p, q, y)
<1>1. IsCall(ArrayFrame(n))
  <2>1. <<>> \in Seq(Elements(<<>>))
    BY EmptySeq
  <2> QED
    BY <2>1 DEF IsCall, IsFrame, ArrayFrame
<1>2. ASSUME NEW w, <<p, q, w>> \in Rows(b)
      PROVE  /\ Fits(ArrayFrame(n), w) <=> Len(w) = n
             /\ Built(ArrayFrame(n), w) = <<"array", w>>
  <2>1. <<>> \o w = w
    BY <1>2, RowTyped, ConcatEmptySeq
  <2> QED
    BY <2>1 DEF Fits, Built, Need, ArrayFrame
<1> QED
  BY <1>1, <1>2 DEF Ends, ArrayFrom

\* And one that opens a map all its pairs.
LEMMA OpenedMap ==
  ASSUME NEW b \in Strings, NEW n \in Nat, NEW p, NEW q, NEW y
  PROVE  /\ IsCall(MapFrame(n))
         /\ Ends(b, MapFrame(n), p, q, y) <=> MapFrom(b, n, p, q, y)
<1>1. IsCall(MapFrame(n))
  BY DEF IsCall, IsFrame, MapFrame
<1>2. ASSUME NEW w, <<p, q, w>> \in Rows(b)
      PROVE  /\ Fits(MapFrame(n), w) <=> Len(w) = 2 * n /\ Keyed(w)
             /\ Built(MapFrame(n), w) = <<"map", Table(w)>>
  BY OverNothing DEF Fits, Built, Need, Kvs, MapFrame
<1> QED
  BY <1>1, <1>2 DEF Ends, MapFrom

-----------------------------------------------------------------------------
(* What comes of all the calls that wait, from the innermost to the first. *)

\* The calls 1 to L of s return one after the other when the last of them is
\* given x at m, and the first returns v at n.
Handed(b, f, E, d) == Takes(b, f, E[d][1], E[d][2], E[d - 1][1], E[d - 1][2])
Below(b, s, L, m, x, n, v) ==
  \E E : /\ E[L][1] = m /\ E[L][2] = x /\ E[0][1] = n /\ E[0][2] = v
         /\ \A d \in 1..L : Handed(b, s[d], E, d)

\* With no call waiting, the item at hand is what comes of it.
LEMMA BelowEmpty ==
  ASSUME NEW b, NEW s, NEW m, NEW x, NEW n, NEW v
  PROVE  Below(b, s, 0, m, x, n, v) <=> m = n /\ x = v
<1>1. ASSUME m = n, x = v PROVE Below(b, s, 0, m, x, n, v)
  <2> DEFINE E == [d \in {0} |-> <<m, x>>]
  <2>1. E[0][1] = m /\ E[0][2] = x
    OBVIOUS
  <2>2. \A d \in 1..0 : Handed(b, s[d], E, d)
    OBVIOUS
  <2> HIDE DEF E
  <2> QED
    BY <1>1, <2>1, <2>2 DEF Below
<1> QED
  BY <1>1 DEF Below

\* The innermost call ends first, and hands its item to the others.
LEMMA BelowTop ==
  ASSUME NEW b, NEW s, NEW L \in Nat \ {0}, NEW m, NEW x, NEW n, NEW v
  PROVE  Below(b, s, L, m, x, n, v) <=>
           \E q, y : Takes(b, s[L], m, x, q, y) /\ Below(b, s, L - 1, q, y, n, v)
<1>1. ASSUME Below(b, s, L, m, x, n, v)
      PROVE  \E q, y : Takes(b, s[L], m, x, q, y) /\ Below(b, s, L - 1, q, y, n, v)
  <2>1. PICK E : /\ E[L][1] = m /\ E[L][2] = x /\ E[0][1] = n /\ E[0][2] = v
                 /\ \A d \in 1..L : Handed(b, s[d], E, d)
    BY <1>1 DEF Below
  <2> DEFINE q == E[L - 1][1]
             y == E[L - 1][2]
  <2>2. Takes(b, s[L], m, x, q, y)
    <3>1. Handed(b, s[L], E, L)
      BY <2>1
    <3> QED
      BY <2>1, <3>1 DEF Handed
  <2>3. \A d \in 1..(L - 1) : Handed(b, s[d], E, d)
    BY <2>1
  <2>4. Below(b, s, L - 1, q, y, n, v)
    BY <2>1, <2>3 DEF Below
  <2> QED
    BY <2>2, <2>4
<1>2. ASSUME NEW q, NEW y, Takes(b, s[L], m, x, q, y), Below(b, s, L - 1, q, y, n, v)
      PROVE  Below(b, s, L, m, x, n, v)
  <2>1. PICK F : /\ F[L - 1][1] = q /\ F[L - 1][2] = y /\ F[0][1] = n /\ F[0][2] = v
                 /\ \A d \in 1..(L - 1) : Handed(b, s[d], F, d)
    BY <1>2 DEF Below
  <2> DEFINE E == [d \in 0..L |-> IF d = L THEN <<m, x>> ELSE F[d]]
  <2>2. E[L] = <<m, x>> /\ \A d \in 0..(L - 1) : E[d] = F[d]
    OBVIOUS
  <2>3. E[L][1] = m /\ E[L][2] = x
    BY <2>2
  <2> HIDE DEF E
  <2>4. E[0] = F[0] /\ E[L - 1] = F[L - 1]
    BY <2>2
  <2>5. Handed(b, s[L], E, L)
    BY <1>2, <2>1, <2>3, <2>4 DEF Handed
  <2>6. \A d \in 1..(L - 1) : Handed(b, s[d], E, d)
    <3> TAKE d \in 1..(L - 1)
    <3>1. E[d] = F[d] /\ E[d - 1] = F[d - 1]
      BY <2>2
    <3>2. Handed(b, s[d], F, d)
      BY <2>1
    <3> QED
      BY <3>1, <3>2 DEF Handed
  <2>7. \A d \in 1..L : d = L \/ d \in 1..(L - 1)
    OBVIOUS
  <2>8. \A d \in 1..L : Handed(b, s[d], E, d)
    BY <2>5, <2>6, <2>7
  <2> QED
    BY <2>1, <2>3, <2>4, <2>8 DEF Below
<1> QED
  BY <1>1, <1>2

\* What comes of the calls depends on those calls only.
LEMMA BelowAgree ==
  ASSUME NEW b, NEW s, NEW t, NEW L \in Nat, \A d \in 1..L : s[d] = t[d],
         NEW m, NEW x, NEW n, NEW v
  PROVE  Below(b, s, L, m, x, n, v) <=> Below(b, t, L, m, x, n, v)
<1>1. \A E : (\A d \in 1..L : Handed(b, s[d], E, d)) <=> (\A d \in 1..L : Handed(b, t[d], E, d))
  OBVIOUS
<1> QED
  BY <1>1 DEF Below

\* What the rest of the input from at on can still come to: the first call
\* returns v at n.
Completes(b, s, hd, at, n, v) ==
  IF hd # Nothing THEN Below(b, s, Len(s), at, hd, n, v)
  ELSE IF s = <<>> THEN <<at, n, v>> \in Items(b)
  ELSE \E q, y : Ends(b, s[Len(s)], at, q, y) /\ Below(b, s, Len(s) - 1, q, y, n, v)

\* Where an item is wanted, what comes next is an item.
Onward(b, s, at, n, v) ==
  \E m, x : <<at, m, x>> \in Items(b) /\ Below(b, s, Len(s), m, x, n, v)

AreCalls(s) == IsStack(s) /\ \A d \in 1..Len(s) : IsCall(s[d])

\* With nothing at hand, the innermost call goes on with an item of the grammar.
LEMMA NextItem ==
  ASSUME NEW b \in Strings, NEW s, AreCalls(s), s # <<>> => s[Len(s)].left # 0,
         NEW at \in 0..Len(b), NEW n, NEW v
  PROVE  Completes(b, s, Nothing, at, n, v) <=> Onward(b, s, at, n, v)
<1>1. CASE s = <<>>
  <2>1. Len(s) = 0
    BY <1>1, EmptySeq
  <2>2. \A m, x : Below(b, s, Len(s), m, x, n, v) <=> m = n /\ x = v
    BY <2>1, BelowEmpty
  <2>3. Completes(b, s, Nothing, at, n, v) <=> <<at, n, v>> \in Items(b)
    BY <1>1 DEF Completes
  <2>4. ASSUME NEW m, NEW x
        PROVE  <<at, m, x>> \in Items(b) /\ Below(b, s, Len(s), m, x, n, v)
                 <=> <<at, n, v>> \in Items(b) /\ m = n /\ x = v
    BY <2>2
  <2>5. Onward(b, s, at, n, v) => <<at, n, v>> \in Items(b)
    BY <2>4 DEF Onward
  <2>6. <<at, n, v>> \in Items(b) => Onward(b, s, at, n, v)
    BY <2>4 DEF Onward
  <2> QED
    BY <2>3, <2>5, <2>6
<1>2. CASE s # <<>>
  <2> DEFINE L == Len(s)
             f == s[L]
  <2>1. L \in Nat \ {0} /\ L \in 1..L
    BY <1>2, EmptySeq DEF AreCalls, IsStack
  <2>2. IsCall(f) /\ f.left # 0
    BY <1>2, <2>1 DEF AreCalls
  <2> HIDE DEF f, L
  <2>3. \A q, y : Ends(b, f, at, q, y) <=>
                    \E m, x : <<at, m, x>> \in Items(b) /\ Takes(b, f, m, x, q, y)
    BY <2>2, EndsByTaking
  <2>4. \A m, x : Below(b, s, L, m, x, n, v) <=>
                    \E q, y : Takes(b, f, m, x, q, y) /\ Below(b, s, L - 1, q, y, n, v)
    BY <2>1, BelowTop DEF f
  <2>5. Completes(b, s, Nothing, at, n, v) <=>
          \E q, y : Ends(b, f, at, q, y) /\ Below(b, s, L - 1, q, y, n, v)
    BY <1>2 DEF Completes, f, L
  <2>6. Onward(b, s, at, n, v) <=>
          \E m, x : <<at, m, x>> \in Items(b) /\ Below(b, s, L, m, x, n, v)
    BY DEF Onward, L
  <2> QED
    BY <2>3, <2>4, <2>5, <2>6
<1> QED
  BY <1>1, <1>2

-----------------------------------------------------------------------------
(* What the decoder reads at a place is what the grammar has there.        *)

\* The bytes under the decoder.
IsInput(b) ==
  /\ b \in Strings /\ b \in Seq(Byte)
  /\ \E r \in Readers : \E whole \in Blobs[r] : Len(b) <= Len(whole)

Announced(h) == [arg |-> h.arg, to |-> h.i]

\* A head is read where there is one, with the same argument.
LEMMA HeadsAgree ==
  ASSUME NEW b, IsInput(b), NEW j \in 0..Len(b), j < Len(b)
  PROVE  /\ ~Accepted(HeadAt(b, j)) => HeadsAt(b, j) = {}
         /\ Accepted(HeadAt(b, j)) => HeadsAt(b, j) = {Announced(HeadAt(b, j))}
<1> DEFINE c     == b[j + 1]
           info  == c % Infos
           after == Take(b, j + 1, Width[info])
           h     == HeadAt(b, j)
<1>1. PICK r \in Readers : \E whole \in Blobs[r] : Len(b) <= Len(whole)
  BY DEF IsInput
<1>2. PICK whole \in Blobs[r] : Len(b) <= Len(whole)
  BY <1>1
<1>3. /\ Len(b) \in Nat /\ Len(whole) \in Nat /\ b \in Seq(Byte)
      /\ 2 * (Len(whole) + Room) < Word /\ Room \in Nat /\ Word \in Nat
      /\ \A f \in DOMAIN Width : 2 * (Len(whole) + Width[f]) < Word
  BY <1>1, <1>2, SizeAssumption, FormatAssumption DEF IsInput
<1>4. CASE info \in Direct
  <2>1. h = HeadOf(c, info, j + 1)
    BY <1>3, <1>4, FormatAssumption DEF HeadAt
  <2>2. info \notin DOMAIN Width
    BY <1>4, FormatAssumption
  <2>3. HeadsAt(b, j) = {[arg |-> info, to |-> j + 1]}
    BY <1>4, <2>2 DEF HeadsAt
  <2>4. Accepted(h) /\ h.arg = info /\ h.i = j + 1
    BY <2>1 DEF HeadOf, Accepted
  <2> HIDE DEF h, info
  <2> QED
    BY <1>3, <2>2, <2>3, <2>4 DEF Announced, h, info
<1>5. CASE info \notin Direct /\ info \in DOMAIN Width
  <2> DEFINE W == Width[info]
  <2>1. h = IF Accepted(after) THEN HeadOf(c, BigEndian(after.v), after.i) ELSE after
    BY <1>3, <1>5, FormatAssumption DEF HeadAt
  <2>2. W \in Nat \ {0} /\ 2 * (Len(b) + W) < Word
    BY <1>2, <1>3, <1>5, FormatAssumption
  <2>3. Signed(j + 1 + W) = j + 1 + W
    <3>1. j + 1 + W \in Nat /\ 2 * (j + 1 + W) < Word
      <4> HIDE DEF W
      <4>1. j + 1 <= Len(b) /\ j \in Nat
        BY <1>3
      <4> QED
        BY <1>3, <2>2, <4>1
    <3> QED
      BY <3>1, WordIsItself
  <2>4. after = IF j + 1 + W > Len(b) THEN Stop("short") ELSE Ok(SubSeq(b, (j + 1) + 1, j + 1 + W), j + 1 + W)
    <3>1. after = IF j + 1 + W > Len(b) THEN Stop("short") ELSE Slice(b, j + 1, j + 1 + W)
      <4>1. ~(W < 0)
        BY <2>2
      <4> HIDE DEF W
      <4>2. Take(b, j + 1, W) = IF j + 1 + W > Len(b) THEN Stop("short") ELSE Slice(b, j + 1, j + 1 + W)
        BY <4>1, <2>3 DEF Take
      <4> QED
        BY <4>2 DEF W
    <3>2. j + 1 <= j + 1 + W
      BY <2>2
    <3>3. ~(j + 1 + W > Len(b)) => j + 1 + W <= Len(b)
      BY <1>3, <2>2
    <3> HIDE DEF after, W
    <3> QED
      BY <3>1, <3>2, <3>3 DEF Slice
  <2> DEFINE arg == BigEndian(SubSeq(b, j + 2, j + 1 + W))
  <2>5. HeadsAt(b, j) = IF j + 1 + W <= Len(b) THEN {[arg |-> arg, to |-> j + 1 + W]} ELSE {}
    <3>1. HeadsAt(b, j) = {[arg |-> BigEndian(SubSeq(b, j + 2, j + 1 + Width[f])), to |-> j + 1 + Width[f]] :
            f \in {f \in DOMAIN Width \cap {info} : j + 1 + Width[f] <= Len(b)}}
      BY <1>5 DEF HeadsAt
    <3>2. {f \in DOMAIN Width \cap {info} : j + 1 + Width[f] <= Len(b)}
             = IF j + 1 + W <= Len(b) THEN {info} ELSE {}
      BY <1>5
    <3> DEFINE g(f) == [arg |-> BigEndian(SubSeq(b, j + 2, j + 1 + Width[f])), to |-> j + 1 + Width[f]]
    <3>3. g(info) = [arg |-> arg, to |-> j + 1 + W]
      OBVIOUS
    <3>4. HeadsAt(b, j) = {g(f) : f \in IF j + 1 + W <= Len(b) THEN {info} ELSE {}}
      BY <3>1, <3>2
    <3> HIDE DEF g, info, W, arg
    <3> QED
      BY <3>3, <3>4
  <2>6. CASE j + 1 + W > Len(b)
    <3>1. h.out = "short" /\ HeadsAt(b, j) = {}
      <4>1. after = Stop("short") /\ HeadsAt(b, j) = {}
        BY <1>3, <2>2, <2>4, <2>5, <2>6
      <4> QED
        BY <2>1, <4>1 DEF Stop, Accepted
    <3> QED
      BY <3>1 DEF Accepted
  <2>7. CASE j + 1 + W <= Len(b)
    <3>1. after = Ok(SubSeq(b, j + 2, j + 1 + W), j + 1 + W)
      <4>1. (j + 1) + 1 = j + 2 /\ ~(j + 1 + W > Len(b))
        BY <1>3, <2>2, <2>7
      <4> QED
        BY <2>4, <4>1
    <3>2. Accepted(h) /\ h.arg = arg /\ h.i = j + 1 + W
      <4>1. Accepted(after) /\ after.v = SubSeq(b, j + 2, j + 1 + W) /\ after.i = j + 1 + W
        BY <3>1 DEF Ok, Accepted
      <4>2. h = HeadOf(c, arg, j + 1 + W)
        BY <2>1, <4>1
      <4> HIDE DEF arg, h, W
      <4> QED
        BY <4>2 DEF Accepted, HeadOf
    <3> HIDE DEF h, arg, W
    <3>3. HeadsAt(b, j) = {Announced(h)}
      BY <2>5, <2>7, <3>2 DEF Announced
    <3> QED
      BY <3>2, <3>3 DEF h
  <2> QED
    BY <1>3, <2>2, <2>6, <2>7
<1>6. CASE info \notin Direct /\ info \notin DOMAIN Width
  <2>1. ~Accepted(h)
    BY <1>3, <1>6 DEF HeadAt, Stop, Accepted
  <2>2. HeadsAt(b, j) = {}
    BY <1>6 DEF HeadsAt
  <2> QED
    BY <2>1, <2>2
<1> QED
  BY <1>4, <1>5, <1>6

\* The items at j are one, are those with which a call that begins at p ends, or
\* are none.
Only(b, j, to, x)  == \A m, y : <<j, m, y>> \in Items(b) <=> m = to /\ y = x
Like(b, j, f, p)   == \A m, y : <<j, m, y>> \in Items(b) <=> Ends(b, f, p, m, y)
None(b, j)         == \A m, y : <<j, m, y>> \notin Items(b)

\* The items at a place are what may follow the head that HeadAt reads there.
LEMMA ItemsBehind ==
  ASSUME NEW b, IsInput(b), NEW j \in 0..Len(b)
  PROVE  /\ ~Accepted(HeadAt(b, j)) => None(b, j)
         /\ Accepted(HeadAt(b, j)) =>
              /\ j < Len(b) /\ j + 1 \in 1..Len(b)
              /\ HeadAt(b, j).major = b[j + 1] \div Infos
              /\ HeadAt(b, j).arg \in Nat /\ HeadAt(b, j).arg < Word
              /\ HeadAt(b, j).i \in (j + 1)..Len(b)
              /\ \A m, y : <<j, m, y>> \in Items(b) <=>
                   <<m, y>> \in Behind(b, Rows(b), HeadAt(b, j).major, Announced(HeadAt(b, j)))
<1> DEFINE h == HeadAt(b, j)
<1>1. PICK r \in Readers : \E whole \in Blobs[r] : Len(b) <= Len(whole)
  BY DEF IsInput
<1>2. PICK whole \in Blobs[r] : Len(b) <= Len(whole)
  BY <1>1
<1>3. b \in Strings /\ b \in Seq(Byte) /\ Len(b) \in Nat
  BY DEF IsInput
<1>4. Accepted(h) => /\ j < Len(b)
                     /\ h.major = b[j + 1] \div Infos
                     /\ h.arg \in Nat /\ h.arg < Word
                     /\ h.i \in (j + 1)..Len(b)
  BY <1>2, <1>3, HeadFacts
<1>5. \A m, y : <<j, m, y>> \in Items(b) <=>
        j < Len(b) /\ \E g \in HeadsAt(b, j) : <<m, y>> \in Behind(b, Rows(b), b[j + 1] \div Infos, g)
  <2>1. j \in 0..(Len(b) - 1) <=> j < Len(b)
    BY <1>3
  <2> QED
    BY <1>3, <2>1, ItemsRule
<1>6. ASSUME ~Accepted(h) PROVE None(b, j)
  <2>1. j < Len(b) => HeadsAt(b, j) = {}
    BY <1>6, HeadsAgree
  <2> QED
    BY <1>5, <2>1 DEF None
<1>7. ASSUME Accepted(h)
      PROVE  /\ j + 1 \in 1..Len(b)
             /\ \A m, y : <<j, m, y>> \in Items(b) <=>
                            <<m, y>> \in Behind(b, Rows(b), h.major, Announced(h))
  <2>1. HeadsAt(b, j) = {Announced(h)}
    BY <1>4, <1>7, HeadsAgree
  <2>2. j < Len(b) /\ b[j + 1] \div Infos = h.major /\ j + 1 \in 1..Len(b)
    BY <1>3, <1>4, <1>7
  <2> HIDE DEF h
  <2> QED
    BY <1>5, <2>1, <2>2
<1> QED
  BY <1>4, <1>6, <1>7

\* What ReadItem works with.
IsRead(b, j, h) ==
  /\ IsInput(b) /\ Len(b) \in Nat /\ j \in 0..Len(b) /\ j < Len(b)
  /\ h.arg \in Nat /\ h.arg < Word
  /\ h.i \in (j + 1)..Len(b)
  /\ \A m, y : <<j, m, y>> \in Items(b) <=>
       <<m, y>> \in Behind(b, Rows(b), h.major, Announced(h))

\* An argument is itself as an int, or less by a word.
LEMMA SignedArgument ==
  ASSUME NEW a \in Nat, a < Word
  PROVE  Signed(a) = IF 2 * a < Word THEN a ELSE a - Word
<1>1. Word \in Nat \ {0}
  BY FormatAssumption
<1>2. a % Word = a
  BY <1>1
<1> QED
  BY <1>1, <1>2 DEF Signed

\* -1 - int64(arg) is what is left of -1 - arg in an int64.
LEMMA SignedTwice ==
  ASSUME NEW a \in Nat, a < Word
  PROVE  Signed(-1 - Signed(a)) = Signed(-1 - a)
<1>1. Word \in Nat \ {0}
  BY FormatAssumption
<1>2. CASE 2 * a < Word
  BY <1>2, SignedArgument
<1>3. CASE ~(2 * a < Word)
  <2>1. -1 - Signed(a) = Word - 1 - a
    BY <1>1, <1>3, SignedArgument
  <2>2. (-1 - a) % Word = Word - 1 - a
    BY <1>1
  <2>3. (Word - 1 - a) % Word = Word - 1 - a
    BY <1>1
  <2> QED
    BY <2>1, <2>2, <2>3 DEF Signed
<1> QED
  BY <1>2, <1>3

\* Integers: where a number is read, it is the only item.
LEMMA NumberRead ==
  ASSUME NEW b, NEW j, NEW h, IsRead(b, j, h)
  PROVE  /\ h.major = 0 => Only(b, j, h.i, <<"int", Signed(h.arg)>>)
         /\ h.major = 1 => Only(b, j, h.i, <<"int", Signed(-1 - Signed(h.arg))>>)
<1>1. Signed(-1 - Signed(h.arg)) = Signed(-1 - h.arg)
  BY SignedTwice DEF IsRead
<1>2. h.major = 0 => Behind(b, Rows(b), h.major, Announced(h)) = {<<h.i, <<"int", Signed(h.arg)>>>>}
  BY DEF Behind, Announced
<1>3. h.major = 1 => Behind(b, Rows(b), h.major, Announced(h)) = {<<h.i, <<"int", Signed(-1 - h.arg)>>>>}
  BY DEF Behind, Announced
<1> QED
  BY <1>1, <1>2, <1>3 DEF IsRead, Only

\* Strings: the bytes announced, if they are there.
LEMMA StringRead ==
  ASSUME NEW b, NEW j, NEW h, IsRead(b, j, h), h.major \in {2, 3},
         NEW t, t = Take(b, h.i, Signed(h.arg))
  PROVE  /\ Accepted(t) => Only(b, j, t.i, <<IF h.major = 2 THEN "bytes" ELSE "text", t.v>>)
         /\ ~Accepted(t) => None(b, j)
<1> DEFINE a == h.arg
           p == h.i
           e == p + a
           tag == IF h.major = 2 THEN "bytes" ELSE "text"
<1>1. /\ a \in Nat /\ a < Word /\ Word \in Nat \ {0}
      /\ p \in Nat /\ p <= Len(b) /\ Len(b) \in Nat /\ b \in Seq(Byte)
  BY FormatAssumption DEF IsRead, IsInput
<1>2. 2 * Len(b) < Word
  <2>1. PICK r \in Readers : \E whole \in Blobs[r] : Len(b) <= Len(whole)
    BY DEF IsRead, IsInput
  <2>2. PICK whole \in Blobs[r] : Len(b) <= Len(whole)
    BY <2>1
  <2>3. 2 * (Len(whole) + Room) < Word /\ Room \in Nat /\ Len(whole) \in Nat
    BY SizeAssumption
  <2> QED
    BY <1>1, <2>2, <2>3
<1>3. Signed(h.arg) = IF 2 * a < Word THEN a ELSE a - Word
  BY <1>1, SignedArgument
<1>4. Behind(b, Rows(b), h.major, Announced(h)) =
        {<<to, <<tag, SubSeq(b, p + 1, to)>>>> : to \in {e} \cap 0..Len(b)}
  BY DEF Behind, Announced
<1>5. IF 2 * a < Word THEN t = Take(b, p, a) ELSE t.out = "refused"
  <2>1. ~(2 * a < Word) => Signed(h.arg) < 0
    BY <1>1, <1>3
  <2> QED
    BY <1>3, <2>1 DEF Take, Stop
<1> HIDE DEF a, p, tag
<1>6. CASE e <= Len(b)
  <2>1. e \in Nat /\ 2 * e < Word
    BY <1>1, <1>2, <1>6
  <2>2. Signed(e) = e
    BY <2>1, WordIsItself
  <2>3. ~(a < 0) /\ ~(e > Len(b)) /\ p <= e
    BY <1>1, <1>6
  <2>4. t = Slice(b, p, e)
    <3>1. 2 * a < Word
      BY <1>1, <2>1
    <3> QED
      BY <1>5, <2>2, <2>3, <3>1 DEF Take
  <2>5. t = Ok(SubSeq(b, p + 1, e), e)
    BY <1>6, <2>3, <2>4 DEF Slice
  <2>6. Accepted(t) /\ t.v = SubSeq(b, p + 1, e) /\ t.i = e
    <3> DEFINE cut == SubSeq(b, p + 1, e)
    <3>1. t = Ok(cut, e)
      BY <2>5
    <3> HIDE DEF cut, e
    <3>2. Accepted(t) /\ t.v = cut /\ t.i = e
      BY <3>1 DEF Ok, Accepted
    <3> QED
      BY <3>2 DEF cut
  <2>7. {e} \cap 0..Len(b) = {e}
    BY <1>1, <1>6, <2>1
  <2> HIDE DEF e
  <2>8. Behind(b, Rows(b), h.major, Announced(h)) = {<<e, <<tag, SubSeq(b, p + 1, e)>>>>}
    BY <1>4, <2>7
  <2>9. \A m, y : <<j, m, y>> \in Items(b) <=> m = e /\ y = <<tag, SubSeq(b, p + 1, e)>>
    BY <2>8 DEF IsRead
  <2> QED
    BY <2>6, <2>9 DEF Only, tag
<1>7. CASE ~(e <= Len(b))
  <2>1. {e} \cap 0..Len(b) = {}
    BY <1>1, <1>7
  <2>2. Behind(b, Rows(b), h.major, Announced(h)) = {}
    <3> HIDE DEF e
    <3> QED
      BY <1>4, <2>1
  <2>3. None(b, j)
    BY <2>2 DEF IsRead, None
  <2>4. ~Accepted(t)
    <3> SUFFICES ASSUME Accepted(t) PROVE FALSE
      OBVIOUS
    <3>0. 2 * a < Word /\ t = Take(b, p, a)
      BY <1>5 DEF Accepted
    <3>1. t.i \in p..Len(b) /\ Signed(p + a) = t.i
      BY <1>1, <3>0, TakeFacts
    <3>2. e \in Nat /\ e % Word = e /\ e < Word
      BY <1>1, <1>2, <3>0
    <3> HIDE DEF e
    <3>3. Signed(e) = e \/ Signed(e) = e - Word
      BY <3>2 DEF Signed
    <3>4. t.i = e
      BY <1>1, <3>1, <3>2, <3>3 DEF e
    <3> QED
      BY <1>1, <1>7, <3>1, <3>4
  <2> QED
    BY <2>3, <2>4
<1> QED
  BY <1>6, <1>7

\* No row has more items than the bytes, so neither has one what no memory holds.
LEMMA RowsAreShort ==
  ASSUME NEW b \in Strings, NEW p, NEW q, NEW w, <<p, q, w>> \in Rows(b)
  PROVE  Len(w) \in Nat /\ Len(w) <= Room /\ p \in 0..Len(b) /\ Room \in Nat
<1>1. /\ p \in 0..Len(b) /\ q \in p..Len(b) /\ Len(w) \in Nat /\ Len(w) <= q - p
  BY RowTyped
<1>2. Len(b) <= Room /\ Room \in Nat
  BY RoomAssumption, SizeAssumption
<1>3. Len(b) \in Int
  <2>1. q \in Int /\ p..Len(b) # {}
    BY <1>1
  <2> QED
    BY <1>2
<1> QED
  BY <1>1, <1>2, <1>3

\* Arrays: an item is a row as long as announced, and none if it cannot be had.
LEMMA ArrayRead ==
  ASSUME NEW b, NEW j, NEW h, IsRead(b, j, h), h.major = 4
  PROVE  /\ Make(h.arg) => Like(b, j, ArrayFrame(h.arg), h.i)
         /\ ~Make(h.arg) => None(b, j)
<1>1. b \in Strings /\ h.arg \in Nat
  BY DEF IsRead, IsInput
<1>2. \A m, y : <<j, m, y>> \in Items(b) <=>
        \E w : <<h.i, m, w>> \in Rows(b) /\ Len(w) = h.arg /\ y = <<"array", w>>
  <2> TAKE m, y
  <2> DEFINE Fit(w) == Len(w) = h.arg
  <2>1. Behind(b, Rows(b), h.major, Announced(h)) =
          {<<r[2], <<"array", r[3]>>>> : r \in {r \in Rows(b) : r[1] = h.i /\ Fit(r[3])}}
    BY DEF Behind, Announced, From, To, What
  <2> HIDE DEF Fit
  <2>2. <<j, m, y>> \in Items(b) <=>
          \E r \in Rows(b) : r[1] = h.i /\ Fit(r[3]) /\ <<m, y>> = <<r[2], <<"array", r[3]>>>>
    <3>1. <<j, m, y>> \in Items(b) <=> <<m, y>> \in Behind(b, Rows(b), h.major, Announced(h))
      BY DEF IsRead
    <3> QED
      BY <2>1, <3>1
  <2>3. ASSUME NEW r \in Rows(b), r[1] = h.i, Fit(r[3]), <<m, y>> = <<r[2], <<"array", r[3]>>>>
        PROVE  <<h.i, m, r[3]>> \in Rows(b) /\ y = <<"array", r[3]>>
    <3>1. r = <<r[1], r[2], r[3]>> /\ m = r[2] /\ y = <<"array", r[3]>>
      BY <1>1, <2>3, RowsAreTriples
    <3> QED
      BY <2>3, <3>1
  <2>4. ASSUME NEW w, <<h.i, m, w>> \in Rows(b), Fit(w), y = <<"array", w>>
        PROVE  \E r \in Rows(b) : r[1] = h.i /\ Fit(r[3]) /\ <<m, y>> = <<r[2], <<"array", r[3]>>>>
    <3> DEFINE r == <<h.i, m, w>>
    <3>1. r[1] = h.i /\ r[2] = m /\ r[3] = w /\ r \in Rows(b)
      BY <2>4
    <3> HIDE DEF r
    <3> QED
      BY <2>4, <3>1
  <2>5. <<j, m, y>> \in Items(b) <=>
          \E w : <<h.i, m, w>> \in Rows(b) /\ Fit(w) /\ y = <<"array", w>>
    BY <2>2, <2>3, <2>4
  <2> QED
    BY <2>5 DEF Fit
<1>3. \A m, y : Ends(b, ArrayFrame(h.arg), h.i, m, y) <=> ArrayFrom(b, h.arg, h.i, m, y)
  BY <1>1, OpenedArray
<1>4. ASSUME ~Make(h.arg) PROVE \A m, y : ~ArrayFrom(b, h.arg, h.i, m, y)
  BY <1>1, <1>4, RowsAreShort DEF Make, ArrayFrom
<1>5. \A m, y : <<j, m, y>> \in Items(b) <=> ArrayFrom(b, h.arg, h.i, m, y)
  BY <1>2 DEF ArrayFrom
<1> QED
  BY <1>3, <1>4, <1>5 DEF Like, None

\* Maps: an item is the table of a row of pairs.
LEMMA MapRead ==
  ASSUME NEW b, NEW j, NEW h, IsRead(b, j, h), h.major = 5
  PROVE  /\ MakeMap(h.arg) => Like(b, j, MapFrame(h.arg), h.i)
         /\ ~MakeMap(h.arg) => None(b, j)
<1>1. b \in Strings /\ h.arg \in Nat
  BY DEF IsRead, IsInput
<1>2. \A m, y : <<j, m, y>> \in Items(b) <=>
        \E w : <<h.i, m, w>> \in Rows(b) /\ Len(w) = 2 * h.arg /\ Keyed(w) /\ y = <<"map", Table(w)>>
  <2> TAKE m, y
  <2> DEFINE Fit(w) == Len(w) = 2 * h.arg /\ Keyed(w)
  <2>1. Behind(b, Rows(b), h.major, Announced(h)) =
          {<<r[2], <<"map", Table(r[3])>>>> : r \in {r \in Rows(b) : r[1] = h.i /\ Fit(r[3])}}
    BY DEF Behind, Announced, From, To, What
  <2> HIDE DEF Fit
  <2>2. <<j, m, y>> \in Items(b) <=>
          \E r \in Rows(b) : r[1] = h.i /\ Fit(r[3]) /\ <<m, y>> = <<r[2], <<"map", Table(r[3])>>>>
    BY <2>1 DEF IsRead
  <2>3. ASSUME NEW r \in Rows(b), r[1] = h.i, Fit(r[3]), <<m, y>> = <<r[2], <<"map", Table(r[3])>>>>
        PROVE  <<h.i, m, r[3]>> \in Rows(b) /\ y = <<"map", Table(r[3])>>
    <3>1. r = <<r[1], r[2], r[3]>> /\ m = r[2] /\ y = <<"map", Table(r[3])>>
      BY <1>1, <2>3, RowsAreTriples
    <3> QED
      BY <2>3, <3>1
  <2>4. ASSUME NEW w, <<h.i, m, w>> \in Rows(b), Fit(w), y = <<"map", Table(w)>>
        PROVE  \E r \in Rows(b) : r[1] = h.i /\ Fit(r[3]) /\ <<m, y>> = <<r[2], <<"map", Table(r[3])>>>>
    <3> DEFINE r == <<h.i, m, w>>
    <3>1. r[1] = h.i /\ r[2] = m /\ r[3] = w /\ r \in Rows(b)
      BY <2>4
    <3> HIDE DEF r
    <3> QED
      BY <2>4, <3>1
  <2>5. <<j, m, y>> \in Items(b) <=>
          \E w : <<h.i, m, w>> \in Rows(b) /\ Fit(w) /\ y = <<"map", Table(w)>>
    BY <2>2, <2>3, <2>4
  <2> QED
    BY <2>5 DEF Fit
<1>3. \A m, y : Ends(b, MapFrame(h.arg), h.i, m, y) <=> MapFrom(b, h.arg, h.i, m, y)
  BY <1>1, OpenedMap
<1>4. ASSUME ~MakeMap(h.arg) PROVE \A m, y : ~MapFrom(b, h.arg, h.i, m, y)
  <2> SUFFICES ASSUME NEW w, NEW m, <<h.i, m, w>> \in Rows(b), Len(w) = 2 * h.arg PROVE FALSE
    BY DEF MapFrom
  <2>1. ~(h.arg <= Room)
    BY <1>4 DEF MakeMap
  <2>2. Len(w) <= Room /\ Room \in Nat
    BY <1>1, RowsAreShort
  <2> QED
    BY <1>1, <2>1, <2>2
<1>5. \A m, y : <<j, m, y>> \in Items(b) <=> MapFrom(b, h.arg, h.i, m, y)
  BY <1>2 DEF MapFrom
<1> QED
  BY <1>3, <1>4, <1>5 DEF Like, None

\* false, true and null.
LEMMA SimpleRead ==
  ASSUME NEW b, NEW j, NEW h, IsRead(b, j, h), h.major = 7, h.arg \in DOMAIN Simple
  PROVE  Only(b, j, h.i, <<"simple", Simple[h.arg]>>)
<1>1. Behind(b, Rows(b), h.major, Announced(h)) = {<<h.i, <<"simple", Simple[h.arg]>>>>}
  BY DEF Behind, Announced
<1> QED
  BY <1>1 DEF IsRead, Only

\* Of what the decoder does not support, the grammar has no item.
LEMMA UnsupportedRead ==
  ASSUME NEW b, NEW j, NEW h, IsRead(b, j, h), h.major \notin 0..5,
         ~(h.major = 7 /\ h.arg \in DOMAIN Simple)
  PROVE  None(b, j)
<1>1. Behind(b, Rows(b), h.major, Announced(h)) = {}
  BY DEF Behind, Announced
<1> QED
  BY <1>1 DEF IsRead, None

-----------------------------------------------------------------------------
(* What a step makes of what the rest can come to: nothing.                *)

\* Before and after a step the same ends are possible.
SameEnds(b, s, hd, at, t, hd2, at2) ==
  \A n, v : Completes(b, s, hd, at, n, v) <=> Completes(b, t, hd2, at2, n, v)
NoEnd(b, s, hd, at) == \A n, v : ~Completes(b, s, hd, at, n, v)

Wants(s) == AreCalls(s) /\ (s # <<>> => s[Len(s)].left # 0)

\* Where no item begins, the calls come to nothing.
LEMMA NoneIsNoEnd ==
  ASSUME NEW b \in Strings, NEW s, Wants(s), NEW j \in 0..Len(b), None(b, j)
  PROVE  NoEnd(b, s, Nothing, j)
<1>1. \A n, v : Completes(b, s, Nothing, j, n, v) <=> Onward(b, s, j, n, v)
  BY NextItem DEF Wants
<1>2. \A n, v : ~Onward(b, s, j, n, v)
  BY DEF Onward, None
<1> QED
  BY <1>1, <1>2 DEF NoEnd

\* Where one item begins, having read it comes to the same.
LEMMA OnlyIsHanded ==
  ASSUME NEW b \in Strings, NEW s, Wants(s), NEW j \in 0..Len(b), NEW to, NEW x, x # Nothing,
         Only(b, j, to, x)
  PROVE  SameEnds(b, s, Nothing, j, s, x, to)
<1> SUFFICES ASSUME NEW n, NEW v
             PROVE  Completes(b, s, Nothing, j, n, v) <=> Completes(b, s, x, to, n, v)
  BY DEF SameEnds
<1>1. Completes(b, s, Nothing, j, n, v) <=> Onward(b, s, j, n, v)
  BY NextItem DEF Wants
<1>2. Completes(b, s, x, to, n, v) <=> Below(b, s, Len(s), to, x, n, v)
  BY DEF Completes
<1>3. Onward(b, s, j, n, v) <=> Below(b, s, Len(s), to, x, n, v)
  <2>1. <<j, to, x>> \in Items(b)
    BY DEF Only
  <2>2. \A m, y : <<j, m, y>> \in Items(b) => m = to /\ y = x
    BY DEF Only
  <2>3. Below(b, s, Len(s), to, x, n, v) => Onward(b, s, j, n, v)
    BY <2>1 DEF Onward
  <2>4. Onward(b, s, j, n, v) => Below(b, s, Len(s), to, x, n, v)
    BY <2>2 DEF Onward
  <2> QED
    BY <2>3, <2>4
<1> QED
  BY <1>1, <1>2, <1>3

\* Where an array or a map begins, so does having opened it.
LEMMA LikeIsOpened ==
  ASSUME NEW b \in Strings, NEW s, Wants(s), NEW j \in 0..Len(b), NEW f, IsCall(f), NEW p,
         Like(b, j, f, p)
  PROVE  SameEnds(b, s, Nothing, j, Append(s, f), Nothing, p)
<1> SUFFICES ASSUME NEW n, NEW v
             PROVE  Completes(b, s, Nothing, j, n, v) <=> Completes(b, Append(s, f), Nothing, p, n, v)
  BY DEF SameEnds
<1> DEFINE t == Append(s, f)
           L == Len(s)
<1>1. /\ Len(t) = L + 1 /\ L \in Nat
      /\ \A d \in 1..L : t[d] = s[d]
      /\ t[L + 1] = f
  BY PushedStack DEF Wants, AreCalls, IsCall
<1>2. t # <<>> /\ (L + 1) - 1 = L
  BY <1>1, EmptySeq
<1> HIDE DEF t, L
<1>3. \A m, y : Below(b, t, L, m, y, n, v) <=> Below(b, s, L, m, y, n, v)
  BY <1>1, BelowAgree
<1>4. Completes(b, s, Nothing, j, n, v) <=> Onward(b, s, j, n, v)
  BY NextItem DEF Wants
<1>5. Completes(b, t, Nothing, p, n, v) <=>
        \E m, y : Ends(b, f, p, m, y) /\ Below(b, t, L, m, y, n, v)
  BY <1>1, <1>2 DEF Completes
<1>6. Onward(b, s, j, n, v) <=> \E m, y : Ends(b, f, p, m, y) /\ Below(b, s, L, m, y, n, v)
  BY DEF Onward, Like, L
<1>7. Completes(b, s, Nothing, j, n, v) <=> Completes(b, t, Nothing, p, n, v)
  BY <1>3, <1>4, <1>5, <1>6
<1> QED
  BY <1>7 DEF t

\* Storing an item comes to the same as taking it; what takes none, to nothing.
LEMMA HandedIsTaken ==
  ASSUME NEW b \in Strings, NEW s, AreCalls(s), s # <<>>, NEW hd, hd # Nothing, NEW at
  PROVE  /\ \A g : /\ IsCall(g)
                   /\ \A q, y : Ends(b, g, at, q, y) <=> Takes(b, s[Len(s)], at, hd, q, y)
                   => SameEnds(b, s, hd, at, WithTop(s, g), Nothing, at)
         /\ (\A q, y : ~Takes(b, s[Len(s)], at, hd, q, y)) => NoEnd(b, s, hd, at)
<1> DEFINE L == Len(s)
           f == s[L]
<1>1. L \in Nat \ {0}
  BY EmptySeq DEF AreCalls, IsStack
<1>2. \A n, v : Completes(b, s, hd, at, n, v) <=> Below(b, s, L, at, hd, n, v)
  BY DEF Completes
<1>3. \A n, v : Below(b, s, L, at, hd, n, v) <=>
                  \E q, y : Takes(b, f, at, hd, q, y) /\ Below(b, s, L - 1, q, y, n, v)
  BY <1>1, BelowTop
<1>4. ASSUME NEW g, IsCall(g), \A q, y : Ends(b, g, at, q, y) <=> Takes(b, f, at, hd, q, y)
      PROVE  SameEnds(b, s, hd, at, WithTop(s, g), Nothing, at)
  <2> DEFINE t == WithTop(s, g)
  <2>1. Len(t) = L /\ \A d \in 1..L : t[d] = IF d = L THEN g ELSE s[d]
    BY <1>4, ChangedStack DEF AreCalls, IsCall
  <2> HIDE DEF t, f, L
  <2>2. t # <<>> /\ t[L] = g /\ \A d \in 1..(L - 1) : t[d] = s[d]
    <3>1. t # <<>>
      BY <1>1, <2>1, EmptySeq
    <3>2. L \in 1..L /\ \A d \in 1..(L - 1) : d \in 1..L /\ d # L
      BY <1>1
    <3> QED
      BY <2>1, <3>1, <3>2
  <2>3. L - 1 \in Nat
    BY <1>1
  <2>4. \A n, v, q, y : Below(b, t, L - 1, q, y, n, v) <=> Below(b, s, L - 1, q, y, n, v)
    BY <2>2, <2>3, BelowAgree
  <2>5. \A n, v : Completes(b, t, Nothing, at, n, v) <=>
                    \E q, y : Ends(b, g, at, q, y) /\ Below(b, t, L - 1, q, y, n, v)
    BY <2>1, <2>2 DEF Completes
  <2> QED
    BY <1>2, <1>3, <1>4, <2>4, <2>5 DEF SameEnds, t
<1>5. ASSUME \A q, y : ~Takes(b, f, at, hd, q, y) PROVE NoEnd(b, s, hd, at)
  BY <1>2, <1>3, <1>5 DEF NoEnd
<1> QED
  BY <1>4, <1>5

\* The calls that are left when the innermost one returns.
LEMMA PoppedCalls ==
  ASSUME NEW s, AreCalls(s), s # <<>>, NEW t, t = SubSeq(s, 1, Len(s) - 1)
  PROVE  Len(t) = Len(s) - 1 /\ \A d \in 1..(Len(s) - 1) : t[d] = s[d]
<1>1. IsStack(s)
  BY DEF AreCalls
<1>2. /\ Len(t) = Len(s) - 1
      /\ \A d \in 1..Len(t) : t[d] = s[d]
  BY <1>1, PoppedStack
<1> QED
  BY <1>2

\* A call whose loop is over comes to what it hands on.
LEMMA ClosedIsHanded ==
  ASSUME NEW b \in Strings, NEW s, AreCalls(s), s # <<>>, s[Len(s)].left = 0, NEW at \in 0..Len(b),
         NEW hd, hd = <<s[Len(s)].kind, s[Len(s)].items>>, hd # Nothing,
         NEW t, t = SubSeq(s, 1, Len(s) - 1)
  PROVE  SameEnds(b, s, Nothing, at, t, hd, at)
<1> SUFFICES ASSUME NEW n, NEW v
             PROVE  Completes(b, s, Nothing, at, n, v) <=> Completes(b, t, hd, at, n, v)
  BY DEF SameEnds
<1> DEFINE L == Len(s)
           f == s[L]
<1>1. L \in Nat \ {0} /\ L \in 1..L
  BY EmptySeq DEF AreCalls, IsStack
<1>2. IsCall(f)
  BY <1>1 DEF AreCalls
<1>3. Len(t) = L - 1 /\ \A d \in 1..(L - 1) : t[d] = s[d]
  BY PoppedCalls
<1> HIDE DEF f, L
<1>4. \A q, y : Ends(b, f, at, q, y) <=> q = at /\ y = hd
  BY <1>2, EndsAtOnce DEF f, L
<1>5. Completes(b, s, Nothing, at, n, v) <=>
        \E q, y : Ends(b, f, at, q, y) /\ Below(b, s, L - 1, q, y, n, v)
  BY DEF Completes, f, L
<1>6. Completes(b, t, hd, at, n, v) <=> Below(b, t, L - 1, at, hd, n, v)
  BY <1>3 DEF Completes
<1>7. Below(b, t, L - 1, at, hd, n, v) <=> Below(b, s, L - 1, at, hd, n, v)
  <2>1. L - 1 \in Nat /\ \A d \in 1..(L - 1) : t[d] = s[d]
    BY <1>1, <1>3
  <2> DEFINE M == L - 1
  <2> HIDE DEF M
  <2>2. M \in Nat /\ \A d \in 1..M : t[d] = s[d]
    BY <2>1 DEF M
  <2>3. Below(b, t, M, at, hd, n, v) <=> Below(b, s, M, at, hd, n, v)
    BY <2>2, BelowAgree
  <2> QED
    BY <2>3 DEF M
<1>8. Completes(b, s, Nothing, at, n, v) <=> Below(b, s, L - 1, at, hd, n, v)
  <2>1. Ends(b, f, at, at, hd)
    BY <1>4
  <2>2. \A q, y : Ends(b, f, at, q, y) => q = at /\ y = hd
    BY <1>4
  <2>3. Completes(b, s, Nothing, at, n, v) => Below(b, s, L - 1, at, hd, n, v)
    BY <1>5, <2>2
  <2>4. Below(b, s, L - 1, at, hd, n, v) => Completes(b, s, Nothing, at, n, v)
    BY <1>5, <2>1
  <2> QED
    BY <2>3, <2>4
<1> QED
  BY <1>6, <1>7, <1>8

-----------------------------------------------------------------------------
(* What each action makes of it.                                           *)

Alive == pc = "item" \/ (stack = <<>> /\ hand # Nothing)

\* A step keeps what the rest can come to, or ends where it came to nothing.
Faithful ==
  \/ Alive' /\ SameEnds(rest, stack, hand, i, stack', hand', i')
  \/ ~Alive' /\ NoEnd(rest, stack, hand, i)

\* Calls stay calls when one opens, gets on or returns.
LEMMA MoreCalls ==
  ASSUME NEW s, AreCalls(s), NEW f, IsCall(f)
  PROVE  /\ AreCalls(Append(s, f))
         /\ s # <<>> => AreCalls(WithTop(s, f)) /\ AreCalls(SubSeq(s, 1, Len(s) - 1))
<1>1. IsStack(s) /\ IsFrame(f) /\ Len(s) \in Nat
  BY LenProperties DEF AreCalls, IsCall, IsStack
<1>2. AreCalls(Append(s, f))
  <2> DEFINE t == Append(s, f)
  <2>1. IsStack(t) /\ Len(t) = Len(s) + 1 /\ (\A d \in 1..Len(s) : t[d] = s[d]) /\ t[Len(s) + 1] = f
    BY <1>1, PushedStack
  <2> HIDE DEF t
  <2>2. \A d \in 1..Len(t) : d \in 1..Len(s) \/ d = Len(s) + 1
    BY <1>1, <2>1
  <2>3. \A d \in 1..Len(t) : IsCall(t[d])
    BY <2>1, <2>2 DEF AreCalls
  <2> QED
    BY <2>1, <2>3 DEF AreCalls, t
<1>3. ASSUME s # <<>> PROVE AreCalls(WithTop(s, f))
  <2> DEFINE t == WithTop(s, f)
  <2>1. IsStack(t) /\ Len(t) = Len(s) /\ \A d \in 1..Len(s) : t[d] = IF d = Len(s) THEN f ELSE s[d]
    BY <1>1, <1>3, ChangedStack
  <2> HIDE DEF t
  <2>2. \A d \in 1..Len(t) : IsCall(t[d])
    BY <2>1 DEF AreCalls
  <2> QED
    BY <2>1, <2>2 DEF AreCalls, t
<1>4. ASSUME s # <<>> PROVE AreCalls(SubSeq(s, 1, Len(s) - 1))
  <2> DEFINE t == SubSeq(s, 1, Len(s) - 1)
  <2>1. IsStack(t) /\ Len(t) = Len(s) - 1 /\ \A d \in 1..Len(t) : t[d] = s[d]
    BY <1>1, <1>4, PoppedStack
  <2> HIDE DEF t
  <2>2. \A d \in 1..Len(t) : d \in 1..Len(s)
    BY <1>1, <2>1
  <2>3. \A d \in 1..Len(t) : IsCall(t[d])
    BY <2>1, <2>2 DEF AreCalls
  <2> QED
    BY <2>1, <2>3 DEF AreCalls, t
<1> QED
  BY <1>2, <1>3, <1>4

\* A decoder may give up when its calls come to nothing.
LEMMA EndsMean ==
  ASSUME NEW how \in {"refused", "short", "panic"}, End(how), stack # <<>> \/ hand = Nothing,
         NoEnd(rest, stack, hand, i)
  PROVE  Faithful
BY DEF Faithful, Alive, End

\* Reading keeps what the input can come to.
LEMMA ReadMeans ==
  ASSUME TypeOK, rest \in Strings, AreCalls(stack), ReadItem
  PROVE  Faithful
<1> DEFINE h == HeadAt(rest, i)
<1>1. /\ rest \in Seq(Byte) /\ Len(rest) \in Nat /\ i \in 0..Len(rest) /\ rest \in Strings
      /\ IsInput(rest)
  BY RestTyped DEF IsInput
<1>2. pc = "item" /\ hand = Nothing /\ Wants(stack)
  BY DEF ReadItem, Wants, Top
<1>3. /\ h.out \in {"value", "refused", "short"}
      /\ ~Accepted(h) => None(rest, i)
      /\ Accepted(h) => IsRead(rest, i, h)
  <2>1. h.out \in {"value", "refused", "short"}
    BY RestTyped, HeadFacts
  <2>2. ~Accepted(h) => None(rest, i)
    BY <1>1, ItemsBehind
  <2>3. Accepted(h) => IsRead(rest, i, h)
    BY <1>1, ItemsBehind DEF IsRead
  <2> QED
    BY <2>1, <2>2, <2>3
<1>4. \/ ~Accepted(h) /\ End(h.out)
      \/ /\ Accepted(h)
         /\ \/ ReadNumber(h) \/ ReadString(h) \/ OpenArray(h) \/ OpenMap(h)
            \/ ReadSimple(h) \/ Unsupported(h)
  BY DEF ReadItem
<1> HIDE DEF h
<1>5. None(rest, i) => NoEnd(rest, stack, hand, i)
  BY <1>1, <1>2, NoneIsNoEnd
<1>6. ASSUME NEW how \in {"refused", "short", "panic"}, End(how), None(rest, i) PROVE Faithful
  BY <1>2, <1>5, <1>6, EndsMean
<1>7. ASSUME NEW k \in Kinds, NEW v, NEW j, Yield(<<k, v>>, j), Only(rest, i, j, <<k, v>>)
      PROVE  Faithful
  <2>1. <<k, v>> # Nothing
    BY TupleItem
  <2>2. SameEnds(rest, stack, Nothing, i, stack, <<k, v>>, j)
    <3> DEFINE x == <<k, v>>
    <3> HIDE DEF x
    <3>1. x # Nothing /\ Only(rest, i, j, x)
      BY <1>7, <2>1 DEF x
    <3>2. SameEnds(rest, stack, Nothing, i, stack, x, j)
      BY <1>1, <1>2, <3>1, OnlyIsHanded
    <3> QED
      BY <3>2 DEF x
  <2>3. hand' = <<k, v>> /\ i' = j /\ stack' = stack /\ pc' = "item"
    BY <1>2, <1>7 DEF Yield
  <2> QED
    BY <1>2, <2>2, <2>3 DEF Faithful, Alive
<1>8. ASSUME NEW f, IsCall(f), NEW j, Push(f, j), Like(rest, i, f, j) PROVE Faithful
  <2>1. SameEnds(rest, stack, Nothing, i, Append(stack, f), Nothing, j)
    BY <1>1, <1>2, <1>8, LikeIsOpened
  <2>2. hand' = Nothing /\ i' = j /\ stack' = Append(stack, f) /\ pc' = "item"
    BY <1>2, <1>8 DEF Push
  <2> QED
    BY <1>2, <2>1, <2>2 DEF Faithful, Alive
<1>9. \A v : Accepted(v) <=> v.out = "value"
  BY DEF Accepted
<1>10. CASE ~Accepted(h) /\ End(h.out)
  BY <1>3, <1>6, <1>9, <1>10
<1>11. CASE Accepted(h) /\ ReadNumber(h)
  <2>1. /\ h.major = 0 => Only(rest, i, h.i, <<"int", Signed(h.arg)>>)
        /\ h.major = 1 => Only(rest, i, h.i, <<"int", Signed(-1 - Signed(h.arg))>>)
    BY <1>3, <1>11, NumberRead
  <2>2. \/ h.major = 0 /\ Yield(<<"int", Signed(h.arg)>>, h.i)
        \/ h.major = 1 /\ Yield(<<"int", Signed(-1 - Signed(h.arg))>>, h.i)
    BY <1>11 DEF ReadNumber
  <2>3. "int" \in Kinds
    BY DEF Kinds
  <2> QED
    BY <1>7, <2>1, <2>2, <2>3
<1>12. CASE Accepted(h) /\ ReadString(h)
  <2> DEFINE t == Take(rest, h.i, Signed(h.arg))
             tag == IF h.major = 2 THEN "bytes" ELSE "text"
  <2>1. /\ h.major \in {2, 3}
        /\ \/ Accepted(t) /\ Yield(<<tag, t.v>>, t.i)
           \/ ~Accepted(t) /\ End(t.out)
    BY <1>12 DEF ReadString
  <2>2. /\ Accepted(t) => Only(rest, i, t.i, <<tag, t.v>>)
        /\ ~Accepted(t) => None(rest, i)
    BY <1>3, <1>12, <2>1, StringRead
  <2>3. t.out \in {"value", "refused", "short", "panic"}
    <3>1. Signed(h.arg) \in Int /\ h.i \in 0..Len(rest)
      <4>1. h.arg \in Int /\ h.i \in (i + 1)..Len(rest)
        BY <1>3, <1>12 DEF IsRead
      <4>2. Signed(h.arg) \in Int
        BY <4>1, SignedInt
      <4> QED
        BY <1>1, <4>1, <4>2
    <3> QED
      BY <1>1, <3>1, TakeFacts
  <2>4. tag \in Kinds
    BY DEF Kinds
  <2> HIDE DEF t, tag
  <2> QED
    BY <1>6, <1>7, <1>9, <2>1, <2>2, <2>3, <2>4
<1>13. CASE Accepted(h) /\ OpenArray(h)
  <2>1. h.major = 4 /\ IF Make(h.arg) THEN Push(ArrayFrame(h.arg), h.i) ELSE End("panic")
    BY <1>13 DEF OpenArray
  <2>2. h.arg \in Nat
    BY <1>3, <1>13 DEF IsRead
  <2>3. /\ Make(h.arg) => Like(rest, i, ArrayFrame(h.arg), h.i)
        /\ ~Make(h.arg) => None(rest, i)
    BY <1>3, <1>13, <2>1, ArrayRead
  <2>4. IsCall(ArrayFrame(h.arg))
    BY <1>1, <2>2, OpenedArray
  <2> QED
    BY <1>6, <1>8, <2>1, <2>3, <2>4
<1>14. CASE Accepted(h) /\ OpenMap(h)
  <2>1. h.major = 5 /\ IF MakeMap(h.arg) THEN Push(MapFrame(h.arg), h.i) ELSE End("panic")
    BY <1>14 DEF OpenMap
  <2>2. h.arg \in Nat
    BY <1>3, <1>14 DEF IsRead
  <2>3. /\ MakeMap(h.arg) => Like(rest, i, MapFrame(h.arg), h.i)
        /\ ~MakeMap(h.arg) => None(rest, i)
    BY <1>3, <1>14, <2>1, MapRead
  <2>4. IsCall(MapFrame(h.arg))
    BY <1>1, <2>2, OpenedMap
  <2> QED
    BY <1>6, <1>8, <2>1, <2>3, <2>4
<1>15. CASE Accepted(h) /\ ReadSimple(h)
  <2>1. h.major = 7 /\ h.arg \in DOMAIN Simple /\ Yield(<<"simple", Simple[h.arg]>>, h.i)
    BY <1>15 DEF ReadSimple
  <2>2. Only(rest, i, h.i, <<"simple", Simple[h.arg]>>)
    BY <1>3, <1>15, <2>1, SimpleRead
  <2>3. "simple" \in Kinds
    BY DEF Kinds
  <2> QED
    BY <1>7, <2>1, <2>2, <2>3
<1>16. CASE Accepted(h) /\ Unsupported(h)
  BY <1>3, <1>6, <1>16, UnsupportedRead DEF Unsupported
<1> QED
  BY <1>4, <1>10, <1>11, <1>12, <1>13, <1>14, <1>15, <1>16

\* So does storing, whichever of the three it is.
LEMMA StoreMeans ==
  ASSUME Started, rest \in Strings, AreCalls(stack), StoreElement \/ StoreKey \/ StoreEntry
  PROVE  Faithful /\ AreCalls(stack')
<1> DEFINE f == Top
<1>1. pc = "item" /\ hand # Nothing /\ stack # <<>> /\ IsItem(hand)
  BY DEF StoreElement, StoreKey, StoreEntry, Awaited, Started, TypeOK
<1>2. IsCall(f) /\ f.left # 0 /\ f = stack[Len(stack)]
  <2>1. Len(stack) \in 1..Len(stack)
    BY <1>1, EmptySeq DEF AreCalls, IsStack
  <2> QED
    BY <1>1, <2>1 DEF Top, AreCalls, Started, Busy
<1>3. ASSUME NEW g, IsCall(g), SetTop(g), Resume,
             \A q, y : Ends(rest, g, i, q, y) <=> Takes(rest, f, i, hand, q, y)
      PROVE  Faithful /\ AreCalls(stack')
  <2>1. SameEnds(rest, stack, hand, i, WithTop(stack, g), Nothing, i)
    BY <1>1, <1>2, <1>3, HandedIsTaken
  <2>2. stack' = WithTop(stack, g) /\ hand' = Nothing /\ i' = i /\ pc' = "item"
    BY <1>1, <1>3 DEF SetTop, Resume, WithTop
  <2>3. AreCalls(WithTop(stack, g))
    BY <1>1, <1>3, MoreCalls
  <2> QED
    BY <2>1, <2>2, <2>3 DEF Faithful, Alive
<1>4. CASE StoreElement
  <2> DEFINE g == [f EXCEPT !.left = @ - 1, !.items = Append(@, hand)]
  <2>1. f.kind = "array" /\ SetTop(g) /\ Resume
    BY <1>4 DEF StoreElement
  <2>2. IsCall(g) /\ \A p, q, y : Ends(rest, g, p, q, y) <=> Takes(rest, f, p, hand, q, y)
    <3> HIDE DEF f
    <3> QED
      BY <1>2, <2>1, StoredElement
  <2> HIDE DEF g, f
  <2> QED
    BY <1>3, <2>1, <2>2
<1>5. CASE StoreKey
  <2> DEFINE g == [f EXCEPT !.key = hand]
  <2>1. f.kind = "map" /\ f.key = Nothing /\ SetTop(g) /\ Resume
    BY <1>5 DEF StoreKey
  <2>2. IsCall(g) /\ \A p, q, y : Ends(rest, g, p, q, y) <=> Takes(rest, f, p, hand, q, y)
    <3> HIDE DEF f
    <3> QED
      BY <1>1, <1>2, <2>1, StoredKey
  <2> HIDE DEF g, f
  <2> QED
    BY <1>3, <2>1, <2>2
<1>6. CASE StoreEntry
  <2> DEFINE g == [f EXCEPT !.left = @ - 1, !.items = Put(@, f.key, hand), !.key = Nothing]
  <2>1. /\ f.kind = "map" /\ f.key # Nothing
        /\ \/ f.key[1] \in Unhashable /\ End("panic")
           \/ f.key[1] \notin Unhashable /\ SetTop(g) /\ Resume
    BY <1>6 DEF StoreEntry
  <2>2. /\ IsCall(g)
        /\ f.key[1] \notin Unhashable =>
             \A p, q, y : Ends(rest, g, p, q, y) <=> Takes(rest, f, p, hand, q, y)
        /\ f.key[1] \in Unhashable => \A p, q, y : ~Takes(rest, f, p, hand, q, y)
    <3> HIDE DEF f
    <3>1. IsCall(f) /\ f.kind = "map" /\ f.key # Nothing
      BY <1>2, <2>1
    <3> QED
      BY <3>1, StoredEntry
  <2> HIDE DEF g
  <2>3. CASE f.key[1] \notin Unhashable /\ SetTop(g) /\ Resume
    <3> HIDE DEF f
    <3> QED
      BY <1>3, <2>2, <2>3
  <2>4. CASE f.key[1] \in Unhashable /\ End("panic")
    <3>1. \A q, y : ~Takes(rest, stack[Len(stack)], i, hand, q, y)
      BY <1>2, <2>2, <2>4
    <3>2. NoEnd(rest, stack, hand, i)
      BY <1>1, <3>1, HandedIsTaken
    <3>3. Faithful
      BY <1>1, <2>4, <3>2, EndsMean
    <3> QED
      BY <2>4, <3>3 DEF End
  <2> QED
    BY <2>1, <2>3, <2>4
<1> QED
  BY <1>4, <1>5, <1>6

\* And so does returning.
LEMMA CloseMeans ==
  ASSUME Started, rest \in Strings, AreCalls(stack), CloseItem
  PROVE  Faithful /\ AreCalls(stack')
<1>1. CloseStep /\ Top.left = 0
  BY CloseEffect DEF CloseItem
<1>2. /\ pc' = "item" /\ hand = Nothing /\ hand' # Nothing /\ i' = i /\ stack # <<>>
      /\ stack' = SubSeq(stack, 1, Len(stack) - 1)
      /\ hand' = <<stack[Len(stack)].kind, stack[Len(stack)].items>>
      /\ stack[Len(stack)].left = 0 /\ i \in 0..Len(rest)
  BY <1>1, RestTyped DEF CloseStep, Top, Started
<1>3. SameEnds(rest, stack, Nothing, i, stack', hand', i)
  BY <1>2, ClosedIsHanded
<1>4. AreCalls(stack')
  <2>1. IsCall(ArrayFrame(0))
    BY OpenedArray
  <2> QED
    BY <1>2, <2>1, MoreCalls
<1> QED
  BY <1>2, <1>3, <1>4 DEF Faithful, Alive

\* A slice that is read, as one of the inputs.
Decoding == reader # "data" \/ (pc # "start" /\ LongEnough(blob) /\ AttestedData(blob))
Whole    == reader # "data" => rest = blob

\* While it decodes, the decoder is given a string of the grammar.
LEMMA ReadsStrings ==
  ASSUME TypeOK, WhereData, Whole
  PROVE  /\ Decoding => rest \in Strings
         /\ pc = "item" => Decoding
<1>1. reader # "data" => blob \in Blobs["item"] \cup Blobs["key"]
  BY DEF TypeOK, Readers
<1>2. Decoding /\ reader = "data" => rest = KeyPart(blob) /\ LongEnough(blob) /\ AttestedData(blob)
  BY DEF Decoding, WhereData
<1>3. reader = "data" => blob \in Blobs["data"]
  BY DEF TypeOK
<1>4. Decoding => rest \in Strings
  BY <1>1, <1>2, <1>3 DEF Whole, Strings
<1>5. pc = "item" => Decoding
  BY DEF Decoding, WhereData
<1> QED
  BY <1>4, <1>5

\* What the input means as a whole is what the rest can still come to.
Followed ==
  Decoding =>
    \A n, v : <<0, n, v>> \in Items(rest) <=> Alive /\ Completes(rest, stack, hand, i, n, v)

\* What was decoded is in hand, and nothing else is at the end.
InHand ==
  Ended /\ Decoding =>
    IF stack = <<>> /\ hand # Nothing THEN pc = "value" \/ (pc = "refused" /\ reader # "item")
                                      ELSE pc # "value"

Follows == AreCalls(stack) /\ Whole /\ InHand /\ Followed

\* A step that keeps what is ahead keeps what the whole input can come to.
LEMMA FollowedOn ==
  ASSUME Followed, Decoding, Decoding', rest' = rest, Alive, Faithful
  PROVE  Followed'
<1> SUFFICES ASSUME NEW n, NEW v
             PROVE  <<0, n, v>> \in Items(rest) <=> Alive' /\ Completes(rest, stack', hand', i', n, v)
  BY DEF Followed
<1>1. <<0, n, v>> \in Items(rest) <=> Completes(rest, stack, hand, i, n, v)
  BY DEF Followed
<1>2. \/ Alive' /\ (Completes(rest, stack, hand, i, n, v) <=> Completes(rest, stack', hand', i', n, v))
      \/ ~Alive' /\ ~Completes(rest, stack, hand, i, n, v)
  BY DEF Faithful, SameEnds, NoEnd
<1> QED
  BY <1>1, <1>2

\* Every step keeps the invariant of the grammar.
LEMMA FollowsStep ==
  ASSUME Started, Fresh, WhereData, Follows, [Next]_vars
  PROVE  Follows'
<1>1. /\ TypeOK /\ AreCalls(stack) /\ Whole /\ Followed
      /\ Decoding => rest \in Strings
      /\ pc = "item" => Decoding /\ rest \in Strings
  BY ReadsStrings DEF Follows, Started
<1>2. ASSUME pc = "item", pc' # "start", UNCHANGED <<reader, blob, rest>>,
             Faithful, AreCalls(stack'), InHand'
      PROVE  Follows'
  <2>1. Decoding /\ Decoding' /\ Alive
    BY <1>1, <1>2 DEF Decoding, Alive, LongEnough, AttestedData
  <2>2. Followed'
    BY <1>1, <1>2, <2>1, FollowedOn
  <2> QED
    BY <1>1, <1>2, <2>2 DEF Follows, Whole
<1>3. CASE ParseFixed
  <2>1. /\ pc = "start" /\ UNCHANGED <<reader, blob, i, stack, hand>>
        /\ reader = "data" /\ i = 0 /\ stack = <<>> /\ hand = Nothing
    BY <1>1, <1>3, ParseEffect DEF Fresh
  <2>2. CASE pc' = "item"
    <3>1. Alive' /\ \A n, v : Completes(rest', stack', hand', i', n, v) <=> <<0, n, v>> \in Items(rest')
      BY <2>1, <2>2 DEF Alive, Completes
    <3> QED
      BY <1>1, <2>1, <2>2, <3>1 DEF Follows, Followed, InHand, Ended, Whole
  <2>3. CASE pc' # "item"
    <3>1. ~(LongEnough(blob) /\ AttestedData(blob))
      BY <1>1, <1>3, <2>3, ParseEffect
    <3>2. ~Decoding'
      BY <2>1, <3>1 DEF Decoding, LongEnough, HasId, AttestedData, IdLength
    <3> QED
      BY <1>1, <2>1, <3>2 DEF Follows, Followed, InHand, Ended, Whole
  <2> QED
    BY <2>2, <2>3
<1>4. CASE ReadItem
  <2>1. pc = "item" /\ UNCHANGED <<reader, blob, rest>> /\ pc' \notin {"start", "value"}
    BY <1>1, <1>4, ReadEffect DEF ReadItem, ReadEnds, ReadYields, ReadWaits
  <2>2. Faithful
    BY <1>1, <1>4, <2>1, ReadMeans
  <2>3. AreCalls(stack')
    <3>1. \/ stack' = stack
          \/ \E n \in Nat : \/ stack' = Append(stack, ArrayFrame(n))
                          \/ stack' = Append(stack, MapFrame(n))
      BY <1>1, <1>4, ReadEffect DEF ReadEnds, ReadYields, ReadWaits
    <3>2. \A n \in Nat : IsCall(ArrayFrame(n)) /\ IsCall(MapFrame(n))
      BY <1>1, <2>1, OpenedArray, OpenedMap
    <3> QED
      BY <1>1, <3>1, <3>2, MoreCalls
  <2>4. InHand'
    <3>1. pc' = "item" \/ hand' = Nothing
      BY <1>1, <1>4, ReadEffect DEF ReadItem, ReadEnds, ReadYields, ReadWaits
    <3> QED
      BY <2>1, <3>1 DEF InHand, Ended
  <2> QED
    BY <1>2, <2>1, <2>2, <2>3, <2>4
<1>5. CASE StoreElement \/ StoreKey \/ StoreEntry
  <2>1. pc = "item" /\ UNCHANGED <<reader, blob, rest>> /\ pc' \notin {"start", "value"}
    BY <1>5, StoreEffect DEF StoreStep, End
  <2>2. InHand'
    <3>1. pc' = "item" \/ stack' # <<>>
      BY <1>5, StoreEffect DEF StoreStep, End
    <3> QED
      BY <2>1, <3>1 DEF InHand, Ended
  <2> QED
    BY <1>1, <1>2, <1>5, <2>1, <2>2, StoreMeans
<1>6. CASE CloseItem
  <2>1. pc = "item" /\ UNCHANGED <<reader, blob, rest, pc>>
    BY <1>6 DEF CloseItem
  <2>2. InHand'
    BY <2>1 DEF InHand, Ended
  <2> QED
    BY <1>1, <1>2, <1>6, <2>1, <2>2, CloseMeans
<1>7. CASE ReturnItem
  <2>1. /\ pc = "item" /\ hand # Nothing /\ stack = <<>> /\ pc' \in {"value", "refused"}
        /\ reader = "item" => pc' = "value"
        /\ UNCHANGED <<reader, blob, rest, i, stack, hand>>
    BY <1>7 DEF ReturnItem, End
  <2>2. Faithful
    BY <2>1 DEF Faithful, Alive, SameEnds
  <2>3. InHand'
    BY <2>1 DEF InHand
  <2> QED
    BY <1>1, <1>2, <2>1, <2>2, <2>3
<1>8. CASE UNCHANGED vars
  BY <1>8 DEF vars, Follows, Whole, InHand, Ended, Followed, Decoding, Alive, LongEnough, HasId,
              AttestedData, IdLength
<1> QED
  BY <1>3, <1>4, <1>5, <1>6, <1>7, <1>8 DEF Next

\* In every state what the input means is what its calls can still come to.
LEMMA AlwaysFollows == Spec => []Follows
<1>1. Init => Follows
  <2> SUFFICES ASSUME Init PROVE Follows
    OBVIOUS
  <2>1. stack = <<>> /\ Len(stack) = 0 /\ hand = Nothing /\ i = 0 /\ rest = blob /\ pc # "value"
        /\ (reader # "data" => pc = "item") /\ (reader = "data" => pc = "start")
    BY EmptySeq DEF Init
  <2>2. AreCalls(stack)
    BY <2>1, EmptySeq DEF AreCalls, IsStack
  <2>3. \A n, v : Completes(rest, stack, hand, i, n, v) <=> <<0, n, v>> \in Items(rest)
    BY <2>1 DEF Completes
  <2> QED
    BY <2>1, <2>2, <2>3 DEF Follows, Whole, InHand, Ended, Followed, Decoding, Alive
<1>2. Started /\ Fresh /\ WhereData /\ Follows /\ [Next]_vars => Follows'
  BY FollowsStep
<1> QED
  BY <1>1, <1>2, AlwaysStarted, AlwaysWhereData, PTL DEF Spec

\* How it has ended, and what the whole input means.
LEMMA WhatItCameTo ==
  ASSUME Follows, Ended, Decoding, rest \in Strings
  PROVE  /\ Alive <=> stack = <<>> /\ hand # Nothing
         /\ pc = "value" => Alive
         /\ Alive => <<0, i, hand>> \in Items(rest)
         /\ \A x \in Items(rest) : x[1] = 0 => Alive /\ x = <<0, i, hand>>
<1>1. Alive <=> stack = <<>> /\ hand # Nothing
  BY DEF Alive, Ended
<1>2. pc = "value" => Alive
  BY <1>1 DEF Follows, InHand
<1>3. \A n, v : <<0, n, v>> \in Items(rest) <=> Alive /\ Completes(rest, stack, hand, i, n, v)
  BY DEF Follows, Followed
<1>4. Alive => \A n, v : Completes(rest, stack, hand, i, n, v) <=> i = n /\ hand = v
  <2> SUFFICES ASSUME Alive, NEW n, NEW v
               PROVE  Completes(rest, stack, hand, i, n, v) <=> i = n /\ hand = v
    OBVIOUS
  <2>1. stack = <<>> /\ hand # Nothing /\ Len(stack) = 0
    BY <1>1, EmptySeq
  <2>2. Completes(rest, stack, hand, i, n, v) <=> Below(rest, stack, 0, i, hand, n, v)
    BY <2>1 DEF Completes
  <2> QED
    BY <2>2, BelowEmpty
<1>5. \A n, v : <<0, n, v>> \in Items(rest) <=> Alive /\ i = n /\ hand = v
  BY <1>3, <1>4
<1>6. Alive => <<0, i, hand>> \in Items(rest)
  BY <1>5
<1>7. ASSUME NEW x \in Items(rest), x[1] = 0 PROVE Alive /\ x = <<0, i, hand>>
  <2>1. x = <<x[1], x[2], x[3]>>
    BY <1>7, ItemsAreTriples
  <2>2. <<0, x[2], x[3]>> \in Items(rest)
    BY <1>7, <2>1
  <2>3. Alive /\ i = x[2] /\ hand = x[3]
    BY <1>5, <2>2
  <2> QED
    BY <1>7, <2>1, <2>3
<1> QED
  BY <1>1, <1>2, <1>6, <1>7

\* What value() returns is what the grammar says, and where it stops, and it
\* ends with an error or a panic where the grammar has nothing.
THEOREM ReadsGrammar == Spec => []ReadsTheGrammar
<1>1. Started /\ WhereData /\ Follows => ReadsTheGrammar
  <2> SUFFICES ASSUME Started, WhereData, Follows, reader = "item", Ended
               PROVE  {x \in Items(blob) : From(x) = 0} = IF pc = "value" THEN {<<0, i, hand>>} ELSE {}
    BY DEF ReadsTheGrammar
  <2>1. rest = blob /\ Decoding
    BY DEF Follows, Whole, Decoding
  <2>2. rest \in Strings
    BY <2>1, ReadsStrings DEF Started, Follows
  <2>3. /\ pc = "value" => Alive
        /\ Alive => <<0, i, hand>> \in Items(blob)
        /\ \A x \in Items(blob) : x[1] = 0 => Alive /\ x = <<0, i, hand>>
        /\ Alive <=> stack = <<>> /\ hand # Nothing
    BY <2>1, <2>2, WhatItCameTo
  <2>4. Alive => pc = "value"
    BY <2>1, <2>3 DEF Follows, InHand
  <2> DEFINE z == <<0, i, hand>>
  <2>5. z[1] = 0
    OBVIOUS
  <2> HIDE DEF z
  <2>6. {x \in Items(blob) : x[1] = 0} = IF pc = "value" THEN {z} ELSE {}
    BY <2>3, <2>4, <2>5 DEF z
  <2> QED
    BY <2>6 DEF From, z
<1> QED
  BY <1>1, AlwaysStarted, AlwaysWhereData, AlwaysFollows, PTL

\* A key is accepted for what the grammar says the bytes begin with, and for
\* nothing else.
THEOREM KeysFromPairs == Spec => []KeyFromPairs
<1>1. Started /\ WhereData /\ Follows /\ KeyByPairs => KeyFromPairs
  <2> SUFFICES ASSUME Started, WhereData, Follows, KeyByPairs, ReadsKey, Ended
               PROVE  pc = "value" <=> \E x \in Items(rest) : From(x) = 0 /\ ES256(What(x))
    BY DEF KeyFromPairs
  <2>1. Decoding /\ reader # "item"
    BY DEF ReadsKey, Decoding, Ended
  <2>2. rest \in Strings
    BY <2>1, ReadsStrings DEF Started, Follows
  <2>3. /\ Alive <=> stack = <<>> /\ hand # Nothing
        /\ pc = "value" => Alive
        /\ Alive => <<0, i, hand>> \in Items(rest)
        /\ \A x \in Items(rest) : x[1] = 0 => Alive /\ x = <<0, i, hand>>
    BY <2>1, <2>2, WhatItCameTo
  <2>4. Alive /\ pc \in {"value", "refused"} => (pc = "value" <=> ES256(hand))
    BY <2>1, <2>3 DEF KeyByPairs
  <2>5. Alive => pc \in {"value", "refused"}
    BY <2>1, <2>3 DEF Follows, InHand
  <2>6. \A x \in Items(rest) : From(x) = 0 => Alive /\ What(x) = hand
    BY <2>3 DEF From, What
  <2>7. Alive => \E x \in Items(rest) : From(x) = 0 /\ What(x) = hand
    BY <2>3 DEF From, What
  <2> QED
    BY <2>3, <2>4, <2>5, <2>6, <2>7
<1> QED
  BY <1>1, AlwaysStarted, AlwaysWhereData, AlwaysFollows, KeyIsItsPairs, PTL

\* A head announces more than is left of the input only where it goes wrong: the
\* decoder panics for no item that is all there and can be had.
THEOREM PanicsAreExplained == Spec => []PanicsExplained
<1>1. Init => PanicsExplained
  BY DEF Init, PanicsExplained
<1>2. Started /\ Fresh /\ WhereData /\ Follows /\ PanicsExplained /\ [Next]_vars => PanicsExplained'
  <2> SUFFICES ASSUME Started, Fresh, WhereData, Follows, PanicsExplained, [Next]_vars
               PROVE  PanicsExplained'
    OBVIOUS
  <2>1. CASE ParseFixed
    <3>1. pc' # "panic"
      BY <2>1, ParseEffect DEF Started
    <3> QED
      BY <3>1 DEF PanicsExplained
  <2>2. CASE ReadItem /\ UNCHANGED rest /\ ReadEnds
    <3> SUFFICES ASSUME pc' = "panic"
                 PROVE  i < Len(rest) /\ \E g \in HeadsAt(rest, i) : g.arg > Len(rest) - g.to
      BY <2>2 DEF PanicsExplained, ReadEnds, HeadsAt
    <3> DEFINE h == HeadAt(rest, i)
    <3>1. TooMuch(h)
      BY <2>2 DEF ReadEnds
    <3>2. /\ rest \in Strings /\ IsInput(rest)
          /\ Len(rest) \in Nat /\ i \in 0..Len(rest)
      BY <2>2, RestTyped, ReadsStrings DEF Started, Follows, ReadItem, IsInput
    <3>3. i < Len(rest) /\ h.arg \in Nat /\ h.i \in (i + 1)..Len(rest)
      BY <3>1, HeadFacts, RestTyped DEF Started, TooMuch
    <3>4. HeadsAt(rest, i) = {Announced(h)}
      BY <3>1, <3>2, <3>3, HeadsAgree DEF TooMuch
    <3>5. Len(rest) <= Room /\ Room \in Nat
      BY <3>2, RoomAssumption, SizeAssumption
    <3> HIDE DEF h
    <3>6. h.arg > Len(rest) - h.i
      BY <3>1, <3>2, <3>3, <3>5 DEF TooMuch
    <3> QED
      BY <3>3, <3>4, <3>6 DEF Announced
  <2>3. CASE ReadItem /\ (ReadYields \/ ReadWaits)
    BY <2>3 DEF PanicsExplained, ReadItem, ReadYields, ReadWaits
  <2>4. CASE StoreStep \/ CloseStep
    BY <2>4 DEF PanicsExplained, StoreStep, CloseStep
  <2>5. CASE /\ stack # <<>> /\ Top.kind = "map"
             /\ Top.key # Nothing /\ Top.key[1] \in Unhashable /\ End("panic")
    BY <2>5 DEF PanicsExplained, End, Top
  <2>6. CASE ReturnItem
    BY <2>6 DEF PanicsExplained, ReturnItem, End
  <2>7. CASE UNCHANGED vars
    BY <2>7 DEF PanicsExplained, vars, Top, HeadsAt
  <2> QED
    BY <2>1, <2>2, <2>3, <2>4, <2>5, <2>6, <2>7, StepEffect
<1> QED
  BY <1>1, <1>2, AlwaysStarted, AlwaysWhereData, AlwaysFollows, PTL DEF Spec

=============================================================================
