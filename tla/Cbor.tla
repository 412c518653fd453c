-------------------------------- MODULE Cbor --------------------------------
(***************************************************************************)
(* The bytes a browser hands over at registration: the CBOR decoder        *)
(* (src/internal/webauthn/cbor.go) and its readers parseCOSEKey and        *)
(* ParseAuthenticatorData (webauthn.go).  The decoder believes the lengths *)
(* its input claims, so what matters is where a length ends, where it      *)
(* wraps, and what an input that is cut off or goes on comes to.           *)
(*                                                                         *)
(* value() calls itself for the items of arrays and maps.  Here the calls  *)
(* that wait for an item are a stack, and each step is what one call does  *)
(* between two others.  Positions count from 0.  The sizes of the format   *)
(* are constants; the code's are given beside them.                        *)
(***************************************************************************)
EXTENDS Integers, Sequences, FiniteSets

CONSTANTS
  Infos,         \* values of the low bits of a byte: 32, under 3 bits of major type
  Direct,        \* the infos that are the argument themselves: 0..23
  Width,         \* the bytes that follow other infos: 24 :> 1, 25 :> 2, 26 :> 4, 27 :> 8
  Word,          \* 2^64
  Simple,        \* the simple values: 20 :> "false", 21 :> "true", 22 :> "nil"
  BigEndian(_),  \* binary.BigEndian, big.Int.SetBytes
  Fixed,         \* the bytes authenticator data has at least: 37
  FlagsAt,       \* its byte of flags: 33
  Attested,      \* the bytes before a credential id: 55 ...
  IdBytes,       \* ... of which the last 2 are its length
  Curve,         \* the points <<x, y>> on P-256
  Room,          \* the elements the machine has memory for
  Blobs          \* the inputs, by reader

Readers == {"item", "key", "data"}   \* cborDecodeFirst, parseCOSEKey, ParseAuthenticatorData
Radix   == 8 * Infos
Byte    == 0..(Radix - 1)

ASSUME FormatAssumption ==
  /\ Infos \in Nat \ {0} /\ Word \in Nat \ {0}
  /\ Direct \subseteq 0..(Word - 1) /\ Direct \cap DOMAIN Width = {}
  /\ \A f \in DOMAIN Width : Width[f] \in Nat \ {0}
  /\ \A w \in {Width[f] : f \in DOMAIN Width} \cup {IdBytes} :
       \A s \in [1..w -> Byte] : BigEndian(s) \in 0..(Word - 1)
  /\ IdBytes \in Nat \ {0}
  /\ FlagsAt \in 1..Fixed /\ Fixed \in Nat /\ Attested \in Nat /\ Fixed + IdBytes <= Attested

\* Neither the memory nor an input comes near half a word.
ASSUME SizeAssumption ==
  /\ Room \in Nat
  /\ \A r \in Readers : \A b \in Blobs[r] :
       /\ b \in Seq(Byte)
       /\ 2 * (Len(b) + Room) < Word
       /\ \A f \in DOMAIN Width : 2 * (Len(b) + Width[f]) < Word

VARIABLES
  reader,  \* what the blob is read as
  blob,    \* the input
  rest,    \* cborReader.b: the slice under the decoder
  i,       \* cborReader.i: the next byte in it
  stack,   \* the calls of value() that wait for an item, the innermost last
  hand,    \* the item that is about to be returned to the innermost call
  pc       \* "start" of ParseAuthenticatorData, "item" while decoding, or how it
           \* ended: "value", an error for what is there ("refused") or for what
           \* is missing ("short"), or the "panic" that ends the process

vars == <<reader, blob, rest, i, stack, hand, pc>>

Ended == pc \in {"value", "refused", "short", "panic"}

-----------------------------------------------------------------------------
(* Reading.                                                                *)

Ok(v, j)    == [out |-> "value", v |-> v, i |-> j]
Stop(how)   == [out |-> how, v |-> <<>>, i |-> 0]
Accepted(r) == r.out = "value"

\* int(n) and int64(n): a word as a signed number.
Signed(n) == LET w == n % Word IN IF 2 * w < Word THEN w ELSE w - Word

\* b[lo:hi]
Slice(b, lo, hi) == IF lo <= hi /\ hi <= Len(b) THEN Ok(SubSeq(b, lo + 1, hi), hi) ELSE Stop("panic")

\* Mutant: hands out what is left, without an error ...
TakeWhatIsThere(b, j, n) ==
  IF n < 0 THEN Stop("refused")
  ELSE Ok(SubSeq(b, j + 1, IF j + n > Len(b) THEN Len(b) ELSE j + n), j + n)

\* Mutant: moves on before it cuts.
TakeMovedOn(b, j, n) ==
  IF n < 0 THEN Stop("refused")
  ELSE IF Signed(j + n) > Len(b) THEN Stop("short")
  ELSE Slice(b, Signed(j + n), Signed(j + n + n))

\* take.  j + n is an int like n, and wraps like one.
Take(b, j, n) ==
  IF n < 0 THEN Stop("refused")
  ELSE IF Signed(j + n) > Len(b) THEN Stop("short")
  ELSE Slice(b, j, Signed(j + n))

\* What head returns: the major type and its argument.
HeadOf(c, arg, j) == [out |-> "value", major |-> c \div Infos, arg |-> arg, i |-> j]

\* Mutant: every long form taken for an argument.
HeadAtLong(b, j) ==
  IF j >= Len(b) THEN Stop("short") ELSE HeadOf(b[j + 1], b[j + 1] % Infos, j + 1)

\* Mutant: looks at the byte and does not count it.
HeadAtPeek(b, j) ==
  IF j >= Len(b) THEN Stop("short")
  ELSE IF b[j + 1] % Infos \in Direct THEN HeadOf(b[j + 1], b[j + 1] % Infos, j) ELSE Stop("refused")

HeadAt(b, j) ==
  IF j >= Len(b) THEN Stop("short")
  ELSE LET c     == b[j + 1]
           info  == c % Infos
           after == Take(b, j + 1, Width[info])
       IN  CASE info \in Direct       -> HeadOf(c, info, j + 1)
             [] info \in DOMAIN Width -> IF Accepted(after)
                                           THEN HeadOf(c, BigEndian(after.v), after.i)
                                           ELSE after
             [] OTHER                 -> Stop("refused")

\* make([]any, 0, n) wants memory for the n elements announced.  make(map, n)
\* wants it too, but drops an n that is negative as an int.  (It also drops one
\* whose table would not fit in an address, which ends the process here.)
Make(n)    == n <= Room
MakeMap(n) == n <= Room \/ 2 * n >= Word

\* Mutant: a key that is there already stays as it is.
PutOnce(m, k, v) == IF \E p \in m : p[1] = k THEN m ELSE m \cup {<<k, v>>}

Put(m, k, v) == {p \in m : p[1] # k} \cup {<<k, v>>}

\* Go can hash no slice and no map.
Unhashable == {"bytes", "array", "map"}

\* An item is a pair of its kind and what it holds.
Nothing == <<>>

\* The calls of value() that loop: items still to come, and what is there.
ArrayFrame(n) == [kind |-> "array", left |-> n, items |-> <<>>, key |-> Nothing]
MapFrame(n)   == [kind |-> "map", left |-> n, items |-> {}, key |-> Nothing]
Top           == stack[Len(stack)]
SetTop(frame) == stack' = [stack EXCEPT ![Len(stack)] = frame]

-----------------------------------------------------------------------------
(* The readers above the decoder.                                          *)

\* m[k].(type): what the map holds under an integer label, if it is of the kind.
Label(k)         == <<"int", k>>
Holds(m, k, tag) == \E p \in m : p[1] = Label(k) /\ p[2][1] = tag
Get(m, k)        == (CHOOSE p \in m : p[1] = Label(k))[2][2]
Says(m, k, n)    == Holds(m, k, "int") /\ Get(m, k) = n

\* parseCOSEKey on what was decoded: 1 kty, 3 alg, -1 crv, -2 x, -3 y.
Point(m) == <<BigEndian(Get(m, -2)), BigEndian(Get(m, -3))>>
IsKey(v) ==
  /\ v[1] = "map"
  /\ Says(v[2], 1, 2) /\ Says(v[2], 3, -7) /\ Says(v[2], -1, 1)
  /\ Holds(v[2], -2, "bytes") /\ Holds(v[2], -3, "bytes")
  /\ Point(v[2]) \in Curve

\* flagAttestedData, the second highest bit.
AttestedData(b) == (b[FlagsAt] \div (2 * Infos)) % 2 = 1
IdLength(b)     == BigEndian(SubSeq(b, Attested - IdBytes + 1, Attested))
CredentialId(b) == SubSeq(b, Attested + 1, Attested + IdLength(b))

\* Mutant: one byte early.
KeyPartEarly(b) == SubSeq(b, Attested + IdLength(b), Len(b))
KeyPart(b)      == SubSeq(b, Attested + IdLength(b) + 1, Len(b))

HasId(b)  == Len(b) >= Attested /\ Len(b) >= Attested + IdLength(b)
LongEnough(b) == Len(b) >= Fixed /\ (AttestedData(b) => HasId(b))

-----------------------------------------------------------------------------
Init ==
  /\ reader \in Readers
  /\ blob \in Blobs[reader]
  /\ rest = blob
  /\ i = 0
  /\ stack = <<>>
  /\ hand = Nothing
  /\ pc = IF reader = "data" THEN "start" ELSE "item"

End(how) == pc' = how /\ UNCHANGED <<reader, blob, rest, i, stack, hand>>

\* ParseAuthenticatorData up to the key.  What follows the key is not looked at.
ParseFixed ==
  /\ pc = "start"
  /\ \/ ~LongEnough(blob) /\ End("short")
     \/ LongEnough(blob) /\ ~AttestedData(blob) /\ End("value")
     \/ /\ LongEnough(blob) /\ AttestedData(blob)
        /\ rest' = KeyPart(blob)
        /\ pc' = "item"
        /\ UNCHANGED <<reader, blob, i, stack, hand>>

\* value() returns v to its caller, or waits for items of its own.
Yield(v, j) == hand' = v /\ i' = j /\ UNCHANGED <<reader, blob, rest, stack, pc>>
Push(frame, j) == stack' = Append(stack, frame) /\ i' = j /\ UNCHANGED <<reader, blob, rest, hand, pc>>

ReadNumber(h) ==
  \/ h.major = 0 /\ Yield(<<"int", Signed(h.arg)>>, h.i)
  \/ h.major = 1 /\ Yield(<<"int", Signed(-1 - Signed(h.arg))>>, h.i)

ReadString(h) ==
  /\ h.major \in {2, 3}
  /\ LET t == Take(rest, h.i, Signed(h.arg))
     IN  \/ Accepted(t) /\ Yield(<<IF h.major = 2 THEN "bytes" ELSE "text", t.v>>, t.i)
         \/ ~Accepted(t) /\ End(t.out)

OpenArray(h) ==
  /\ h.major = 4
  /\ IF Make(h.arg) THEN Push(ArrayFrame(h.arg), h.i) ELSE End("panic")

OpenMap(h) ==
  /\ h.major = 5
  /\ IF MakeMap(h.arg) THEN Push(MapFrame(h.arg), h.i) ELSE End("panic")

ReadSimple(h) ==
  /\ h.major = 7
  /\ h.arg \in DOMAIN Simple
  /\ Yield(<<"simple", Simple[h.arg]>>, h.i)

Unsupported(h) ==
  /\ h.major \notin 0..5
  /\ ~(h.major = 7 /\ h.arg \in DOMAIN Simple)
  /\ End("refused")

\* A call of value() until it returns or calls itself.
ReadItem ==
  /\ pc = "item" /\ hand = Nothing
  /\ stack # <<>> => Top.left # 0
  /\ LET h == HeadAt(rest, i)
     IN  \/ ~Accepted(h) /\ End(h.out)
         \/ /\ Accepted(h)
            /\ \/ ReadNumber(h) \/ ReadString(h) \/ OpenArray(h) \/ OpenMap(h)
               \/ ReadSimple(h) \/ Unsupported(h)

Awaited == pc = "item" /\ hand # Nothing /\ stack # <<>>
Resume  == hand' = Nothing /\ UNCHANGED <<reader, blob, rest, i, pc>>

StoreElement ==
  /\ Awaited /\ Top.kind = "array"
  /\ SetTop([Top EXCEPT !.left = @ - 1, !.items = Append(@, hand)])
  /\ Resume

StoreKey ==
  /\ Awaited /\ Top.kind = "map" /\ Top.key = Nothing
  /\ SetTop([Top EXCEPT !.key = hand])
  /\ Resume

\* out[k] = v, where the later of two equal keys stays.
StoreEntry ==
  /\ Awaited /\ Top.kind = "map" /\ Top.key # Nothing
  /\ \/ Top.key[1] \in Unhashable /\ End("panic")
     \/ /\ Top.key[1] \notin Unhashable
        /\ SetTop([Top EXCEPT !.left = @ - 1, !.items = Put(@, Top.key, hand), !.key = Nothing])
        /\ Resume

\* The loop is over and the call returns in its turn.
CloseItem ==
  /\ pc = "item" /\ hand = Nothing
  /\ stack # <<>> /\ Top.left = 0
  /\ hand' = <<Top.kind, Top.items>>
  /\ stack' = SubSeq(stack, 1, Len(stack) - 1)
  /\ UNCHANGED <<reader, blob, rest, i, pc>>

\* cborDecodeFirst returns, and parseCOSEKey looks at what it has.
ReturnItem ==
  /\ pc = "item" /\ hand # Nothing /\ stack = <<>>
  /\ End(IF reader = "item" \/ IsKey(hand) THEN "value" ELSE "refused")

Next ==
  \/ ParseFixed
  \/ ReadItem
  \/ StoreElement \/ StoreKey \/ StoreEntry
  \/ CloseItem
  \/ ReturnItem

Spec == Init /\ [][Next]_vars

-----------------------------------------------------------------------------
(* Properties                                                              *)

(* Types: the decoder stands within its slice, whose bytes are the input's *)
(* last ones.                                                              *)
Kinds  == {"int", "bytes", "text", "array", "map", "simple"}
Frames == {stack[d] : d \in 1..Len(stack)}
IsItem(v) == Len(v) = 2 /\ v[1] \in Kinds
TypeOK ==
  /\ reader \in Readers /\ blob \in Blobs[reader]
  /\ rest \in Seq(Byte) /\ Len(rest) <= Len(blob)
  /\ i \in 0..Len(rest)
  /\ stack \in Seq(Frames)
  /\ \A f \in Frames : /\ DOMAIN f = {"kind", "left", "items", "key"}
                       /\ f.kind \in {"array", "map"} /\ f.left \in Nat
                       /\ f.key = Nothing \/ IsItem(f.key)
  /\ hand = Nothing \/ IsItem(hand)
  /\ pc \in {"start", "item", "value", "refused", "short", "panic"}

(* value() waits for itself no deeper than the bytes read: every call has  *)
(* read a head of its own, so the depth of the recursion, which nothing    *)
(* else limits, is bounded by the input (cbor.go:102, 112, 116).           *)
DepthWithinInput ==
  Len(stack) + (IF hand = Nothing THEN 0 ELSE 1) <= i

(* The loops run as often as a length says, up to 2^64 times, but no step  *)
(* is free: each uses up bytes of the input or returns from a call.  What  *)
(* an input claims does not make it take longer than its size allows       *)
(* (cbor.go:101, 111).                                                     *)
Left == 3 * (Len(rest) - i) + 2 * Len(stack) + (IF hand = Nothing THEN 0 ELSE 1) + (IF Ended THEN 0 ELSE 1)
WorkBounded == [][Left' < Left]_vars

\* What an item says about an ES256 key.
ES256(v) ==
  /\ v[1] = "map"
  /\ {<<Label(1), <<"int", 2>>>>, <<Label(3), <<"int", -7>>>>, <<Label(-1), <<"int", 1>>>>} \subseteq v[2]
  /\ \E x, y \in v[2] : /\ x[1] = Label(-2) /\ x[2][1] = "bytes"
                        /\ y[1] = Label(-3) /\ y[2][1] = "bytes"
                        /\ <<BigEndian(x[2][2]), BigEndian(y[2][2])>> \in Curve

(* parseCOSEKey asks label by label, each time of what the map holds there  *)
(* then; what it accepts of a decoded item is exactly a map with the five  *)
(* pairs of an ES256 key, whatever else is in it (webauthn.go:120-153).    *)
KeyByPairs ==
  reader # "item" /\ pc \in {"value", "refused"} /\ stack = <<>> /\ hand # Nothing =>
    (pc = "value" <=> ES256(hand))

(* Authenticator data that is accepted with the flag is, in this order,    *)
(* the fixed part, as many bytes of credential id as it says, and the      *)
(* bytes the key was read from; without the flag there is no key           *)
(* (webauthn.go:90-103).                                                   *)
DataLaidOut ==
  reader = "data" /\ pc = "value" =>
    /\ Len(blob) >= Fixed
    /\ IF AttestedData(blob)
         THEN /\ Len(CredentialId(blob)) = IdLength(blob)
              /\ blob = SubSeq(blob, 1, Attested) \o CredentialId(blob) \o rest
              /\ IsKey(hand)
         ELSE hand = Nothing

=============================================================================
