------------------------------ MODULE CborMore ------------------------------
(***************************************************************************)
(* The decoder on an input that goes on: whatever it does with some bytes  *)
(* it does with the same bytes and More behind them, until it runs out of  *)
(* the shorter input.  Extensions follow the key in authenticator data,    *)
(* and the caller goes on from where the decoder stopped (cbor.go:136).    *)
(***************************************************************************)
EXTENDS Cbor

CONSTANT More   \* what follows the input

ASSUME MoreAssumption == More \in Seq(Byte)

Extended(r) == {b \o More : b \in Blobs[r]}
LongerBlobs == [item |-> Extended("item"), key |-> Extended("key"), data |-> Extended("data")]

\* An error for what is missing is where the longer run has only got to.
Longer == INSTANCE Cbor WITH
  Blobs <- LongerBlobs,
  blob  <- blob \o More,
  rest  <- rest \o More,
  pc    <- IF pc # "short" THEN pc
           ELSE IF reader = "data" /\ ~LongEnough(blob) THEN "start" ELSE "item"

(* What was read stays as it was read whatever follows it: the same steps  *)
(* decode the longer input, to the same items, refusals and panics.        *)
NothingAfterCounts == Longer!Spec
=============================================================================
