-------------------------------- MODULE Wire --------------------------------
(***************************************************************************)
(* The protobuf encoder, as far as the size of a message depends on it.    *)
(* Every field number the tool marshals is below 16, so a tag is one byte. *)
(* A scalar or bytes field is left out when it holds its zero value; an    *)
(* embedded message that is not a pointer is always written, with its      *)
(* length prefix.  A length costs as many bytes as a varint of it.         *)
(***************************************************************************)
EXTENDS Integers, FiniteSets

(* 2^7, 2^14, 2^21 and 2^28: a varint holds seven bits a byte.             *)
varintSteps == {128, 128*128, 128*128*128, 128*128*128*128}

(* Mutant: a length that just needs another byte does not get it.          *)
varintLenLate(n) == 1 + Cardinality({s \in varintSteps : n > s})

(* One byte, and one more for every seven bits beyond the first seven: the *)
(* lengths and numbers encoded here stay below 2^35.                       *)
varintLen(n) == 1 + Cardinality({s \in varintSteps : n >= s})

(* The loop of varintLen in handshake.go: shift by seven bits and count.   *)
(* The reference varintLen(n) is compared with.                            *)
shiftLoop[n \in Nat] == IF n < 128 THEN 1 ELSE 1 + shiftLoop[n \div 128]

VarintField(v)  == IF v = 0 THEN 0 ELSE 1 + varintLen(v)
BytesField(n)   == IF n = 0 THEN 0 ELSE 1 + varintLen(n) + n
MessageField(n) == 1 + varintLen(n) + n

(* An int64 of any size; a negative one takes all ten bytes of 64 bits.    *)
Int64Field(v) == IF v = 0 THEN 0 ELSE 1 + (IF v < 0 THEN 10 ELSE shiftLoop[v])

(* How many more bytes a length prefix takes when a field grows.           *)
varintGrowth(from, to) == varintLen(to) - varintLen(from)
=============================================================================
