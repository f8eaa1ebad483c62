------------------------------ MODULE Measure ------------------------------
(***************************************************************************)
(* What the tool measures: the marshaled size of a vote and of a commit    *)
(* for a signature of a given length, and the attribution of a vote's size *)
(* to its parts.  A message is known here only by the lengths of its       *)
(* fields; the field lists of Vote, CommitSig and Commit are CometBFT's,   *)
(* and the values are the ones the tool fills in.                          *)
(***************************************************************************)
EXTENDS Wire, Schemes, Functions

AddressWidth == 20
DigestBytes  == 32          (* SHA-256 *)
Height       == 1000000

PrevoteType   == 1
PrecommitType == 2

(* Mutant: a timestamp without its nanoseconds.                            *)
wholeSecondTimestamp == VarintField(1788350400)

(* 2026-09-02T12:00:00.123456789Z: seconds and a non-zero nanosecond part. *)
fixedTimestamp == VarintField(1788350400) + VarintField(123456789)

PartSetHeader(total, hash) == VarintField(total) + BytesField(hash)
BlockID(hash, parts)       == BytesField(hash) + MessageField(parts)

sampleBlockID == BlockID(DigestBytes, PartSetHeader(1, DigestBytes))
emptyBlockID  == BlockID(0, PartSetHeader(0, 0))

(* Round and ValidatorIndex are 0 and leave no byte on the wire.           *)
Vote(type, blockID, address, sig) ==
  VarintField(type) + VarintField(Height) + MessageField(blockID)
    + MessageField(fixedTimestamp) + BytesField(address) + BytesField(sig)

CommitSig(sig) ==
  VarintField(2) + BytesField(AddressWidth) + MessageField(fixedTimestamp)
    + BytesField(sig)

voteBytes(type, withBlock, sig) ==
  Vote(type, IF withBlock THEN sampleBlockID ELSE emptyBlockID, AddressWidth, sig)

commitBytes(validators, sig) ==
  VarintField(Height) + MessageField(sampleBlockID)
    + validators * MessageField(CommitSig(sig))

MeasureSizes(scheme, counts) ==
  [prevoteNil     |-> voteBytes(PrevoteType, FALSE, scheme.sigBytes),
   prevoteBlock   |-> voteBytes(PrevoteType, TRUE, scheme.sigBytes),
   precommitNil   |-> voteBytes(PrecommitType, FALSE, scheme.sigBytes),
   precommitBlock |-> voteBytes(PrecommitType, TRUE, scheme.sigBytes),
   commits        |-> [n \in Range(counts) |-> commitBytes(n, scheme.sigBytes)]]

RoundTripBytes(sizes) == sizes.prevoteBlock + sizes.precommitBlock

(***************************************************************************)
(* Breakdown by differences: the precommit is marshaled in full and again  *)
(* with one field emptied, and the remainder is what no difference claims. *)
(***************************************************************************)
(* Mutant: the address is left out of the message that is taken apart.     *)
BuildAnonymous(sig, blockID, address) == Vote(PrecommitType, blockID, 0, sig)

Build(sig, blockID, address) == Vote(PrecommitType, blockID, address, sig)

Breakdown(scheme) ==
  LET sig     == scheme.sigBytes
      full    == Build(sig, sampleBlockID, AddressWidth)
      sigPart == full - Build(0, sampleBlockID, AddressWidth)
      idPart  == full - Build(sig, emptyBlockID, AddressWidth)
      adrPart == full - Build(sig, sampleBlockID, 0)
  IN  [signature |-> sigPart,
       blockID   |-> idPart,
       address   |-> adrPart,
       rest      |-> full - sigPart - idPart - adrPart,
       total     |-> full]
=============================================================================
