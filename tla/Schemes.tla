------------------------------ MODULE Schemes ------------------------------
(***************************************************************************)
(* The signature schemes the tool knows, each described by the lengths     *)
(* that change a message's size, and the lookup by name.                   *)
(***************************************************************************)
EXTENDS Integers, Sequences

(* sigBytesMax is 0 for a scheme whose signatures have a fixed length.     *)
Scheme(name, sig, pubKey, sigMax) ==
  [name |-> name, sigBytes |-> sig, pubKeyBytes |-> pubKey, sigBytesMax |-> sigMax]

schemes == <<
  Scheme("ed25519", 64, 32, 0),
  Scheme("ml-dsa-44", 2420, 1312, 0),
  Scheme("ml-dsa-65", 3309, 1952, 0),
  Scheme("ml-dsa-87", 4627, 2592, 0),
  Scheme("falcon-512", 666, 897, 752),
  Scheme("falcon-1024", 1280, 1793, 1462),
  Scheme("slh-dsa-128s", 7856, 32, 0),
  Scheme("slh-dsa-128f", 17088, 32, 0),
  Scheme("composite-ml-dsa-65-slh-dsa-128s", 3309 + 7856 + 8, 1952 + 32 + 8, 0),
  Scheme("composite-ed25519-ml-dsa-65", 3381, 1992, 0) >>

SchemeNames == {schemes[i].name : i \in DOMAIN schemes}

(* A name is trimmed and lower-cased before it is compared: the names a    *)
(* model passes around are the result of that.  A name outside SchemeNames *)
(* is the lookup's error.                                                  *)
lookupScheme(name) ==
  LET i == CHOOSE k \in DOMAIN schemes : schemes[k].name = name
  IN  schemes[i]
=============================================================================
