---------------------------- MODULE MCHandshake ----------------------------
(* Lists of up to four names, known and unknown, with repetitions.         *)
EXTENDS Handshake

mcNames == {"ed25519", "ml-dsa-65", "falcon-512", "slh-dsa-128s", "rsa-2048"}

mcNameLists == UNION {[1 .. k -> mcNames] : k \in 1 .. 4}

(* Every scheme of the table on its own.                                   *)
mcSingleNames == {<<name>> : name \in SchemeNames}
=============================================================================
