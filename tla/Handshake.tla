----------------------------- MODULE Handshake -----------------------------
(***************************************************************************)
(* The --handshake mode: the bytes one side of a peer connection sends,    *)
(* upstream and with a post-quantum node identity, alone and together with *)
(* a hybrid key agreement, and against which adversary each is safe.       *)
(* Every profile is computed before the first line is printed.  The notes  *)
(* and the explanation below the tables are not modelled.                  *)
(***************************************************************************)
EXTENDS Wire, Schemes, Functions

CONSTANTS
  NameLists   (* the values of --schemes, split at the commas *)

ASSUME NameListsAssumption == NameLists \subseteq Seq(STRING) \ {<<>>}

VARIABLES
  names,     (* the command line: never changes *)
  pc,        (* what reportHandshake does next, or how the program ended *)
  turn,      (* the name its loop has reached *)
  profiles,  (* the profiles computed so far *)
  stdout     (* the profiles printed *)

vars == <<names, pc, turn, profiles, stdout>>

(* Mutant: the first name is looked up for every row.                      *)
firstScheme == lookupScheme(names[1])

scheme == lookupScheme(names[turn])

Goto(label) == pc' = label

-----------------------------------------------------------------------------
(* FIPS 203 sizes of ML-KEM-768, and an X25519 public key.                 *)
mlkem768EncapsulationKeyBytes == 1184
mlkem768CiphertextBytes       == 1088
x25519PublicKeyBytes          == 32
ed25519PubKeySize             == 32

(* CometBFT's message: a PublicKey with the key as its one field, and the  *)
(* signature over the transcript.                                          *)
AuthSigMessage(pubKey, sig) == MessageField(BytesField(pubKey)) + BytesField(sig)

(* Mutants: the key lengths are subtracted the wrong way round, and the    *)
(* signature stays an Ed25519 one.                                         *)
authSigShrunk(s) ==
  AuthSigMessage(ed25519PubKeySize, s.sigBytes)
    + (ed25519PubKeySize - s.pubKeyBytes)
    + varintGrowth(s.pubKeyBytes, ed25519PubKeySize)

authSigEd25519(s) ==
  AuthSigMessage(ed25519PubKeySize, 64)
    + (s.pubKeyBytes - ed25519PubKeySize)
    + varintGrowth(ed25519PubKeySize, s.pubKeyBytes)

(* Only an Ed25519 key is marshaled; for the others the Ed25519 message is *)
(* adjusted by the difference of the key lengths.                          *)
authSigMessageBytes(s) ==
  IF s.name = "ed25519"
  THEN AuthSigMessage(ed25519PubKeySize, s.sigBytes)
  ELSE AuthSigMessage(ed25519PubKeySize, s.sigBytes)
         + (s.pubKeyBytes - ed25519PubKeySize)
         + varintGrowth(ed25519PubKeySize, s.pubKeyBytes)

(***************************************************************************)
(* A profile: the bytes of its legs by step, and the two safety columns.   *)
(* identity is the scheme of the node key, in the code part of the name.   *)
(***************************************************************************)
Profile(identity, legs, recorded, forged) ==
  [identity                   |-> identity,
   legs                       |-> legs,
   safeAgainstRecordedTraffic |-> recorded,
   safeAgainstForgedIdentity  |-> forged]

UpstreamHandshake ==
  Profile("ed25519",
    [ephemeral |-> x25519PublicKeyBytes,
     auth      |-> authSigMessageBytes(Scheme("ed25519", 64, 32, 0))],
    FALSE, FALSE)

(* Mutant: a new identity key is taken to protect recorded traffic.        *)
PQAuthClaimingBoth(s) ==
  Profile(s.name,
    [ephemeral |-> x25519PublicKeyBytes, auth |-> authSigMessageBytes(s)],
    TRUE, TRUE)

PQAuthOnlyHandshake(s) ==
  Profile(s.name,
    [ephemeral |-> x25519PublicKeyBytes, auth |-> authSigMessageBytes(s)],
    FALSE, TRUE)

HybridKEMHandshake(s) ==
  Profile(s.name,
    [ephemeral        |-> x25519PublicKeyBytes,
     encapsulationKey |-> mlkem768EncapsulationKeyBytes,
     ciphertext       |-> mlkem768CiphertextBytes,
     auth             |-> authSigMessageBytes(s)],
    TRUE, TRUE)

Leg(p, step) == IF step \in DOMAIN p.legs THEN p.legs[step] ELSE 0

(* The bytes of all legs.                                                  *)
Total(p) ==
  Leg(p, "ephemeral") + Leg(p, "encapsulationKey") + Leg(p, "ciphertext") + Leg(p, "auth")

-----------------------------------------------------------------------------
Init ==
  /\ names \in NameLists
  /\ pc = "upstream"
  /\ turn = 1
  /\ profiles = <<>>
  /\ stdout = <<>>

(* Encoding or marshaling a message can fail.                              *)
MeasureUpstream ==
  /\ pc = "upstream"
  /\ \/ profiles' = <<UpstreamHandshake>> /\ Goto("names")
     \/ UNCHANGED profiles /\ Goto("exit 1")
  /\ UNCHANGED <<names, turn, stdout>>

(* Mutant: a skipped name is met again.                                    *)
SkipForever ==
  /\ pc = "names"
  /\ turn <= Len(names)
  /\ names[turn] = "ed25519"
  /\ UNCHANGED vars

(* The identity upstream already has gets no row of its own.               *)
SkipEd25519 ==
  /\ pc = "names"
  /\ turn <= Len(names)
  /\ names[turn] = "ed25519"
  /\ turn' = turn + 1
  /\ UNCHANGED <<names, pc, profiles, stdout>>

AddProfiles ==
  /\ pc = "names"
  /\ turn <= Len(names)
  /\ names[turn] \in SchemeNames \ {"ed25519"}
  /\ profiles' = profiles \o <<PQAuthOnlyHandshake(scheme), HybridKEMHandshake(scheme)>>
  /\ turn' = turn + 1
  /\ UNCHANGED <<names, pc, stdout>>

(* An unknown name, or a message that cannot be marshaled.                 *)
FailName ==
  /\ pc = "names"
  /\ turn <= Len(names)
  /\ names[turn] # "ed25519"
  /\ Goto("exit 1")
  /\ UNCHANGED <<names, turn, profiles, stdout>>

PrintProfiles ==
  /\ pc = "names"
  /\ turn > Len(names)
  /\ stdout' = [k \in DOMAIN profiles |-> <<profiles[k], Total(profiles[k])>>]
  /\ Goto("exit 0")
  /\ UNCHANGED <<names, turn, profiles>>

Next ==
  \/ MeasureUpstream
  \/ SkipEd25519
  \/ AddProfiles
  \/ FailName
  \/ PrintProfiles

(* One thread runs the program, and nothing in it waits.                   *)
Spec == Init /\ [][Next]_vars /\ WF_vars(Next)

-----------------------------------------------------------------------------
ProfileSet ==
  [identity : SchemeNames,
   legs : [ephemeral : Nat, auth : Nat]
            \cup [ephemeral : Nat, encapsulationKey : Nat, ciphertext : Nat, auth : Nat],
   safeAgainstRecordedTraffic : BOOLEAN,
   safeAgainstForgedIdentity  : BOOLEAN]

TypeOK ==
  /\ names \in NameLists
  /\ pc \in {"upstream", "names", "exit 0", "exit 1"}
  /\ turn \in 1 .. Len(names) + 1
  /\ profiles \in Seq(ProfileSet)
  /\ stdout \in Seq(ProfileSet \X Nat)

Ended == pc \in {"exit 0", "exit 1"}

(* The places of the names that get rows, up to place k, and how many.     *)
Upgraded(k) == {j \in 1 .. k : names[j] # "ed25519"}
Rank(k) == Cardinality(Upgraded(k))

(***************************************************************************)
(* The tables are printed whole or not at all: upstream first, then for    *)
(* every name but Ed25519 its identity-only and its hybrid row, whatever   *)
(* the order and the repetitions of the names; a run that fails at any     *)
(* name has printed no row.                                                *)
(***************************************************************************)
TableIsWholeOrAbsent ==
  /\ pc # "exit 0" => stdout = <<>>
  /\ pc = "exit 0" =>
       /\ Range(names) \subseteq SchemeNames
       /\ Len(stdout) = 1 + 2 * Rank(Len(names))
       /\ stdout[1][1] = UpstreamHandshake
       /\ \A k \in Upgraded(Len(names)) :
            LET alone == stdout[2 * Rank(k)][1]  hybrid == stdout[2 * Rank(k) + 1][1]
            IN  /\ alone.identity = names[k]
                /\ hybrid.identity = names[k]
                /\ "ciphertext" \in DOMAIN hybrid.legs
                /\ "ciphertext" \notin DOMAIN alone.legs

(***************************************************************************)
(* The two safety columns say what the legs say, each its own: traffic     *)
(* recorded today is safe exactly in the rows that carry both directions   *)
(* of the ML-KEM exchange, whatever the identity key, and identities       *)
(* cannot be forged exactly in the rows whose node key is not Ed25519,     *)
(* whatever the key agreement.                                             *)
(***************************************************************************)
SafetyColumnsFollowTheLegs ==
  \A k \in DOMAIN stdout :
    LET p == stdout[k][1]
    IN  /\ p.safeAgainstRecordedTraffic
             <=> {"encapsulationKey", "ciphertext"} \subseteq DOMAIN p.legs
        /\ p.safeAgainstForgedIdentity <=> p.identity # "ed25519"

(***************************************************************************)
(* What the two upgrades cost, read off the printed totals: the hybrid row *)
(* of any scheme exceeds its identity-only row by the ML-KEM legs alone    *)
(* (the 2.3 KB the text speaks of), and every identity-only row exceeds    *)
(* upstream by at least the growth of key and signature.                   *)
(***************************************************************************)
UpgradesCostTheirLegs ==
  \A j, k \in DOMAIN stdout :
    LET p == stdout[j]  q == stdout[k]
        old == lookupScheme("ed25519")
        new == lookupScheme(p[1].identity)
    IN  /\ p[1].identity = q[1].identity /\ "ciphertext" \in DOMAIN p[1].legs
             /\ "ciphertext" \notin DOMAIN q[1].legs
             => p[2] - q[2] = mlkem768EncapsulationKeyBytes + mlkem768CiphertextBytes
        /\ p[2] - stdout[1][2] >=
             (new.sigBytes - old.sigBytes) + (new.pubKeyBytes - old.pubKeyBytes)

(***************************************************************************)
(* The closed form varintLen and the shift loop of the code agree on every *)
(* length of the schemes asked for and on both sides of every length at    *)
(* which a varint grows by a byte.                                         *)
(***************************************************************************)
VarintsCountShifts ==
  LET asked == {lookupScheme(name) : name \in Range(names) \cap SchemeNames}
      edges == {128^k : k \in 1 .. 4}
  IN  \A n \in {s.sigBytes : s \in asked} \cup {s.pubKeyBytes : s \in asked}
               \cup edges \cup {e - 1 : e \in edges} :
        varintLen(n) = shiftLoop[n]

(***************************************************************************)
(* "The difference is the key bytes plus any growth in the length prefix": *)
(* the figure is what marshaling a message with the scheme's key would     *)
(* give.  Refuted, since two length prefixes enclose the key: see the      *)
(* README.                                                                 *)
(***************************************************************************)
AuthLegIsTheMarshaledSize ==
  \A k \in DOMAIN profiles :
    LET s == lookupScheme(profiles[k].identity)
    IN  profiles[k].legs.auth = AuthSigMessage(s.pubKeyBytes, s.sigBytes)
=============================================================================
