-------------------------- MODULE HandshakeProofs --------------------------
(***************************************************************************)
(* The --handshake mode, for every list of names.                          *)
(***************************************************************************)
EXTENDS Handshake, FormulaProofs, SequenceTheorems

Upgrade(name, p) ==
  p = PQAuthOnlyHandshake(lookupScheme(name)) \/ p = HybridKEMHandshake(lookupScheme(name))

(* Every profile is upstream's or an upgrade to a scheme of the table.     *)
ProfilesAreKnown ==
  \A k \in DOMAIN profiles :
    \/ profiles[k] = UpstreamHandshake
    \/ \E name \in SchemeNames \ {"ed25519"} : Upgrade(name, profiles[k])

(* Each name met so far has its two profiles, at the place its rank gives. *)
NamesHaveProfiles ==
  /\ Len(profiles) = 1 + 2 * Rank(turn - 1)
  /\ profiles[1] = UpstreamHandshake
  /\ \A k \in 1 .. turn - 1 : names[k] \in SchemeNames
  /\ \A k \in Upgraded(turn - 1) :
       /\ profiles[2 * Rank(k)] = PQAuthOnlyHandshake(lookupScheme(names[k]))
       /\ profiles[2 * Rank(k) + 1] = HybridKEMHandshake(lookupScheme(names[k]))

ProfilesGrow ==
  /\ pc = "upstream" => profiles = <<>> /\ turn = 1
  /\ pc \in {"names", "exit 0"} => NamesHaveProfiles

PrintedLast ==
  /\ pc # "exit 0" => stdout = <<>>
  /\ pc = "exit 0" =>
       /\ turn = Len(names) + 1
       /\ stdout = [k \in DOMAIN profiles |-> <<profiles[k], Total(profiles[k])>>]

IInv == TypeOK /\ ProfilesAreKnown /\ ProfilesGrow /\ PrintedLast

-----------------------------------------------------------------------------
(* What varints the profiles need: a positive number of bytes, and a       *)
(* single one for the lengths of Ed25519.                                  *)
LEMMA VarintBytes ==
  /\ \A n \in Nat : varintLen(n) \in Nat /\ varintLen(n) >= 1
  /\ \A n \in 0 .. 127 : varintLen(n) = 1
<1>1. 128 < twoTo14 /\ twoTo14 < twoTo21 /\ twoTo21 < twoTo28
      /\ twoTo14 \in Nat /\ twoTo21 \in Nat /\ twoTo28 \in Nat
  BY SMT DEF twoTo14, twoTo21, twoTo28
<1> HIDE DEF twoTo14, twoTo21, twoTo28
<1> QED BY <1>1, VarintPieces, SMT

(* The lookup finds the name, and no scheme is smaller than Ed25519.       *)
LEMMA LookupSizes ==
  ASSUME NEW name \in SchemeNames
  PROVE  /\ lookupScheme(name).name = name
         /\ lookupScheme(name).sigBytes \in Nat /\ lookupScheme(name).sigBytes >= 64
         /\ lookupScheme(name).pubKeyBytes \in Nat /\ lookupScheme(name).pubKeyBytes >= 32
<1> DEFINE k == CHOOSE i \in DOMAIN schemes : schemes[i].name = name
<1>1. \E i \in DOMAIN schemes : schemes[i].name = name
  BY DEF SchemeNames
<1>2. k \in DOMAIN schemes /\ schemes[k].name = name
  BY <1>1
<1>3. DOMAIN schemes = 1 .. 10
  BY DEF schemes
<1>4. \A i \in 1 .. 10 : /\ schemes[i].sigBytes \in Nat /\ schemes[i].sigBytes >= 64
                         /\ schemes[i].pubKeyBytes \in Nat /\ schemes[i].pubKeyBytes >= 32
  BY SMT DEF schemes, Scheme
<1>5. lookupScheme(name) = schemes[k]
  BY DEF lookupScheme
<1> HIDE DEF k
<1> QED BY <1>2, <1>3, <1>4, <1>5

(* The row of the table upstream uses.                                     *)
LEMMA LookupEd25519 ==
  /\ "ed25519" \in SchemeNames
  /\ lookupScheme("ed25519") = Scheme("ed25519", 64, 32, 0)
<1> DEFINE k == CHOOSE i \in DOMAIN schemes : schemes[i].name = "ed25519"
<1>1. DOMAIN schemes = 1 .. 10
  BY DEF schemes
<1>2. \A i \in 1 .. 10 : schemes[i].name = "ed25519" <=> i = 1
  BY SMT DEF schemes, Scheme
<1>3. k = 1
  BY <1>1, <1>2
<1>4. lookupScheme("ed25519") = schemes[k]
  BY DEF lookupScheme
<1>5. schemes[1] = Scheme("ed25519", 64, 32, 0)
  BY DEF schemes
<1> HIDE DEF k
<1> QED BY <1>1, <1>2, <1>3, <1>4, <1>5 DEF SchemeNames

(* An authentication leg exceeds upstream's by at least the growth of the  *)
(* key and of the signature.                                               *)
LEMMA AuthLegGrows ==
  ASSUME NEW name \in SchemeNames
  PROVE  LET s == lookupScheme(name)
             up == authSigMessageBytes(Scheme("ed25519", 64, 32, 0))
         IN  /\ up \in Nat
             /\ authSigMessageBytes(s) \in Nat
             /\ authSigMessageBytes(s) - up >= (s.sigBytes - 64) + (s.pubKeyBytes - 32)
<1> DEFINE s    == lookupScheme(name)
           key  == MessageField(BytesField(32))
           ed   == Scheme("ed25519", 64, 32, 0)
           sig  == s.sigBytes
           pub  == s.pubKeyBytes
<1>1. /\ sig \in Nat /\ sig >= 64
      /\ pub \in Nat /\ pub >= 32
      /\ s.name = name
  BY LookupSizes
<1>2. /\ varintLen(32) = 1 /\ varintLen(64) = 1
      /\ varintLen(sig) \in Nat /\ varintLen(sig) >= 1
      /\ varintLen(pub) \in Nat /\ varintLen(pub) >= 1
  BY <1>1, VarintBytes
<1>3. key \in Nat
  <2>1. BytesField(32) \in Nat
    BY <1>2 DEF BytesField
  <2> QED BY <2>1, VarintBytes DEF MessageField
<1>4. authSigMessageBytes(ed) = key + 66
  <2>1. ed.name = "ed25519" /\ ed.sigBytes = 64
    BY DEF Scheme
  <2>2. BytesField(64) = 66
    BY <1>2 DEF BytesField
  <2> HIDE DEF ed, key
  <2> QED BY <2>1, <2>2 DEF authSigMessageBytes, AuthSigMessage, ed25519PubKeySize, key
<1>5. CASE name = "ed25519"
  <2>1. s = ed
    BY <1>5, LookupEd25519
  <2>2. ed.sigBytes = 64 /\ ed.pubKeyBytes = 32
    BY DEF Scheme
  <2>3. authSigMessageBytes(s) = key + 66 /\ s.sigBytes = 64 /\ s.pubKeyBytes = 32
    BY <2>1, <2>2, <1>4
  <2> HIDE DEF s, ed, key
  <2> QED BY <2>3, <1>3, <1>4 DEF s, ed
<1>6. CASE name # "ed25519"
  <2>1. BytesField(sig) = 1 + varintLen(sig) + sig
    BY <1>1 DEF BytesField
  <2>2. authSigMessageBytes(s)
          = key + BytesField(sig) + (pub - 32) + (varintLen(pub) - varintLen(32))
    BY <1>1, <1>6 DEF authSigMessageBytes, AuthSigMessage, ed25519PubKeySize, varintGrowth
  <2> DEFINE a == varintLen(sig)  b == varintLen(pub)
  <2>3. a \in Nat /\ a >= 1 /\ b \in Nat /\ b >= 1
    BY <1>2
  <2>4. authSigMessageBytes(s) = key + (1 + a + sig) + (pub - 32) + (b - 1)
    BY <1>2, <2>1, <2>2
  <2>5. /\ authSigMessageBytes(s) \in Nat
        /\ authSigMessageBytes(s) - (key + 66) >= (sig - 64) + (pub - 32)
    <3> HIDE DEF a, b, key, sig, pub, s
    <3> QED BY <1>1, <1>3, <2>3, <2>4
  <2>6. key + 66 \in Nat
    BY <1>3
  <2> HIDE DEF key, s, ed
  <2> QED BY <1>4, <2>5, <2>6 DEF s, ed
<1> QED BY <1>5, <1>6

(* What a profile without and one with the ML-KEM legs contains.           *)
IsAlone(p, identity, auth, forged) ==
  /\ p \in ProfileSet /\ p.identity = identity
  /\ DOMAIN p.legs = {"ephemeral", "auth"}
  /\ p.safeAgainstRecordedTraffic = FALSE /\ p.safeAgainstForgedIdentity = forged
  /\ Total(p) = 32 + auth

IsHybrid(p, identity, auth) ==
  /\ p \in ProfileSet /\ p.identity = identity
  /\ DOMAIN p.legs = {"ephemeral", "encapsulationKey", "ciphertext", "auth"}
  /\ p.safeAgainstRecordedTraffic = TRUE /\ p.safeAgainstForgedIdentity = TRUE
  /\ Total(p) = 32 + 1184 + 1088 + auth

IsOne(p, name) ==
  LET auth == authSigMessageBytes(lookupScheme(name))
  IN  IsAlone(p, name, auth, TRUE) \/ IsHybrid(p, name, auth)

AloneLegs(auth) == [ephemeral |-> 32, auth |-> auth]

HybridLegs(auth) ==
  [ephemeral |-> 32, encapsulationKey |-> 1184, ciphertext |-> 1088, auth |-> auth]

upstreamAuth == authSigMessageBytes(Scheme("ed25519", 64, 32, 0))

(* The three constructors build these.                                     *)
LEMMA ProfileParts ==
  /\ IsAlone(UpstreamHandshake, "ed25519", upstreamAuth, FALSE)
  /\ \A name \in SchemeNames :
       LET s == lookupScheme(name)
       IN  /\ IsAlone(PQAuthOnlyHandshake(s), name, authSigMessageBytes(s), TRUE)
           /\ IsHybrid(HybridKEMHandshake(s), name, authSigMessageBytes(s))
<1> USE DEF x25519PublicKeyBytes, mlkem768EncapsulationKeyBytes, mlkem768CiphertextBytes
<1>1. ASSUME NEW identity \in SchemeNames, NEW a \in Nat, NEW f \in BOOLEAN
      PROVE  IsAlone(Profile(identity, AloneLegs(a), FALSE, f), identity, a, f)
  <2> DEFINE legs == AloneLegs(a)
             p == Profile(identity, legs, FALSE, f)
  <2>1. legs \in [ephemeral : Nat, auth : Nat]
    BY DEF AloneLegs
  <2>2. DOMAIN legs = {"ephemeral", "auth"} /\ legs["ephemeral"] = 32 /\ legs["auth"] = a
    BY DEF AloneLegs
  <2> HIDE DEF legs
  <2>3. /\ p.legs = legs /\ p.identity = identity
        /\ p.safeAgainstRecordedTraffic = FALSE /\ p.safeAgainstForgedIdentity = f
    BY DEF Profile
  <2>4. p \in ProfileSet
    BY <2>1 DEF Profile, ProfileSet
  <2> HIDE DEF p
  <2>5. /\ Leg(p, "ephemeral") = 32 /\ Leg(p, "encapsulationKey") = 0
        /\ Leg(p, "ciphertext") = 0 /\ Leg(p, "auth") = a
    BY <2>2, <2>3 DEF Leg
  <2>6. Total(p) = 32 + a
    BY <2>5 DEF Total
  <2>7. IsAlone(p, identity, a, f)
    BY <2>2, <2>3, <2>4, <2>6 DEF IsAlone
  <2> QED BY <2>7 DEF p, legs
<1>2. ASSUME NEW identity \in SchemeNames, NEW a \in Nat
      PROVE  IsHybrid(Profile(identity, HybridLegs(a), TRUE, TRUE), identity, a)
  <2> DEFINE legs == HybridLegs(a)
             p == Profile(identity, legs, TRUE, TRUE)
  <2>1. legs \in [ephemeral : Nat, encapsulationKey : Nat, ciphertext : Nat, auth : Nat]
    BY DEF HybridLegs
  <2>2. /\ DOMAIN legs = {"ephemeral", "encapsulationKey", "ciphertext", "auth"}
        /\ legs["ephemeral"] = 32 /\ legs["encapsulationKey"] = 1184
        /\ legs["ciphertext"] = 1088 /\ legs["auth"] = a
    BY DEF HybridLegs
  <2> HIDE DEF legs
  <2>3. /\ p.legs = legs /\ p.identity = identity
        /\ p.safeAgainstRecordedTraffic = TRUE /\ p.safeAgainstForgedIdentity = TRUE
    BY DEF Profile
  <2>4. p \in ProfileSet
    BY <2>1 DEF Profile, ProfileSet
  <2> HIDE DEF p
  <2>5. /\ Leg(p, "ephemeral") = 32 /\ Leg(p, "encapsulationKey") = 1184
        /\ Leg(p, "ciphertext") = 1088 /\ Leg(p, "auth") = a
    BY <2>2, <2>3 DEF Leg
  <2>6. Total(p) = 32 + 1184 + 1088 + a
    BY <2>5 DEF Total
  <2>7. IsHybrid(p, identity, a)
    BY <2>2, <2>3, <2>4, <2>6 DEF IsHybrid
  <2> QED BY <2>7 DEF p, legs
<1>3. IsAlone(UpstreamHandshake, "ed25519", upstreamAuth, FALSE)
  <2>1. upstreamAuth \in Nat
    BY AuthLegGrows, LookupEd25519 DEF upstreamAuth
  <2>2. UpstreamHandshake
          = Profile("ed25519", AloneLegs(upstreamAuth), FALSE, FALSE)
    BY DEF UpstreamHandshake, AloneLegs, upstreamAuth
  <2> QED BY <1>1, <2>1, <2>2, LookupEd25519
<1>4. ASSUME NEW name \in SchemeNames
      PROVE  LET s == lookupScheme(name)
             IN  /\ IsAlone(PQAuthOnlyHandshake(s), name, authSigMessageBytes(s), TRUE)
                 /\ IsHybrid(HybridKEMHandshake(s), name, authSigMessageBytes(s))
  <2> DEFINE s == lookupScheme(name)
             a == authSigMessageBytes(s)
  <2>1. a \in Nat /\ s.name = name
    BY AuthLegGrows, LookupSizes
  <2> HIDE DEF s
  <2>2. PQAuthOnlyHandshake(s) = Profile(name, AloneLegs(a), FALSE, TRUE)
    BY <2>1 DEF AloneLegs, PQAuthOnlyHandshake
  <2>3. HybridKEMHandshake(s) = Profile(name, HybridLegs(a), TRUE, TRUE)
    BY <2>1 DEF HybridLegs, HybridKEMHandshake
  <2> HIDE DEF a
  <2>4. IsAlone(PQAuthOnlyHandshake(s), name, a, TRUE)
    BY <1>1, <2>1, <2>2
  <2>5. IsHybrid(HybridKEMHandshake(s), name, a)
    BY <1>2, <2>1, <2>3
  <2> QED BY <2>4, <2>5 DEF s, a
<1> QED BY <1>3, <1>4

-----------------------------------------------------------------------------
(* Ranks count the names with rows of their own, one at a time.            *)
LEMMA Ranks ==
  ASSUME NEW n \in Nat
  PROVE  /\ Rank(0) = 0 /\ Upgraded(0) = {}
         /\ Rank(n) \in Nat
         /\ names[n + 1] = "ed25519" =>
              Upgraded(n + 1) = Upgraded(n) /\ Rank(n + 1) = Rank(n)
         /\ names[n + 1] # "ed25519" =>
              Upgraded(n + 1) = Upgraded(n) \cup {n + 1} /\ Rank(n + 1) = Rank(n) + 1
         /\ \A k \in Upgraded(n) : Rank(k) \in 1 .. Rank(n)
<1>1. ASSUME NEW k \in Nat PROVE IsFiniteSet(Upgraded(k)) /\ Rank(k) \in Nat
  <2>1. IsFiniteSet(1 .. k)
    BY FS_Interval
  <2>2. Upgraded(k) \subseteq 1 .. k
    BY DEF Upgraded
  <2> QED BY <2>1, <2>2, FS_Subset, FS_CardinalityType DEF Rank
<1>2. Upgraded(0) = {} /\ Rank(0) = 0
  <2>1. Upgraded(0) = {}
    BY DEF Upgraded
  <2> QED BY <2>1, FS_EmptySet DEF Rank
<1>3. ASSUME names[n + 1] = "ed25519"
      PROVE  Upgraded(n + 1) = Upgraded(n) /\ Rank(n + 1) = Rank(n)
  <2>1. Upgraded(n + 1) = Upgraded(n)
    BY <1>3 DEF Upgraded
  <2> QED BY <2>1 DEF Rank
<1>4. ASSUME names[n + 1] # "ed25519"
      PROVE  Upgraded(n + 1) = Upgraded(n) \cup {n + 1} /\ Rank(n + 1) = Rank(n) + 1
  <2>1. Upgraded(n + 1) = Upgraded(n) \cup {n + 1}
    BY <1>4 DEF Upgraded
  <2>2. n + 1 \notin Upgraded(n)
    BY DEF Upgraded
  <2>3. Cardinality(Upgraded(n) \cup {n + 1}) = Cardinality(Upgraded(n)) + 1
    BY <1>1, <2>2, FS_AddElement
  <2> QED BY <2>1, <2>3 DEF Rank
<1>5. ASSUME NEW k \in Upgraded(n) PROVE Rank(k) \in 1 .. Rank(n)
  <2>1. k \in 1 .. n /\ names[k] # "ed25519"
    BY DEF Upgraded
  <2>2. Upgraded(k) \subseteq Upgraded(n) /\ k \in Upgraded(k)
    BY <2>1 DEF Upgraded
  <2>3. Rank(k) <= Rank(n)
    BY <1>1, <2>2, FS_Subset DEF Rank
  <2>4. Rank(k) # 0
    BY <1>1, <2>1, <2>2, FS_EmptySet DEF Rank
  <2> QED BY <1>1, <2>1, <2>3, <2>4
<1> QED BY <1>1, <1>2, <1>3, <1>4, <1>5

(* The names are a list that is not empty.                                 *)
LEMMA NameFacts ==
  ASSUME TypeOK
  PROVE  /\ names \in Seq(STRING) /\ names # <<>>
         /\ Len(names) \in Nat /\ DOMAIN names = 1 .. Len(names)
         /\ turn \in Nat \ {0}
<1>1. names \in Seq(STRING) /\ names # <<>>
  BY NameListsAssumption DEF TypeOK
<1>2. Len(names) \in Nat /\ DOMAIN names = 1 .. Len(names)
  BY <1>1, LenProperties
<1>3. turn \in 1 .. Len(names) + 1
  BY DEF TypeOK
<1> QED BY <1>1, <1>2, <1>3

(* The printed lines are profiles with their totals.                       *)
LEMMA PrintedType ==
  ASSUME profiles \in Seq(ProfileSet),
         \A k \in DOMAIN profiles : Total(profiles[k]) \in Nat
  PROVE  [k \in DOMAIN profiles |-> <<profiles[k], Total(profiles[k])>>]
           \in Seq(ProfileSet \X Nat)
<1>1. DOMAIN profiles = 1 .. Len(profiles) /\ Len(profiles) \in Nat
      /\ \A k \in 1 .. Len(profiles) : profiles[k] \in ProfileSet
  BY LenProperties, ElementOfSeq
<1> DEFINE F(k) == <<profiles[k], Total(profiles[k])>>
<1>2. \A k \in 1 .. Len(profiles) : F(k) \in ProfileSet \X Nat
  BY <1>1
<1> HIDE DEF F
<1>3. [k \in 1 .. Len(profiles) |-> F(k)] \in Seq(ProfileSet \X Nat)
  BY <1>1, <1>2, IsASeq
<1> QED BY <1>1, <1>3 DEF F

(* Every profile has a total, since its legs are lengths.                  *)
LEMMA KnownProfile ==
  ASSUME NEW p,
         \/ p = UpstreamHandshake
         \/ \E name \in SchemeNames \ {"ed25519"} : Upgrade(name, p)
  PROVE  /\ p \in ProfileSet /\ Total(p) \in Nat
         /\ \/ IsAlone(p, "ed25519", upstreamAuth, FALSE)
            \/ \E name \in SchemeNames \ {"ed25519"} : IsOne(p, name)
<1>1. CASE p = UpstreamHandshake
  <2>1. IsAlone(p, "ed25519", upstreamAuth, FALSE)
    BY <1>1, ProfileParts
  <2>2. upstreamAuth \in Nat
    BY AuthLegGrows, LookupEd25519 DEF upstreamAuth
  <2>3. p \in ProfileSet /\ Total(p) = 32 + upstreamAuth
    BY <2>1 DEF IsAlone
  <2>4. p \in ProfileSet /\ Total(p) \in Nat
    BY <2>2, <2>3
  <2> QED BY <2>1, <2>4
<1>2. ASSUME NEW name \in SchemeNames \ {"ed25519"}, Upgrade(name, p) 
      PROVE  p \in ProfileSet /\ Total(p) \in Nat /\ IsOne(p, name)
  <2> DEFINE a == authSigMessageBytes(lookupScheme(name))
  <2>1. IsAlone(p, name, a, TRUE) \/ IsHybrid(p, name, a)
    BY <1>2, ProfileParts DEF Upgrade
  <2>2. a \in Nat
    BY AuthLegGrows
  <2> HIDE DEF a
  <2>3. p \in ProfileSet /\ (Total(p) = 32 + a \/ Total(p) = 32 + 1184 + 1088 + a)
    BY <2>1 DEF IsAlone, IsHybrid
  <2>4. Total(p) \in Nat
    BY <2>2, <2>3
  <2>5. IsOne(p, name)
    BY <2>1 DEF IsOne, a
  <2> QED BY <2>3, <2>4, <2>5
<1> QED BY <1>1, <1>2

-----------------------------------------------------------------------------
(* Nothing is computed or printed at the start.                            *)
LEMMA HandshakeInit == Init => IInv
<1> SUFFICES ASSUME Init PROVE IInv
  OBVIOUS
<1>1. names \in Seq(STRING) /\ Len(names) \in Nat
  BY NameListsAssumption, LenProperties DEF Init
<1>2. TypeOK
  BY <1>1 DEF Init, TypeOK
<1>3. ProfilesAreKnown /\ ProfilesGrow /\ PrintedLast
  BY DEF Init, ProfilesAreKnown, ProfilesGrow, PrintedLast
<1> QED BY <1>2, <1>3 DEF IInv

(* Two profiles are appended, after those of the names before.             *)
LEMMA AppendedPair ==
  ASSUME NEW S, NEW s \in Seq(S), NEW a \in S, NEW b \in S
  PROVE  /\ s \o <<a, b>> \in Seq(S)
         /\ Len(s \o <<a, b>>) = Len(s) + 2
         /\ \A k \in 1 .. Len(s) : (s \o <<a, b>>)[k] = s[k]
         /\ (s \o <<a, b>>)[Len(s) + 1] = a
         /\ (s \o <<a, b>>)[Len(s) + 2] = b
<1>1. <<a, b>> \in Seq(S) /\ Len(<<a, b>>) = 2 /\ <<a, b>>[1] = a /\ <<a, b>>[2] = b
  OBVIOUS
<1> DEFINE t == <<a, b>>
<1> HIDE DEF t
<1>2. t \in Seq(S) /\ Len(t) = 2 /\ t[1] = a /\ t[2] = b
  BY <1>1 DEF t
<1>3. /\ s \o t \in Seq(S)
      /\ Len(s \o t) = Len(s) + Len(t)
      /\ \A k \in 1 .. Len(s) + Len(t) :
           (s \o t)[k] = IF k <= Len(s) THEN s[k] ELSE t[k - Len(s)]
  BY <1>2, ConcatProperties
<1>4. Len(s) \in Nat
  BY LenProperties
<1> QED BY <1>2, <1>3, <1>4 DEF t

(* The names never change, and their ranks with them.                      *)
LEMMA RanksConstant ==
  ASSUME names' = names
  PROVE  \A k : Rank(k)' = Rank(k) /\ Upgraded(k)' = Upgraded(k)
BY DEF Rank, Upgraded

(* Upstream comes first, or its message cannot be marshaled.               *)
LEMMA MeasureUpstreamStep == IInv /\ MeasureUpstream => IInv'
<1> SUFFICES ASSUME IInv, MeasureUpstream PROVE IInv'
  OBVIOUS
<1>1. /\ pc = "upstream" /\ profiles = <<>> /\ turn = 1 /\ stdout = <<>>
      /\ UNCHANGED <<names, turn, stdout>>
  BY DEF IInv, MeasureUpstream, ProfilesGrow, PrintedLast
<1>2. CASE profiles' = <<UpstreamHandshake>> /\ pc' = "names"
  <2>1. UpstreamHandshake \in ProfileSet
    BY KnownProfile
  <2> DEFINE up == UpstreamHandshake
  <2>2. /\ profiles' \in Seq(ProfileSet) /\ Len(profiles') = 1
        /\ profiles'[1] = up /\ DOMAIN profiles' = {1}
    <3> HIDE DEF up
    <3> QED BY <1>2, <2>1 DEF up
  <2>3. TypeOK'
    BY <1>1, <1>2, <2>2 DEF TypeOK, IInv
  <2>4. ProfilesAreKnown'
    BY <2>2 DEF ProfilesAreKnown
  <2>5. Rank(0) = 0 /\ Upgraded(0) = {}
    BY Ranks
  <2>6. Rank(turn - 1)' = 0 /\ Upgraded(turn - 1)' = {}
    <3>1. (turn - 1)' = 0
      BY <1>1
    <3>2. names' = names
      BY <1>1
    <3> QED BY <3>1, <3>2, <2>5 DEF Rank, Upgraded
  <2>7. ProfilesGrow'
    <3>1. turn' - 1 = 0 /\ 1 .. (turn - 1)' = {}
      BY <1>1
    <3> QED BY <1>2, <2>2, <2>6, <3>1 DEF ProfilesGrow, NamesHaveProfiles
  <2>8. PrintedLast'
    BY <1>1, <1>2 DEF PrintedLast
  <2> QED BY <2>3, <2>4, <2>7, <2>8 DEF IInv
<1>3. CASE UNCHANGED profiles /\ pc' = "exit 1"
  <2>1. TypeOK'
    BY <1>1, <1>3 DEF TypeOK, IInv
  <2> QED BY <1>1, <1>3, <2>1 DEF IInv, ProfilesAreKnown, ProfilesGrow, PrintedLast
<1> QED BY <1>1, <1>2, <1>3 DEF MeasureUpstream, Goto

(* A skipped name has no rank, and needs no profiles.                      *)
LEMMA SkipEd25519Step == IInv /\ SkipEd25519 => IInv'
<1> SUFFICES ASSUME IInv, SkipEd25519 PROVE IInv'
  OBVIOUS
<1>1. /\ pc = "names" /\ turn <= Len(names) /\ names[turn] = "ed25519"
      /\ turn' = turn + 1 /\ UNCHANGED <<names, pc, profiles, stdout>>
  BY DEF SkipEd25519
<1>2. turn \in Nat \ {0} /\ Len(names) \in Nat
  BY NameFacts DEF IInv
<1>3. TypeOK'
  BY <1>1, <1>2 DEF TypeOK, IInv
<1>4. ProfilesAreKnown' /\ PrintedLast'
  BY <1>1 DEF IInv, ProfilesAreKnown, PrintedLast
<1>5. PICK n \in Nat : n = turn - 1
  BY <1>2
<1>6. turn' - 1 = n + 1 /\ n + 1 = turn
  BY <1>1, <1>2, <1>5
<1>7. Rank(n + 1) = Rank(n) /\ Upgraded(n + 1) = Upgraded(n)
  <2>1. names[n + 1] = "ed25519"
    BY <1>1, <1>6
  <2> QED BY <2>1, Ranks
<1>8. NamesHaveProfiles
  BY <1>1 DEF IInv, ProfilesGrow
<1>9. NamesHaveProfiles'
  <2>1. \A k : Rank(k)' = Rank(k) /\ Upgraded(k)' = Upgraded(k)
    BY <1>1, RanksConstant
  <2>2. /\ Len(profiles) = 1 + 2 * Rank(n) /\ profiles[1] = UpstreamHandshake
        /\ \A k \in 1 .. n : names[k] \in SchemeNames
        /\ \A k \in Upgraded(n) :
             /\ profiles[2 * Rank(k)] = PQAuthOnlyHandshake(lookupScheme(names[k]))
             /\ profiles[2 * Rank(k) + 1] = HybridKEMHandshake(lookupScheme(names[k]))
    BY <1>5, <1>8 DEF NamesHaveProfiles
  <2>3. \A k \in 1 .. n + 1 : names[k] \in SchemeNames
    BY <1>1, <1>6, <2>2, LookupEd25519
  <2>4. Rank(turn - 1)' = Rank(n) /\ Upgraded(turn - 1)' = Upgraded(n)
    BY <1>1, <1>6, <1>7 DEF Rank, Upgraded
  <2>5. names' = names /\ profiles' = profiles
    BY <1>1
  <2> QED BY <1>6, <2>1, <2>2, <2>3, <2>4, <2>5 DEF NamesHaveProfiles
<1>10. ProfilesGrow'
  BY <1>1, <1>9 DEF ProfilesGrow
<1> QED BY <1>3, <1>4, <1>10 DEF IInv

(* The two new profiles are at the places the rank of the name gives.      *)
LEMMA AddProfilesStep == IInv /\ AddProfiles => IInv'
<1> SUFFICES ASSUME IInv, AddProfiles PROVE IInv'
  OBVIOUS
<1> DEFINE s == lookupScheme(names[turn])
           a == PQAuthOnlyHandshake(s)
           b == HybridKEMHandshake(s)
           both == profiles \o <<a, b>>
<1>1. /\ pc = "names" /\ turn <= Len(names) /\ names[turn] \in SchemeNames \ {"ed25519"}
      /\ profiles' = both /\ turn' = turn + 1 /\ UNCHANGED <<names, pc, stdout>>
  BY DEF AddProfiles, scheme
<1>2. turn \in Nat \ {0} /\ Len(names) \in Nat
  BY NameFacts DEF IInv
<1>3. Upgrade(names[turn], a) /\ Upgrade(names[turn], b)
  BY DEF Upgrade
<1>4. a \in ProfileSet /\ b \in ProfileSet
  BY <1>1, <1>3, KnownProfile
<1>5. profiles \in Seq(ProfileSet) /\ Len(profiles) \in Nat /\ DOMAIN profiles = 1 .. Len(profiles)
  BY LenProperties DEF IInv, TypeOK
<1>6. /\ both \in Seq(ProfileSet) /\ Len(both) = Len(profiles) + 2
      /\ \A k \in 1 .. Len(profiles) : both[k] = profiles[k]
      /\ both[Len(profiles) + 1] = a /\ both[Len(profiles) + 2] = b
  <2> HIDE DEF a, b
  <2> QED BY <1>4, <1>5, AppendedPair
<1>7. DOMAIN both = 1 .. Len(profiles) + 2
  BY <1>6, LenProperties
<1> HIDE DEF both
<1>8. TypeOK'
  BY <1>1, <1>2, <1>6 DEF TypeOK, IInv
<1>9. ProfilesAreKnown'
  <2> HIDE DEF a, b
  <2>1. ASSUME NEW k \in 1 .. Len(profiles) + 2
        PROVE  \/ both[k] = UpstreamHandshake
               \/ \E name \in SchemeNames \ {"ed25519"} : Upgrade(name, both[k])
    <3>1. CASE k \in 1 .. Len(profiles)
      BY <3>1, <1>5, <1>6 DEF IInv, ProfilesAreKnown
    <3>2. CASE k \notin 1 .. Len(profiles)
      <4>1. both[k] = a \/ both[k] = b
        BY <1>5, <1>6, <3>2
      <4> QED BY <4>1, <1>1, <1>3
    <3> QED BY <3>1, <3>2
  <2> QED BY <1>1, <1>7, <2>1 DEF ProfilesAreKnown
<1>10. PrintedLast'
  BY <1>1 DEF IInv, PrintedLast
<1>11. PICK n \in Nat : n = turn - 1
  BY <1>2
<1>12. turn' - 1 = n + 1 /\ n + 1 = turn
  BY <1>1, <1>2, <1>11
<1>13. /\ Rank(n + 1) = Rank(n) + 1 /\ Upgraded(n + 1) = Upgraded(n) \cup {n + 1}
       /\ Rank(n) \in Nat /\ \A k \in Upgraded(n) : Rank(k) \in 1 .. Rank(n)
  BY <1>1, <1>12, Ranks
<1>14. /\ Len(profiles) = 1 + 2 * Rank(n) /\ profiles[1] = UpstreamHandshake
       /\ \A k \in 1 .. n : names[k] \in SchemeNames
       /\ \A k \in Upgraded(n) :
            /\ profiles[2 * Rank(k)] = PQAuthOnlyHandshake(lookupScheme(names[k]))
            /\ profiles[2 * Rank(k) + 1] = HybridKEMHandshake(lookupScheme(names[k]))
  BY <1>1, <1>11 DEF IInv, ProfilesGrow, NamesHaveProfiles
<1>15. NamesHaveProfiles'
  <2> DEFINE len == Len(profiles)  r == Rank(n)
  <2>1. len = 1 + 2 * r /\ r \in Nat
    BY <1>13, <1>14
  <2>2. Len(both) = 1 + 2 * Rank(n + 1)
    <3>1. Len(both) = len + 2 /\ Rank(n + 1) = r + 1
      BY <1>6, <1>13
    <3> HIDE DEF len, r
    <3> QED BY <2>1, <3>1
  <2>3. both[1] = UpstreamHandshake
    <3>1. 1 \in 1 .. len
      <4> HIDE DEF len, r
      <4> QED BY <2>1
    <3> QED BY <3>1, <1>6, <1>14
  <2>4. \A k \in 1 .. n + 1 : names[k] \in SchemeNames
    BY <1>1, <1>12, <1>14
  <2>5. ASSUME NEW k \in Upgraded(n + 1)
        PROVE  /\ both[2 * Rank(k)] = PQAuthOnlyHandshake(lookupScheme(names[k]))
               /\ both[2 * Rank(k) + 1] = HybridKEMHandshake(lookupScheme(names[k]))
    <3>1. CASE k \in Upgraded(n)
      <4> DEFINE q == Rank(k)
      <4>1. q \in 1 .. r
        BY <3>1, <1>13
      <4>2. 2 * q \in 1 .. len /\ 2 * q + 1 \in 1 .. len
        <5> HIDE DEF len, r, q
        <5> QED BY <2>1, <4>1
      <4>3. both[2 * q] = profiles[2 * q] /\ both[2 * q + 1] = profiles[2 * q + 1]
        BY <1>6, <4>2
      <4> QED BY <1>14, <3>1, <4>3
    <3>2. CASE k = n + 1
      <4>1. Rank(k) = r + 1 /\ names[k] = names[turn]
        BY <1>12, <1>13, <3>2
      <4>2. 2 * Rank(k) = len + 1 /\ 2 * Rank(k) + 1 = len + 2
        <5> DEFINE q == Rank(k)
        <5>1. q = r + 1
          BY <4>1
        <5> HIDE DEF len, r, q
        <5>2. 2 * q = len + 1 /\ 2 * q + 1 = len + 2
          BY <2>1, <5>1
        <5> QED BY <5>2 DEF q
      <4> QED BY <1>6, <4>1, <4>2
    <3> QED BY <1>13, <3>1, <3>2
  <2>6. Rank(turn - 1)' = Rank(n + 1) /\ Upgraded(turn - 1)' = Upgraded(n + 1)
    BY <1>1, <1>12 DEF Rank, Upgraded
  <2>7. \A k : Rank(k)' = Rank(k)
    BY <1>1, RanksConstant
  <2>8. names' = names /\ profiles' = both
    BY <1>1
  <2> HIDE DEF a, b, s
  <2> QED BY <1>12, <2>2, <2>3, <2>4, <2>5, <2>6, <2>7, <2>8 DEF NamesHaveProfiles
<1>16. ProfilesGrow'
  BY <1>1, <1>15 DEF ProfilesGrow
<1> QED BY <1>8, <1>9, <1>10, <1>16 DEF IInv

(* A failure prints nothing.                                               *)
LEMMA FailNameStep == IInv /\ FailName => IInv'
<1> SUFFICES ASSUME IInv, FailName PROVE IInv'
  OBVIOUS
<1>1. /\ pc = "names" /\ pc' = "exit 1"
      /\ UNCHANGED <<names, turn, profiles, stdout>>
  BY DEF FailName, Goto
<1> QED BY <1>1 DEF IInv, TypeOK, ProfilesAreKnown, ProfilesGrow, PrintedLast

(* All that is printed is printed at once.                                 *)
LEMMA PrintProfilesStep == IInv /\ PrintProfiles => IInv'
<1> SUFFICES ASSUME IInv, PrintProfiles PROVE IInv'
  OBVIOUS
<1> DEFINE lines == [k \in DOMAIN profiles |-> <<profiles[k], Total(profiles[k])>>]
<1>1. /\ pc = "names" /\ turn > Len(names) /\ pc' = "exit 0" /\ stdout' = lines
      /\ UNCHANGED <<names, turn, profiles>>
  BY DEF PrintProfiles, Goto
<1>2. turn = Len(names) + 1
  <2> DEFINE n == Len(names)
  <2>1. n \in Nat
    BY NameFacts DEF IInv
  <2>2. turn \in 1 .. n + 1
    BY DEF IInv, TypeOK
  <2>3. turn > n
    BY <1>1
  <2> HIDE DEF n
  <2>4. turn = n + 1
    BY <2>1, <2>2, <2>3
  <2> QED BY <2>4 DEF n
<1>3. lines \in Seq(ProfileSet \X Nat)
  <2>1. \A k \in DOMAIN profiles : Total(profiles[k]) \in Nat
    BY KnownProfile DEF IInv, ProfilesAreKnown
  <2>2. profiles \in Seq(ProfileSet)
    BY DEF IInv, TypeOK
  <2> QED BY <2>1, <2>2, PrintedType
<1> HIDE DEF lines
<1>4. TypeOK'
  BY <1>1, <1>3 DEF IInv, TypeOK
<1>5. ProfilesAreKnown'
  BY <1>1 DEF IInv, ProfilesAreKnown
<1>6. NamesHaveProfiles
  BY <1>1 DEF IInv, ProfilesGrow
<1>7. ProfilesGrow'
  BY <1>1, <1>6 DEF ProfilesGrow, NamesHaveProfiles, Rank, Upgraded
<1>8. PrintedLast'
  BY <1>1, <1>2 DEF PrintedLast, lines
<1> QED BY <1>4, <1>5, <1>7, <1>8 DEF IInv

(* Nothing happens.                                                        *)
LEMMA HandshakeStutter == IInv /\ UNCHANGED vars => IInv'
BY DEF vars, IInv, TypeOK, ProfilesAreKnown, ProfilesGrow, NamesHaveProfiles, PrintedLast,
       Rank, Upgraded

(* Every step, together.                                                   *)
LEMMA HandshakeNext == IInv /\ [Next]_vars => IInv'
BY MeasureUpstreamStep, SkipEd25519Step, AddProfilesStep, FailNameStep,
   PrintProfilesStep, HandshakeStutter DEF Next

(* IInv is inductive: reportHandshake computes each profile at its place.  *)
THEOREM HandshakeInvariant == Spec => []IInv
BY HandshakeInit, HandshakeNext, PTL DEF Spec

(* Every leg is a length and every total a sum, although the legs of a     *)
(* longer key are derived by subtraction (handshake.go).                   *)
THEOREM HandshakeTypeCorrect == Spec => []TypeOK
BY HandshakeInvariant, PTL DEF IInv

(* A sequence has one length.                                              *)
LEMMA SameInterval ==
  ASSUME NEW a \in Nat, NEW b \in Nat, 1 .. a = 1 .. b
  PROVE  a = b
<1>1. a <= b
  <2>1. a = 0 \/ a \in 1 .. b
    OBVIOUS
  <2> QED BY <2>1
<1>2. b <= a
  <2>1. b = 0 \/ b \in 1 .. a
    OBVIOUS
  <2> QED BY <2>1
<1> QED BY <1>1, <1>2

(* The lines printed at the end of a run.                                  *)
LEMMA PrintedLines ==
  ASSUME IInv, NEW k \in DOMAIN stdout
  PROVE  /\ pc = "exit 0"
         /\ k \in DOMAIN profiles
         /\ stdout[k] = <<profiles[k], Total(profiles[k])>>
         /\ stdout[1] = <<UpstreamHandshake, Total(UpstreamHandshake)>>
<1>1. pc = "exit 0"
  <2>1. DOMAIN <<>> = {}
    OBVIOUS
  <2>2. stdout # <<>>
    BY <2>1
  <2> QED BY <2>2 DEF IInv, PrintedLast
<1>2. stdout = [j \in DOMAIN profiles |-> <<profiles[j], Total(profiles[j])>>]
  BY <1>1 DEF IInv, PrintedLast
<1>3. profiles[1] = UpstreamHandshake /\ Len(profiles) = 1 + 2 * Rank(turn - 1)
  BY <1>1 DEF IInv, ProfilesGrow, NamesHaveProfiles
<1>4. k \in DOMAIN profiles
  BY <1>2
<1>5. 1 \in DOMAIN profiles
  <2>1. DOMAIN profiles = 1 .. Len(profiles) /\ Len(profiles) \in Nat
    BY LenProperties DEF IInv, TypeOK
  <2> QED BY <1>4, <2>1
<1> QED BY <1>1, <1>2, <1>3, <1>4, <1>5

(* The lines printed are those of all the names.                           *)
LEMMA HandshakeWholes == IInv => TableIsWholeOrAbsent
<1> SUFFICES ASSUME IInv PROVE TableIsWholeOrAbsent
  OBVIOUS
<1>1. pc # "exit 0" => stdout = <<>>
  BY DEF IInv, PrintedLast
<1>2. ASSUME pc = "exit 0"
      PROVE  /\ Range(names) \subseteq SchemeNames
             /\ Len(stdout) = 1 + 2 * Rank(Len(names))
             /\ stdout[1][1] = UpstreamHandshake
             /\ \A k \in Upgraded(Len(names)) :
                  /\ stdout[2 * Rank(k)][1] = PQAuthOnlyHandshake(lookupScheme(names[k]))
                  /\ stdout[2 * Rank(k) + 1][1] = HybridKEMHandshake(lookupScheme(names[k]))
                  /\ names[k] \in SchemeNames
  <2> DEFINE n == Len(names)  r == Rank(n)  len == Len(profiles)
  <2>1. /\ turn = n + 1
        /\ stdout = [j \in DOMAIN profiles |-> <<profiles[j], Total(profiles[j])>>]
    BY <1>2 DEF IInv, PrintedLast
  <2>2. n \in Nat /\ DOMAIN names = 1 .. n /\ turn - 1 = n
    BY <2>1, NameFacts DEF IInv
  <2>3. NamesHaveProfiles
    BY <1>2 DEF IInv, ProfilesGrow
  <2>4. /\ len = 1 + 2 * r
        /\ profiles[1] = UpstreamHandshake
        /\ \A k \in 1 .. n : names[k] \in SchemeNames
        /\ \A k \in Upgraded(n) :
             /\ profiles[2 * Rank(k)] = PQAuthOnlyHandshake(lookupScheme(names[k]))
             /\ profiles[2 * Rank(k) + 1] = HybridKEMHandshake(lookupScheme(names[k]))
    BY <2>2, <2>3 DEF NamesHaveProfiles
  <2>5. r \in Nat /\ \A k \in Upgraded(n) : Rank(k) \in 1 .. r
    BY <2>2, Ranks
  <2>6. DOMAIN profiles = 1 .. len /\ len \in Nat
    BY LenProperties DEF IInv, TypeOK
  <2>7. DOMAIN stdout = 1 .. len /\ \A j \in 1 .. len : stdout[j][1] = profiles[j]
    BY <2>1, <2>6
  <2>8. Len(stdout) = len
    <3>1. stdout \in Seq(ProfileSet \X Nat)
      BY DEF IInv, TypeOK
    <3>2. Len(stdout) \in Nat /\ DOMAIN stdout = 1 .. Len(stdout)
      BY <3>1, LenProperties
    <3> QED BY <3>2, <2>6, <2>7, SameInterval
  <2>9. 1 \in 1 .. len
    <3> HIDE DEF r, len
    <3> QED BY <2>4, <2>5
  <2>10. ASSUME NEW k \in Upgraded(n)
         PROVE  2 * Rank(k) \in 1 .. len /\ 2 * Rank(k) + 1 \in 1 .. len
    <3> DEFINE q == Rank(k)
    <3>1. q \in 1 .. r
      BY <2>5
    <3> HIDE DEF q, r, len
    <3>2. 2 * q \in 1 .. len /\ 2 * q + 1 \in 1 .. len
      BY <2>4, <2>5, <3>1
    <3> QED BY <3>2 DEF q
  <2>11. Upgraded(n) \subseteq 1 .. n
    BY DEF Upgraded
  <2>12. Range(names) \subseteq SchemeNames
    BY <2>2, <2>4 DEF Range
  <2> QED BY <2>4, <2>7, <2>8, <2>9, <2>10, <2>11, <2>12
<1>3. ASSUME pc = "exit 0", NEW k \in Upgraded(Len(names))
      PROVE  LET alone == stdout[2 * Rank(k)][1]  hybrid == stdout[2 * Rank(k) + 1][1]
             IN  /\ alone.identity = names[k] /\ hybrid.identity = names[k]
                 /\ "ciphertext" \in DOMAIN hybrid.legs
                 /\ "ciphertext" \notin DOMAIN alone.legs
  <2> DEFINE alone == stdout[2 * Rank(k)][1]  hybrid == stdout[2 * Rank(k) + 1][1]
             auth  == authSigMessageBytes(lookupScheme(names[k]))
  <2>1. IsAlone(alone, names[k], auth, TRUE) /\ IsHybrid(hybrid, names[k], auth)
    BY <1>2, <1>3, ProfileParts
  <2> HIDE DEF alone, hybrid, auth
  <2>2. alone.identity = names[k] /\ "ciphertext" \notin DOMAIN alone.legs
    BY <2>1 DEF IsAlone
  <2>3. hybrid.identity = names[k] /\ "ciphertext" \in DOMAIN hybrid.legs
    BY <2>1 DEF IsHybrid
  <2> QED BY <2>2, <2>3 DEF alone, hybrid
<1> QED BY <1>1, <1>2, <1>3 DEF TableIsWholeOrAbsent

(***************************************************************************)
(* reportHandshake (main.go) computes every profile before it prints: for  *)
(* any list of names, with whatever order and repetitions, the tables are  *)
(* upstream's row and two rows for each name but Ed25519, in the order of  *)
(* the names; a run that ends with an error has printed none of them.      *)
(***************************************************************************)
THEOREM HandshakeTablesAreWhole == Spec => []TableIsWholeOrAbsent
BY HandshakeWholes, HandshakeInvariant, PTL

(***************************************************************************)
(* The columns SafeAgainstRecordedTraffic and SafeAgainstForgedIdentity,   *)
(* written as literals in three constructors of handshake.go, say what the *)
(* legs and the node key of their row say.                                 *)
(***************************************************************************)
THEOREM SafetyColumnsAreTheLegs == Spec => []SafetyColumnsFollowTheLegs
<1>1. IInv => SafetyColumnsFollowTheLegs
  <2> SUFFICES ASSUME IInv, NEW k \in DOMAIN stdout
               PROVE  LET p == stdout[k][1]
                      IN  /\ p.safeAgainstRecordedTraffic
                               <=> {"encapsulationKey", "ciphertext"} \subseteq DOMAIN p.legs
                          /\ p.safeAgainstForgedIdentity <=> p.identity # "ed25519"
    BY DEF SafetyColumnsFollowTheLegs
  <2> DEFINE p == profiles[k]
  <2>1. stdout[k][1] = p /\ k \in DOMAIN profiles
    <3>1. stdout[k] = <<p, Total(p)>> /\ k \in DOMAIN profiles
      BY PrintedLines
    <3> QED BY <3>1
  <2>2. \/ IsAlone(p, "ed25519", upstreamAuth, FALSE)
        \/ \E name \in SchemeNames \ {"ed25519"} : IsOne(p, name)
    BY <2>1, KnownProfile DEF IInv, ProfilesAreKnown
  <2> HIDE DEF p
  <2>3. /\ p.safeAgainstRecordedTraffic
             <=> {"encapsulationKey", "ciphertext"} \subseteq DOMAIN p.legs
        /\ p.safeAgainstForgedIdentity <=> p.identity # "ed25519"
    BY <2>2 DEF IsOne, IsAlone, IsHybrid
  <2> QED BY <2>1, <2>3
<1> QED BY <1>1, HandshakeInvariant, PTL

(***************************************************************************)
(* What the upgrades of handshake.go cost, for any two printed rows: the   *)
(* hybrid row of a scheme exceeds its identity-only row by the ML-KEM legs *)
(* alone, and no row exceeds upstream's by less than its key and signature *)
(* grow, although its authentication leg is derived and not marshaled.     *)
(***************************************************************************)
THEOREM UpgradesCostWhatTheyAdd == Spec => []UpgradesCostTheirLegs
<1>1. ASSUME IInv, NEW j \in DOMAIN stdout
      PROVE  LET p == stdout[j]
                 name == p[1].identity
                 auth == authSigMessageBytes(lookupScheme(name))
             IN  /\ name \in SchemeNames /\ auth \in Nat
                 /\ p[2] = 32 + auth + IF "ciphertext" \in DOMAIN p[1].legs
                                       THEN 1184 + 1088 ELSE 0
  <2> DEFINE p == profiles[j]
  <2>1. stdout[j] = <<p, Total(p)>> /\ j \in DOMAIN profiles
    BY <1>1, PrintedLines
  <2>2. \/ IsAlone(p, "ed25519", upstreamAuth, FALSE)
        \/ \E name \in SchemeNames \ {"ed25519"} : IsOne(p, name)
    BY <1>1, <2>1, KnownProfile DEF IInv, ProfilesAreKnown
  <2> HIDE DEF p
  <2> DEFINE auth == authSigMessageBytes(lookupScheme(p.identity))
             extra == IF "ciphertext" \in DOMAIN p.legs THEN 1184 + 1088 ELSE 0
  <2>3. p.identity \in SchemeNames /\ Total(p) = 32 + auth + extra
    <3>1. CASE IsAlone(p, "ed25519", upstreamAuth, FALSE)
      <4>1. p.identity = "ed25519" /\ extra = 0 /\ Total(p) = 32 + upstreamAuth
        BY <3>1 DEF IsAlone
      <4>2. auth = upstreamAuth /\ upstreamAuth \in Nat
        BY <4>1, LookupEd25519, AuthLegGrows DEF upstreamAuth
      <4> HIDE DEF auth, extra
      <4> QED BY <4>1, <4>2, LookupEd25519
    <3>2. ASSUME NEW name \in SchemeNames \ {"ed25519"}, IsOne(p, name)
          PROVE  p.identity \in SchemeNames /\ Total(p) = 32 + auth + extra
      <4> DEFINE a == authSigMessageBytes(lookupScheme(name))
      <4>1. a \in Nat
        BY AuthLegGrows
      <4>2. IsAlone(p, name, a, TRUE) \/ IsHybrid(p, name, a)
        BY <3>2 DEF IsOne
      <4> HIDE DEF a
      <4>3. /\ p.identity = name
            /\ \/ extra = 0 /\ Total(p) = 32 + a
               \/ extra = 1184 + 1088 /\ Total(p) = 32 + 1184 + 1088 + a
        BY <4>2 DEF IsAlone, IsHybrid
      <4>4. auth = a
        BY <4>3 DEF a
      <4> HIDE DEF auth, extra
      <4> QED BY <4>1, <4>3, <4>4
    <3> QED BY <2>2, <3>1, <3>2
  <2>4. auth \in Nat
    BY <2>3, AuthLegGrows
  <2>5. stdout[j][1] = p /\ stdout[j][2] = Total(p)
    BY <2>1
  <2> QED BY <2>3, <2>4, <2>5
<1>2. ASSUME IInv, NEW j \in DOMAIN stdout, NEW k \in DOMAIN stdout
      PROVE  LET p == stdout[j]  q == stdout[k]
                 old == lookupScheme("ed25519")
                 new == lookupScheme(p[1].identity)
             IN  /\ p[1].identity = q[1].identity /\ "ciphertext" \in DOMAIN p[1].legs
                      /\ "ciphertext" \notin DOMAIN q[1].legs
                      => p[2] - q[2] = mlkem768EncapsulationKeyBytes + mlkem768CiphertextBytes
                 /\ p[2] - stdout[1][2] >=
                      (new.sigBytes - old.sigBytes) + (new.pubKeyBytes - old.pubKeyBytes)
  <2> DEFINE p == stdout[j]  q == stdout[k]
             new == lookupScheme(p[1].identity)
             a == authSigMessageBytes(new)
             b == authSigMessageBytes(lookupScheme(q[1].identity))
             extra == IF "ciphertext" \in DOMAIN p[1].legs THEN 1184 + 1088 ELSE 0
  <2>1. p[1].identity \in SchemeNames /\ a \in Nat /\ p[2] = 32 + a + extra
    BY <1>1, <1>2
  <2>2. /\ b \in Nat
        /\ q[2] = 32 + b + IF "ciphertext" \in DOMAIN q[1].legs THEN 1184 + 1088 ELSE 0
    BY <1>1, <1>2
  <2>3. ASSUME p[1].identity = q[1].identity, "ciphertext" \in DOMAIN p[1].legs,
               "ciphertext" \notin DOMAIN q[1].legs
        PROVE  p[2] - q[2] = mlkem768EncapsulationKeyBytes + mlkem768CiphertextBytes
    <3>1. a = b
      BY <2>3
    <3>2. p[2] = 32 + a + (1184 + 1088) /\ q[2] = 32 + a + 0
      BY <2>1, <2>2, <2>3, <3>1
    <3> HIDE DEF a, p, q
    <3> QED BY <2>1, <3>2 DEF mlkem768EncapsulationKeyBytes, mlkem768CiphertextBytes
  <2>4. stdout[1][2] = 32 + upstreamAuth /\ upstreamAuth \in Nat
    <3>1. stdout[1] = <<UpstreamHandshake, Total(UpstreamHandshake)>>
      BY <1>2, PrintedLines
    <3>2. Total(UpstreamHandshake) = 32 + upstreamAuth
      BY ProfileParts DEF IsAlone
    <3> QED BY <3>1, <3>2, LookupEd25519, AuthLegGrows DEF upstreamAuth
  <2>5. /\ lookupScheme("ed25519").sigBytes = 64
        /\ lookupScheme("ed25519").pubKeyBytes = 32
    BY LookupEd25519 DEF Scheme
  <2>6. a - upstreamAuth >= (new.sigBytes - 64) + (new.pubKeyBytes - 32)
    BY <2>1, AuthLegGrows DEF upstreamAuth
  <2>7. new.sigBytes \in Nat /\ new.pubKeyBytes \in Nat
    BY <2>1, LookupSizes
  <2>8. extra \in Nat
    OBVIOUS
  <2>9. p[2] - stdout[1][2] >= (new.sigBytes - 64) + (new.pubKeyBytes - 32)
    <3> DEFINE s == new.sigBytes  k0 == new.pubKeyBytes  up == stdout[1][2]
    <3> HIDE DEF a, extra, p, q, new, s, k0, up
    <3>1. p[2] = 32 + a + extra /\ up = 32 + upstreamAuth /\ a \in Nat
      BY <2>1, <2>4 DEF up
    <3>2. a - upstreamAuth >= (s - 64) + (k0 - 32) /\ s \in Nat /\ k0 \in Nat
      BY <2>6, <2>7 DEF s, k0
    <3>3. p[2] - up >= (s - 64) + (k0 - 32)
      BY <2>4, <2>8, <3>1, <3>2
    <3> QED BY <3>3 DEF s, k0, up
  <2> HIDE DEF a, b, extra
  <2> QED BY <2>3, <2>5, <2>9
<1>3. IInv => UpgradesCostTheirLegs
  BY <1>2 DEF UpgradesCostTheirLegs
<1> QED BY <1>3, HandshakeInvariant, PTL

(* No length of the table takes more than two bytes.                       *)
LEMMA SizeLimits ==
  ASSUME NEW name \in SchemeNames
  PROVE  /\ lookupScheme(name).sigBytes \in Nat /\ lookupScheme(name).sigBytes <= 17088
         /\ lookupScheme(name).pubKeyBytes \in Nat /\ lookupScheme(name).pubKeyBytes <= 17088
<1> DEFINE k == CHOOSE i \in DOMAIN schemes : schemes[i].name = name
<1>1. \E i \in DOMAIN schemes : schemes[i].name = name
  BY DEF SchemeNames
<1>2. k \in DOMAIN schemes
  BY <1>1
<1>3. DOMAIN schemes = 1 .. 10
  BY DEF schemes
<1>4. \A i \in 1 .. 10 : /\ schemes[i].sigBytes \in Nat /\ schemes[i].sigBytes <= 17088
                         /\ schemes[i].pubKeyBytes \in Nat /\ schemes[i].pubKeyBytes <= 17088
  BY SMT DEF schemes, Scheme
<1>5. lookupScheme(name) = schemes[k]
  BY DEF lookupScheme
<1> HIDE DEF k
<1> QED BY <1>2, <1>3, <1>4, <1>5

(* The closed form of the model is the shift loop of the code for every    *)
(* length of the schemes and around every number at which a varint grows   *)
(* (handshake.go, 58-67).                                                  *)
THEOREM ClosedFormIsTheLoop == Spec => []VarintsCountShifts
<1> DEFINE asked == {lookupScheme(name) : name \in Range(names) \cap SchemeNames}
           edges == {128^k : k \in 1 .. 4}
           last  == 128 * twoTo28
           Agree(n) == n \in Nat /\ n < last
<1>1. /\ 128^1 = 128 /\ 128^2 = twoTo14 /\ 128^3 = twoTo21 /\ 128^4 = twoTo28
      /\ twoTo14 \in Nat /\ twoTo21 \in Nat /\ twoTo28 \in Nat /\ last \in Nat
      /\ 128 < twoTo14 /\ twoTo14 < twoTo21 /\ twoTo21 < twoTo28 /\ twoTo28 < last
      /\ 17088 < last
  BY SMT DEF twoTo14, twoTo21, twoTo28
<1> HIDE DEF last
<1>2. \A n : Agree(n) => varintLen(n) = shiftLoop[n]
  BY VarintIsShiftLoop DEF last
<1>3. ASSUME NEW e \in edges PROVE Agree(e) /\ Agree(e - 1)
  <2>1. PICK k \in 1 .. 4 : e = 128^k
    OBVIOUS
  <2>2. k = 1 \/ k = 2 \/ k = 3 \/ k = 4
    BY <2>1
  <2>3. e = 128 \/ e = twoTo14 \/ e = twoTo21 \/ e = twoTo28
    BY <1>1, <2>1, <2>2
  <2> HIDE DEF edges
  <2> QED BY <1>1, <2>3
<1>4. ASSUME NEW s \in asked PROVE Agree(s.sigBytes) /\ Agree(s.pubKeyBytes)
  <2>1. PICK name \in SchemeNames : s = lookupScheme(name)
    OBVIOUS
  <2> DEFINE sig == s.sigBytes  pub == s.pubKeyBytes
  <2>2. sig \in Nat /\ sig <= 17088 /\ pub \in Nat /\ pub <= 17088
    BY <2>1, SizeLimits
  <2> HIDE DEF asked, sig, pub
  <2>3. Agree(sig) /\ Agree(pub)
    BY <1>1, <2>2
  <2> QED BY <2>3 DEF sig, pub
<1> DEFINE lengths == {s.sigBytes : s \in asked} \cup {s.pubKeyBytes : s \in asked}
                        \cup edges \cup {e - 1 : e \in edges}
<1>5. \A n \in lengths : Agree(n)
  <2> HIDE DEF asked, edges, Agree
  <2> QED BY <1>3, <1>4
<1>6. \A n \in lengths : varintLen(n) = shiftLoop[n]
  <2> HIDE DEF lengths, Agree
  <2> QED BY <1>2, <1>5
<1>7. VarintsCountShifts
  BY <1>6 DEF VarintsCountShifts
<1> QED BY <1>7, PTL
=============================================================================
