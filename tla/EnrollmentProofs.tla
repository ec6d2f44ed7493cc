-------------------------- MODULE EnrollmentProofs --------------------------
(***************************************************************************)
(* Proofs about Enrollment, for any users, browsers, passkeys and tokens.  *)
(***************************************************************************)
EXTENDS Enrollment, FiniteSetTheorems, TLAPS

\* A token that is not burned has registered nothing; one that has, left a user
\* behind, so that no boot puts it back.
TokenOK(t) ==
    /\ enrolled[t] <= 1
    /\ token[t].at # "burned" => enrolled[t] = 0
    /\ enrolled[t] > 0 => accounts # {}

EnrollmentInv ==
    /\ EnrollmentTypeOK
    /\ ChallengeBinds
    /\ \A t \in Tokens : TokenOK(t)

-----------------------------------------------------------------------------
(* Helpers *)

\* Issuing and burning a token keep the file well formed.
LEMMA IssueType ==
    ASSUME EnrollmentTypeOK, NEW t \in Tokens, NEW name \in Names \union {NoName},
           NEW admin \in BOOLEAN, Issue(t, name, admin)
    PROVE  /\ token' \in [Tokens -> Token]
           /\ token'[t].at = "issued"
           /\ \A u \in Tokens \ {t} : token'[u] = token[u]
BY EnrollmentAssumption DEF EnrollmentTypeOK, Issue, Token

LEMMA BurnedType ==
    ASSUME EnrollmentTypeOK, NEW t \in Tokens
    PROVE  /\ Burned(t) \in [Tokens -> Token]
           /\ Burned(t)[t].at = "burned"
           /\ \A u \in Tokens \ {t} : Burned(t)[u] = token[u]
BY DEF EnrollmentTypeOK, Burned, Token

\* A registration adds one new passkey, to the account it was asked for.
LEMMA RegisterKeys ==
    ASSUME EnrollmentTypeOK, ChallengeBinds, NEW b \in Browsers, NEW name \in Names,
           NEW k \in Keys, Register(b, name, k)
    PROVE  /\ keys' \in [Names -> SUBSET Keys]
           /\ origin' \in [Keys -> Names \union {NoName}]
           /\ \A n \in Names \ {name} : keys'[n] = keys[n]
           /\ keys'[name] = keys[name] \union {k}
           /\ ChallengeBinds'
<1>1. /\ keys' = [keys EXCEPT ![name] = @ \union {k}]
      /\ origin' = [origin EXCEPT ![k] = seal[b]]
      /\ seal[b] = name
      /\ \A n \in Names : k \notin keys[n]
  BY DEF Register, Opens
<1>2. keys \in [Names -> SUBSET Keys] /\ origin \in [Keys -> Names \union {NoName}]
  BY DEF EnrollmentTypeOK
<1>3. keys' \in [Names -> SUBSET Keys] /\ origin' \in [Keys -> Names \union {NoName}]
  BY <1>1, <1>2
<1>4. \A n \in Names \ {name} : keys'[n] = keys[n]
  BY <1>1, <1>2
<1>5. keys'[name] = keys[name] \union {k}
  BY <1>1, <1>2
<1>6. ASSUME NEW n \in Names, NEW q \in keys'[n] PROVE origin'[q] = n
  <2>1. CASE q = k
    BY <2>1, <1>1, <1>2, <1>4, <1>6
  <2>2. CASE q # k
    <3>1. q \in keys[n]
      BY <2>2, <1>4, <1>5, <1>6
    <3>2. origin'[q] = origin[q]
      BY <2>2, <3>1, <1>1, <1>2
    <3> QED BY <3>1, <3>2 DEF ChallengeBinds
  <2> QED BY <2>1, <2>2
<1> QED BY <1>3, <1>4, <1>5, <1>6 DEF ChallengeBinds

\* create_user adds at most the named user.
LEMMA CreateAccounts ==
    ASSUME EnrollmentTypeOK, NEW t \in Tokens, NEW name \in Names, Create(t, name)
    PROVE  /\ accounts' \subseteq Names
           /\ accounts \subseteq accounts'
           /\ name \in accounts'
           /\ admins' \subseteq accounts'
           /\ admins \subseteq admins'
BY DEF EnrollmentTypeOK, Create

\* Nothing but a burn or an issue changes what is known of the tokens.
LEMMA TokensKept ==
    ASSUME EnrollmentInv, UNCHANGED <<token, enrolled>>,
           accounts # {} => accounts' # {}
    PROVE  \A t \in Tokens : TokenOK(t)'
BY DEF EnrollmentInv, TokenOK

-----------------------------------------------------------------------------
(* The invariant *)

LEMMA EnrollmentStart == EnrollmentInit => EnrollmentInv
BY EnrollmentAssumption
   DEF EnrollmentInit, EnrollmentInv, EnrollmentTypeOK, Token, ChallengeBinds, TokenOK

LEMMA BootStep ==
    ASSUME EnrollmentInv, NEW preset \in Presets, Boot(preset)
    PROVE  EnrollmentInv'
<1>1. EnrollmentTypeOK /\ ChallengeBinds /\ \A t \in Tokens : TokenOK(t)
  BY DEF EnrollmentInv
<1>2. PICK t \in Tokens : Issue(t, NoName, TRUE)
  BY EnrollmentAssumption DEF Boot
<1>3. /\ accounts = {}
      /\ UNCHANGED <<accounts, admins, keys, doubled, cookie, seal, now, enrolled, origin>>
  BY DEF Boot
<1>4. token' \in [Tokens -> Token] /\ \A u \in Tokens \ {t} : token'[u] = token[u]
  BY <1>1, <1>2, IssueType DEF EnrollmentTypeOK
<1>5. EnrollmentTypeOK'
  BY <1>1, <1>2, <1>3, <1>4 DEF EnrollmentTypeOK
<1>6. ChallengeBinds'
  BY <1>1, <1>3 DEF ChallengeBinds
<1>7. \A u \in Tokens : enrolled[u] = 0
  BY <1>1, <1>3 DEF TokenOK, EnrollmentTypeOK
<1>8. \A u \in Tokens : TokenOK(u)'
  BY <1>3, <1>7 DEF TokenOK
<1> QED BY <1>5, <1>6, <1>8 DEF EnrollmentInv

LEMMA SetupStep ==
    ASSUME EnrollmentInv, NEW b \in Browsers, NEW t \in Tokens, NEW name \in Names,
           NEW k \in Keys, SetupVerify(b, t, name, k)
    PROVE  EnrollmentInv'
<1>1. EnrollmentTypeOK /\ ChallengeBinds /\ \A u \in Tokens : TokenOK(u)
  BY DEF EnrollmentInv
<1>2. /\ Register(b, name, k) /\ Create(t, name) /\ Valid(t)
      /\ token' = Burned(t)
      /\ enrolled' = [enrolled EXCEPT ![t] = @ + 1]
      /\ cookie' \in {cookie, [cookie EXCEPT ![b] = name]}
      /\ UNCHANGED <<doubled, seal, now>>
  BY DEF SetupVerify
<1>3. EnrollmentTypeOK'
  <2>1. cookie' \in [Browsers -> Names \union {NoName}]
    BY <1>1, <1>2 DEF EnrollmentTypeOK
  <2>2. enrolled' \in [Tokens -> Nat]
    BY <1>1, <1>2 DEF EnrollmentTypeOK
  <2>3. \A n \in Names \ accounts' : keys'[n] = {}
    BY <1>1, <1>2, RegisterKeys, CreateAccounts DEF EnrollmentTypeOK
  <2> QED BY <1>1, <1>2, <2>1, <2>2, <2>3, RegisterKeys, CreateAccounts, BurnedType
          DEF EnrollmentTypeOK
<1>4. ChallengeBinds'
  BY <1>1, <1>2, RegisterKeys
<1>5. accounts' # {}
  BY <1>1, <1>2, CreateAccounts
<1>6. ASSUME NEW u \in Tokens PROVE TokenOK(u)'
  <2>1. CASE u = t
    <3>1. enrolled[t] = 0 /\ enrolled'[t] = 1
      BY <1>1, <1>2 DEF TokenOK, Valid, EnrollmentTypeOK
    <3>2. token'[t].at = "burned"
      BY <1>1, <1>2, BurnedType
    <3> QED BY <2>1, <3>1, <3>2, <1>5 DEF TokenOK
  <2>2. CASE u # t
    <3>1. token'[u] = token[u] /\ enrolled'[u] = enrolled[u]
      BY <2>2, <1>1, <1>2, BurnedType DEF EnrollmentTypeOK
    <3> QED BY <3>1, <1>1, <1>5 DEF TokenOK
  <2> QED BY <2>1, <2>2
<1> QED BY <1>3, <1>4, <1>6 DEF EnrollmentInv

LEMMA SetupFailsStep ==
    ASSUME EnrollmentInv, NEW t \in Tokens, NEW name \in Names, SetupFails(t, name)
    PROVE  EnrollmentInv'
<1>1. EnrollmentTypeOK /\ ChallengeBinds /\ \A u \in Tokens : TokenOK(u)
  BY DEF EnrollmentInv
<1>2. /\ token' = Burned(t)
      /\ UNCHANGED <<accounts, admins>> \/ Create(t, name)
      /\ UNCHANGED <<keys, doubled, cookie, seal, now, enrolled, origin>>
  BY DEF SetupFails
<1>3. /\ accounts \subseteq accounts' /\ accounts' \subseteq Names
      /\ admins' \subseteq accounts'
  BY <1>1, <1>2, CreateAccounts DEF EnrollmentTypeOK
<1>4. EnrollmentTypeOK'
  BY <1>1, <1>2, <1>3, BurnedType DEF EnrollmentTypeOK
<1>5. ChallengeBinds'
  BY <1>1, <1>2 DEF ChallengeBinds
<1>6. ASSUME NEW u \in Tokens PROVE TokenOK(u)'
  <2>1. token'[u].at # "burned" => token[u].at # "burned"
    BY <1>1, <1>2, BurnedType
  <2> QED BY <2>1, <1>1, <1>2, <1>3 DEF TokenOK
<1> QED BY <1>4, <1>5, <1>6 DEF EnrollmentInv

LEMMA InviteStep ==
    ASSUME EnrollmentInv, NEW b \in Browsers, NEW t \in Tokens,
           NEW name \in Names \union {NoName}, NEW admin \in BOOLEAN, Invite(b, t, name, admin)
    PROVE  EnrollmentInv'
<1>1. EnrollmentTypeOK /\ ChallengeBinds /\ \A u \in Tokens : TokenOK(u)
  BY DEF EnrollmentInv
<1>2. /\ token[t].at = "none" /\ Issue(t, name, admin)
      /\ UNCHANGED <<accounts, admins, keys, doubled, cookie, seal, now, enrolled, origin>>
  BY DEF Invite
<1>3. EnrollmentTypeOK'
  BY <1>1, <1>2, IssueType DEF EnrollmentTypeOK
<1>4. ChallengeBinds'
  BY <1>1, <1>2 DEF ChallengeBinds
<1>5. \A u \in Tokens : token'[u].at # "burned" => token[u].at # "burned"
  BY <1>1, <1>2, IssueType
<1>6. \A u \in Tokens : TokenOK(u)'
  BY <1>1, <1>2, <1>5 DEF TokenOK
<1> QED BY <1>3, <1>4, <1>6 DEF EnrollmentInv

\* Who deletes a user stays.
LEMMA DeleteKeeps ==
    ASSUME EnrollmentTypeOK, NEW b \in Browsers, NEW n \in Names, DeleteUser(b, n)
    PROVE  cookie[b] \in admins' /\ admins' \subseteq accounts'
BY DEF EnrollmentTypeOK, DeleteUser, MayDelete, IsAdmin

\* What the pages of logged-in users do.
LEMMA PageStep ==
    ASSUME EnrollmentInv, NEW b \in Browsers, Page(b)
    PROVE  EnrollmentInv'
<1>1. EnrollmentTypeOK /\ ChallengeBinds
  BY DEF EnrollmentInv
<1>2. CASE Logout(b)
  <2>1. EnrollmentTypeOK' /\ ChallengeBinds'
    BY <1>1, <1>2 DEF Logout, EnrollmentTypeOK, ChallengeBinds
  <2> QED BY <1>2, <2>1, TokensKept DEF Logout, EnrollmentInv
<1>3. CASE PasskeyOptions(b)
  <2>1. EnrollmentTypeOK' /\ ChallengeBinds'
    BY <1>1, <1>3 DEF PasskeyOptions, EnrollmentTypeOK, ChallengeBinds
  <2> QED BY <1>3, <2>1, TokensKept DEF PasskeyOptions, EnrollmentInv
<1>4. ASSUME NEW k \in Keys, PasskeyVerify(b, k) PROVE EnrollmentInv'
  <2>1. cookie[b] \in Names /\ cookie[b] \in accounts /\ Register(b, cookie[b], k)
    BY <1>1, <1>4 DEF PasskeyVerify, IsUser, EnrollmentTypeOK
  <2>2. EnrollmentTypeOK' /\ ChallengeBinds'
    BY <1>1, <1>4, <2>1, RegisterKeys DEF PasskeyVerify, EnrollmentTypeOK
  <2> QED BY <1>4, <2>2, TokensKept DEF PasskeyVerify, EnrollmentInv
<1>5. ASSUME NEW k \in Keys, PasskeyDelete(b, k) PROVE EnrollmentInv'
  <2>1. EnrollmentTypeOK' /\ ChallengeBinds'
    BY <1>1, <1>5 DEF PasskeyDelete, IsUser, EnrollmentTypeOK, ChallengeBinds
  <2> QED BY <1>5, <2>1, TokensKept DEF PasskeyDelete, EnrollmentInv
<1>6. ASSUME NEW n \in Names, Login(b, n) PROVE EnrollmentInv'
  <2>1. EnrollmentTypeOK' /\ ChallengeBinds'
    BY <1>1, <1>6 DEF Login, EnrollmentTypeOK, ChallengeBinds
  <2> QED BY <1>6, <2>1, TokensKept DEF Login, EnrollmentInv
<1>7. ASSUME NEW n \in Names, DeleteUser(b, n) PROVE EnrollmentInv'
  <2>1. EnrollmentTypeOK' /\ ChallengeBinds'
    BY <1>1, <1>7 DEF DeleteUser, EnrollmentTypeOK, ChallengeBinds
  <2>2. accounts' # {}
    BY <1>1, <1>7, DeleteKeeps
  <2> QED BY <1>7, <2>1, <2>2, TokensKept DEF DeleteUser, EnrollmentInv
<1>8. ASSUME NEW t \in Tokens, NEW n \in Names \union {NoName}, NEW admin \in BOOLEAN,
             Invite(b, t, n, admin)
      PROVE  EnrollmentInv'
  BY <1>8, InviteStep
<1> QED BY <1>2, <1>3, <1>4, <1>5, <1>6, <1>7, <1>8 DEF Page

LEMMA EnrollmentStep == EnrollmentInv /\ [EnrollmentNext]_enrollmentVars => EnrollmentInv'
<1> SUFFICES ASSUME EnrollmentInv, [EnrollmentNext]_enrollmentVars PROVE EnrollmentInv'
  OBVIOUS
<1>1. EnrollmentTypeOK /\ ChallengeBinds
  BY DEF EnrollmentInv
<1>2. CASE UNCHANGED enrollmentVars
  BY <1>2 DEF enrollmentVars, EnrollmentInv, EnrollmentTypeOK, ChallengeBinds, TokenOK
<1>3. ASSUME NEW preset \in Presets, Boot(preset) PROVE EnrollmentInv'
  BY <1>3, BootStep
<1>4. ASSUME NEW t \in Tokens, NEW name \in Names, Enroll(t, name) PROVE EnrollmentInv'
  <2>1. ASSUME NEW b \in Browsers, SetupOptions(b, t, name) PROVE EnrollmentInv'
    <3>1. EnrollmentTypeOK' /\ ChallengeBinds'
      BY <1>1, <2>1 DEF SetupOptions, EnrollmentTypeOK, ChallengeBinds
    <3> QED BY <2>1, <3>1, TokensKept DEF SetupOptions, EnrollmentInv
  <2> QED BY <1>4, <2>1, SetupStep, SetupFailsStep DEF Enroll
<1>5. ASSUME NEW b \in Browsers, Page(b) PROVE EnrollmentInv'
  BY <1>5, PageStep
<1>6. CASE Pass
  <2>1. EnrollmentTypeOK' /\ ChallengeBinds'
    BY <1>1, <1>6 DEF Pass, EnrollmentTypeOK, ChallengeBinds
  <2> QED BY <1>6, <2>1, TokensKept DEF Pass, EnrollmentInv
<1> QED BY <1>2, <1>3, <1>4, <1>5, <1>6 DEF EnrollmentNext

LEMMA EnrollmentInvariant == EnrollmentSpec => []EnrollmentInv
BY EnrollmentStart, EnrollmentStep, PTL DEF EnrollmentSpec

-----------------------------------------------------------------------------
(* The theorems *)

\* Every variable stays in its set: in particular only users are administrators
\* and only users have passkeys.
THEOREM TypeCorrect == EnrollmentSpec => []EnrollmentTypeOK
<1>1. EnrollmentInv => EnrollmentTypeOK
  BY DEF EnrollmentInv
<1> QED BY <1>1, EnrollmentInvariant, PTL

\* A token registers at most one passkey, however often the gateway boots.
THEOREM TokensEnrollOnce == EnrollmentSpec => []TokenEnrollsOnce
<1>1. EnrollmentInv => TokenEnrollsOnce
  BY DEF EnrollmentInv, TokenEnrollsOnce, TokenOK
<1> QED BY <1>1, EnrollmentInvariant, PTL

\* A passkey belongs to the account whose challenge it answered.
THEOREM ChallengesBind == EnrollmentSpec => []ChallengeBinds
<1>1. EnrollmentInv => ChallengeBinds
  BY DEF EnrollmentInv
<1> QED BY <1>1, EnrollmentInvariant, PTL

\* The last administrator is never deleted.
THEOREM AnAdminRemains == EnrollmentSpec => AdminRemains
<1>1. EnrollmentInv /\ [EnrollmentNext]_enrollmentVars => [admins # {} => admins' # {}]_enrollmentVars
  <2> SUFFICES ASSUME EnrollmentInv, EnrollmentNext, admins # {} PROVE admins' # {}
    OBVIOUS
  <2>1. EnrollmentTypeOK
    BY DEF EnrollmentInv
  <2>2. ASSUME NEW t \in Tokens, NEW name \in Names, Enroll(t, name) PROVE admins' # {}
    <3>1. UNCHANGED admins \/ Create(t, name)
      BY <2>2 DEF Enroll, SetupFails, SetupOptions, SetupVerify
    <3> QED BY <2>1, <3>1, CreateAccounts
  <2>3. ASSUME NEW b \in Browsers, Page(b) PROVE admins' # {}
    <3>1. ASSUME NEW n \in Names, DeleteUser(b, n) PROVE admins' # {}
      BY <2>1, <3>1, DeleteKeeps
    <3> QED BY <2>3, <3>1
            DEF Page, Logout, PasskeyOptions, PasskeyVerify, PasskeyDelete, Login, Invite
  <2> QED BY <2>2, <2>3 DEF EnrollmentNext, Boot, Pass
<1> QED BY <1>1, EnrollmentInvariant, PTL DEF EnrollmentSpec, AdminRemains

\* Taking one of several leaves some.
LEMMA OneRemains ==
    ASSUME NEW K, IsFiniteSet(K), Cardinality(K) > 1, NEW k
    PROVE  K \ {k} # {}
<1> SUFFICES ASSUME K \subseteq {k} PROVE FALSE
  OBVIOUS
<1>1. IsFiniteSet({k}) /\ Cardinality({k}) = 1
  BY FS_Singleton
<1>2. Cardinality(K) <= 1
  BY <1>1, FS_Subset
<1>3. Cardinality(K) \in Nat
  BY FS_CardinalityType
<1> QED BY <1>2, <1>3

\* Only a passkey that is listed twice can be a user's last one and be removed.
THEOREM PasskeysAreKept == EnrollmentSpec => OnlyDoubledLost
<1> DEFINE Kept == \A n \in accounts \intersect accounts' :
                      keys[n] # {} /\ keys'[n] = {} => keys[n] \subseteq doubled
<1>1. EnrollmentInv /\ [EnrollmentNext]_enrollmentVars => [Kept]_enrollmentVars
  <2> SUFFICES ASSUME EnrollmentInv, EnrollmentNext,
                      NEW n \in accounts \intersect accounts', keys[n] # {}, keys'[n] = {}
               PROVE  keys[n] \subseteq doubled
    OBVIOUS
  <2>1. EnrollmentTypeOK /\ ChallengeBinds /\ n \in Names
    BY DEF EnrollmentInv, EnrollmentTypeOK
  <2>2. ASSUME NEW t \in Tokens, NEW name \in Names, Enroll(t, name) PROVE keys'[n] # {}
    <3>1. ASSUME NEW b \in Browsers, NEW k \in Keys, SetupVerify(b, t, name, k)
          PROVE  keys'[n] # {}
      <4>1. Register(b, name, k)
        BY <3>1 DEF SetupVerify
      <4> QED BY <2>1, <4>1, RegisterKeys
    <3> QED BY <2>2, <3>1 DEF Enroll, SetupFails, SetupOptions
  <2>3. ASSUME NEW b \in Browsers, Page(b) PROVE keys[n] \subseteq doubled
    <3>1. ASSUME NEW k \in Keys, PasskeyVerify(b, k) PROVE FALSE
      <4>1. cookie[b] \in Names /\ Register(b, cookie[b], k)
        BY <2>1, <3>1 DEF PasskeyVerify, IsUser, EnrollmentTypeOK
      <4> QED BY <2>1, <4>1, RegisterKeys
    <3>2. ASSUME NEW k \in Keys, PasskeyDelete(b, k) PROVE keys[n] \subseteq doubled
      <4>1. n = cookie[b] /\ keys[n] \subseteq {k} /\ MayRemove(n)
        BY <2>1, <3>2 DEF PasskeyDelete, EnrollmentTypeOK
      <4>2. IsFiniteSet(keys[n])
        BY <2>1, FS_Subset, EnrollmentAssumption DEF EnrollmentTypeOK
      <4>3. keys[n] \intersect doubled # {}
        BY <4>1, <4>2, OneRemains DEF MayRemove
      <4> QED BY <4>1, <4>3
    <3>3. ASSUME NEW m \in Names, DeleteUser(b, m) PROVE FALSE
      BY <2>1, <3>3 DEF DeleteUser, EnrollmentTypeOK
    <3> QED BY <2>3, <3>1, <3>2, <3>3
            DEF Page, Logout, PasskeyOptions, Login, Invite
  <2> QED BY <2>2, <2>3 DEF EnrollmentNext, Boot, Pass
<1> QED BY <1>1, EnrollmentInvariant, PTL DEF EnrollmentSpec, OnlyDoubledLost
=============================================================================
