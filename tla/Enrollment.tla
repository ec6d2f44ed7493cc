----------------------------- MODULE Enrollment -----------------------------
(***************************************************************************)
(* Who may use the admin UI: accounts, passkeys and one-time tokens        *)
(* (store/users.py), WebAuthn registrations (admin/webauthn_flow.py),      *)
(* session cookies (admin/security.py) and the handlers that change them   *)
(* (admin/app.py).  There are no passwords.                                *)
(*                                                                         *)
(* A handler runs on the event loop from its last await to its end, so it  *)
(* is one action; but each of its file writes can be the last one it does  *)
(* (an I/O error, or the end of the program).                              *)
(***************************************************************************)
EXTENDS Naturals, FiniteSets

CONSTANTS
    Names,     \* usernames
    Keys,      \* passkeys, by credential id
    Browsers,
    Tokens,    \* enrollment tokens
    NoName, NoToken,
    Presets,   \* the values of ENV.setup_token, NoToken if it is empty
    TokenTTL,  \* TOKEN_TTL_SECONDS, in ticks of the clock
    LastTick    \* bound: the clock stops here

ASSUME EnrollmentAssumption ==
    /\ NoName \notin Names
    /\ NoToken \notin Tokens
    /\ Presets \subseteq Tokens \union {NoToken}
    /\ IsFiniteSet(Keys)
    /\ TokenTTL \in Nat \ {0}
    /\ LastTick \in Nat

VARIABLES
    accounts,   \* users.yml: the users
    admins,     \* those with is_admin
    keys,       \* a user's credentials
    doubled,    \* the credentials that users.yml lists more than once
    token,      \* tokens.yml, and what became of a token
    cookie,     \* the user a browser's session cookie names
    seal,       \* the user a browser's sealed registration challenge is for
    now,        \* the clock
    enrolled,   \* history: how many passkeys a token registered
    origin      \* history: the user whose challenge a passkey answered

enrollmentVars == <<accounts, admins, keys, doubled, token, cookie, seal, now, enrolled, origin>>

Token ==
    [at: {"none", "issued", "burned"}, name: Names \union {NoName},
     is_admin: BOOLEAN, expires: Nat]

EnrollmentTypeOK ==
    /\ accounts \subseteq Names
    /\ admins \subseteq accounts
    /\ keys \in [Names -> SUBSET Keys]
    /\ \A n \in Names \ accounts : keys[n] = {}
    /\ doubled \subseteq Keys
    /\ token \in [Tokens -> Token]
    /\ cookie \in [Browsers -> Names \union {NoName}]
    /\ seal \in [Browsers -> Names \union {NoName}]
    /\ now \in Nat
    /\ enrolled \in [Tokens -> Nat]
    /\ origin \in [Keys -> Names \union {NoName}]

EnrollmentInit ==
    /\ accounts = {} /\ admins = {}
    /\ keys = [n \in Names |-> {}] /\ doubled = {}
    /\ token = [t \in Tokens |->
                   [at |-> "none", name |-> NoName, is_admin |-> FALSE, expires |-> 0]]
    /\ cookie = [b \in Browsers |-> NoName]
    /\ seal = [b \in Browsers |-> NoName]
    /\ now = 0
    /\ enrolled = [t \in Tokens |-> 0]
    /\ origin = [k \in Keys |-> NoName]

-----------------------------------------------------------------------------
(* Tokens *)

\* peek_token: the token is in the file and has not expired.
Valid(t) == token[t].at = "issued" /\ token[t].expires > now

Issue(t, name, admin) ==
    token' = [token EXCEPT ![t] = [at |-> "issued", name |-> name,
                                   is_admin |-> admin, expires |-> now + TokenTTL]]

\* A wrong consume_token: the token is looked up and stays in the file.
PeekOnly(t) == token

\* consume_token takes it out of the file.
Burned(t) == [token EXCEPT ![t].at = "burned"]

\* bootstrap_setup_token: without users there is a setup token, the preset one,
\* which is added to the file unless it is there, or else a new one.
Boot(preset) ==
    /\ accounts = {}
    /\ \/ /\ preset # NoToken
          /\ token[preset].at # "issued"
          /\ Issue(preset, NoName, TRUE)
       \/ /\ preset = NoToken
          /\ \E t \in Tokens \ Presets : token[t].at = "none" /\ Issue(t, NoName, TRUE)
    /\ UNCHANGED <<accounts, admins, keys, doubled, cookie, seal, now, enrolled, origin>>

-----------------------------------------------------------------------------
(* Registration *)

\* The user's name: fixed by the token, or chosen in the form.
Fits(t, name) == token[t].name \in {name, NoName}

\* setup_options: a challenge for the name, which must be free, or be the one
\* the token was issued for.
SetupOptions(b, t, name) ==
    /\ Valid(t)
    /\ Fits(t, name)
    /\ keys[name] = {} \/ token[t].name = name
    /\ seal' = [seal EXCEPT ![b] = name]
    /\ UNCHANGED <<accounts, admins, keys, doubled, token, cookie, now, enrolled, origin>>

\* A wrong open_challenge: it does not look at the context.
OpensAny(b, name) == seal[b] # NoName

\* open_challenge: the browser's sealed challenge was issued for this name.
Opens(b, name) == seal[b] = name

\* verify_registration: a passkey answers the browser's challenge.  A new
\* passkey has a new credential id.
Register(b, name, k) ==
    /\ Opens(b, name)
    /\ \A n \in Names : k \notin keys[n]
    /\ keys' = [keys EXCEPT ![name] = @ \union {k}]
    /\ origin' = [origin EXCEPT ![k] = seal[b]]

\* A wrong setup_verify: an invited user is taken to exist already.
CreateChosen(t, name) ==
    IF token[t].name = NoName
    THEN accounts' = accounts \union {name} /\ admins' = admins \union {name}
    ELSE UNCHANGED <<accounts, admins>>

\* create_user, unless the user exists.
Create(t, name) ==
    /\ accounts' = accounts \union {name}
    /\ admins' = IF name \notin accounts /\ token[t].is_admin
                 THEN admins \union {name} ELSE admins

\* setup_verify that got to its end: the token is burned, the user created, the
\* passkey verified and added, and the browser logged in, unless the audit
\* record fails.
SetupVerify(b, t, name, k) ==
    /\ Valid(t)
    /\ Fits(t, name)
    /\ Register(b, name, k)
    /\ token' = Burned(t)
    /\ Create(t, name)
    /\ enrolled' = [enrolled EXCEPT ![t] = @ + 1]
    /\ cookie' \in {cookie, [cookie EXCEPT ![b] = name]}
    /\ UNCHANGED <<doubled, seal, now>>

\* setup_verify that did not: it is stopped after burning the token, or the
\* passkey is not verified after the user was created (a challenge that expired
\* or was issued for another name, a user who declined).
SetupFails(t, name) ==
    /\ Valid(t)
    /\ Fits(t, name)
    /\ token' = Burned(t)
    /\ UNCHANGED <<accounts, admins>> \/ Create(t, name)
    /\ UNCHANGED <<keys, doubled, cookie, seal, now, enrolled, origin>>

-----------------------------------------------------------------------------
(* Sessions *)

\* auth_verify: a registered passkey logs its owner in.
Login(b, n) ==
    /\ keys[n] # {}
    /\ cookie' = [cookie EXCEPT ![b] = n]
    /\ UNCHANGED <<accounts, admins, keys, doubled, token, seal, now, enrolled, origin>>

\* logout, or the end of the cookie's life.
Logout(b) ==
    /\ cookie[b] # NoName
    /\ cookie' = [cookie EXCEPT ![b] = NoName]
    /\ UNCHANGED <<accounts, admins, keys, doubled, token, seal, now, enrolled, origin>>

\* require_user, require_admin: a session is a name in a cookie, and counts
\* while a user has that name.
IsUser(b)  == cookie[b] \in accounts
IsAdmin(b) == IsUser(b) /\ cookie[b] \in admins

-----------------------------------------------------------------------------
(* The Users page *)

\* users_invite: a name of blanks leaves it open.
Invite(b, t, name, admin) ==
    /\ IsAdmin(b)
    /\ token[t].at = "none" /\ t \notin Presets
    /\ Issue(t, name, admin)
    /\ UNCHANGED <<accounts, admins, keys, doubled, cookie, seal, now, enrolled, origin>>

\* A wrong guard: an administrator may delete anyone.
MayDeleteAny(b, target) == IsAdmin(b)

\* An administrator may delete anyone else.
MayDelete(b, target) == IsAdmin(b) /\ target # cookie[b]

\* users_delete.
DeleteUser(b, target) ==
    /\ target \in accounts
    /\ MayDelete(b, target)
    /\ accounts' = accounts \ {target}
    /\ admins' = admins \ {target}
    /\ keys' = [keys EXCEPT ![target] = {}]
    /\ doubled' = doubled \ keys[target]
    /\ UNCHANGED <<token, cookie, seal, now, enrolled, origin>>

\* passkey_options and passkey_verify: another passkey for one's own account.
PasskeyOptions(b) ==
    /\ IsUser(b)
    /\ seal' = [seal EXCEPT ![b] = cookie[b]]
    /\ UNCHANGED <<accounts, admins, keys, doubled, token, cookie, now, enrolled, origin>>

\* The request may arrive twice: the challenge is not used up and add_credential
\* does not look for the id, so that both succeed.
PasskeyVerify(b, k) ==
    /\ IsUser(b)
    /\ Register(b, cookie[b], k)
    /\ doubled' \in {doubled, doubled \union {k}}
    /\ UNCHANGED <<accounts, admins, token, cookie, seal, now, enrolled>>

\* A wrong guard, off by one.
MayRemoveLast(n) == keys[n] # {}

\* The last passkey stays: more than one is listed.
MayRemove(n) == Cardinality(keys[n]) > 1 \/ keys[n] \intersect doubled # {}

\* passkey_delete: remove_credential drops every entry with the id.
PasskeyDelete(b, k) ==
    /\ IsUser(b)
    /\ k \in keys[cookie[b]]
    /\ MayRemove(cookie[b])
    /\ keys' = [keys EXCEPT ![cookie[b]] = @ \ {k}]
    /\ doubled' = doubled \ {k}
    /\ UNCHANGED <<accounts, admins, token, cookie, seal, now, enrolled, origin>>

Pass ==
    /\ now < LastTick
    /\ now' = now + 1
    /\ UNCHANGED <<accounts, admins, keys, doubled, token, cookie, seal, enrolled, origin>>

Enroll(t, name) ==
    \/ SetupFails(t, name)
    \/ \E b \in Browsers :
          \/ SetupOptions(b, t, name)
          \/ \E k \in Keys : SetupVerify(b, t, name, k)

Page(b) ==
    \/ Logout(b) \/ PasskeyOptions(b)
    \/ \E k \in Keys : PasskeyVerify(b, k) \/ PasskeyDelete(b, k)
    \/ \E n \in Names :
          \/ Login(b, n)
          \/ DeleteUser(b, n)
    \/ \E t \in Tokens, n \in Names \union {NoName}, admin \in BOOLEAN : Invite(b, t, n, admin)

EnrollmentNext ==
    \/ \E preset \in Presets : Boot(preset)
    \/ \E t \in Tokens, name \in Names : Enroll(t, name)
    \/ \E b \in Browsers : Page(b)
    \/ Pass

EnrollmentSpec == EnrollmentInit /\ [][EnrollmentNext]_enrollmentVars

-----------------------------------------------------------------------------
(* Properties *)

\* Once there is an administrator there always is one: however administrators
\* delete each other, and whatever sessions of deleted ones are left, the
\* users never run out, so that no later boot prints another setup token
\* (app.py:966, users.py:271).
AdminRemains == [][admins # {} => admins' # {}]_enrollmentVars

\* "cannot remove your last passkey" (app.py:997): a user who has a passkey
\* keeps one for as long as the account exists, from whichever of his sessions
\* he adds and removes them.  A passkey whose registration arrived twice is two
\* entries and counts as two, but goes as one.
PasskeyKept ==
    [][\A n \in accounts \intersect accounts' : keys[n] # {} => keys'[n] # {}]_enrollmentVars

\* Nothing else takes a user's last passkey: only one that is listed twice.
OnlyDoubledLost ==
    [][\A n \in accounts \intersect accounts' :
          keys[n] # {} /\ keys'[n] = {} => keys[n] \subseteq doubled]_enrollmentVars

\* "Single-use" (docs/SECURITY.md:213): a token registers at most one passkey,
\* the preset setup token included, which a boot without users puts back into
\* the file after an enrollment that failed (users.py:239-253, 268-286).
TokenEnrollsOnce == \A t \in Tokens : enrolled[t] <= 1

\* A passkey is added to the account whose challenge it answered, across tokens
\* that leave the name open, two registrations in one browser, and a session
\* that changed in between (security.py:65-72).
ChallengeBinds == \A n \in Names : \A k \in keys[n] : origin[k] = n
=============================================================================
