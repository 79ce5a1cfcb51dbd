----------------------------- MODULE FrontDoor -----------------------------
(***************************************************************************)
(* The front door and what a session leads to: src/tools/sso.py (OIDC      *)
(* logins, WebAuthn assertions), login.py (sessions), mcp_a2a_grant.py     *)
(* (Grants bound to a session) and devmode.attach_command (a terminal      *)
(* opened behind a Grant).                                                 *)
(*                                                                         *)
(* These are functions: who calls them keeps the state they ask for (the   *)
(* state, nonce and verifier of a login, the counter of a credential) and  *)
(* hands a verified session's id to the Grant authority, as login.py:6-8   *)
(* and sso.py:81 say.  Callbacks arrive late, twice or at another login;   *)
(* assertions arrive twice or in the other order; the identity provider's  *)
(* clock is off by a constant.                                             *)
(*                                                                         *)
(* A tick is a fraction of a second, and _iso cuts times to seconds.       *)
(***************************************************************************)
EXTENDS Integers, Sequences, FiniteSets, Functions

CONSTANTS Users,
          Counting,    \* the users whose authenticator counts its signatures
          Logins,      \* OIDC logins, one per browser tab
          Skews,       \* what the provider's clock may be off by, in ticks
          PerSecond,   \* ticks in a second
          Leeway,      \* leeway_s, in ticks
          TokenLife,   \* exp - iat of an ID token, in ticks
          SessionTTL,  \* ttl_s of a session, in ticks
          GrantTTL,    \* ttl_s of a Grant, in ticks
          MaxAsserts,  \* bound on the assertions made
          MaxSessions, \* bound on the sessions issued
          MaxGrants,   \* bound on the Grants issued
          MaxClock     \* bound on the clock

ASSUME ParamAssumption ==
  /\ Counting \subseteq Users
  /\ PerSecond \in Nat \ {0}
  /\ Leeway \in Nat /\ TokenLife \in Nat /\ SessionTTL \in Nat /\ GrantTTL \in Nat
  /\ MaxClock \in Nat

(* The provider's clock is off by no more than the leeway.                 *)
ASSUME SkewAssumption == Skews \subseteq (-Leeway)..Leeway

VARIABLES clock,
          skew,      \* the provider's clock is at clock + skew
          login,     \* each login: its phase, its user, its ID token
          answered,  \* logins whose callback is on its way, for good
          spent,     \* logins whose code the provider has seen presented
          made,      \* user -> assertions the authenticator has made
          honoured,  \* the assertions that were verified, in order
          counter,   \* user -> the signature counter stored for the credential
          sessions,  \* sessions issued: [user, id, at, expires]
          grants,    \* Grants issued: [user, session, op, expires]
          open       \* terminals opened: <<user of the Grant, owner of the pod>>

vars == <<clock, skew, login, answered, spent, made, honoured, counter,
          sessions, grants, open>>
oidc == <<skew, login, answered, spent>>
fido == <<made, honoured, counter>>

(* _iso                                                                    *)
Second(t) == t - (t % PerSecond)

Fresh == [phase |-> "new"]

Init ==
  /\ clock = 0
  /\ skew \in Skews
  /\ login = [l \in Logins |-> Fresh]
  /\ answered = {}
  /\ spent = {}
  /\ made = [u \in Users |-> 0]
  /\ honoured = << >>
  /\ counter = [u \in Users |-> 0]
  /\ sessions = {}
  /\ grants = {}
  /\ open = {}

(* issue_session: the id is a hash of the user and the second.             *)
SessionId(u) == <<u, Second(clock)>>

IssueSession(u) ==
  sessions' = sessions \cup
    {[user |-> u, id |-> SessionId(u), at |-> clock, expires |-> Second(clock + SessionTTL)]}

-----------------------------------------------------------------------------
(* OIDC.                                                                   *)

In(l, phase) == login[l].phase = phase
Becomes(l, rec) == login' = [login EXCEPT ![l] = rec]

Issued == Len(honoured) + Cardinality({l \in Logins : In(l, "in")})

(* pkce_pair and build_authorization_request: state, nonce and verifier    *)
(* are the login's own.                                                    *)
Authorize(l, u) ==
  /\ In(l, "new")
  /\ Becomes(l, [phase |-> "asked", user |-> u])
  /\ UNCHANGED <<clock, skew, answered, spent, fido, sessions, grants, open>>

(* The provider sends the browser back with a code, or with an error.      *)
ProviderAnswers(l) ==
  /\ In(l, "asked")
  /\ answered' = answered \cup {l}
  /\ UNCHANGED <<clock, skew, login, spent, fido, sessions, grants, open>>

ProviderDeclines(l) ==
  /\ In(l, "asked")
  /\ l \notin answered
  /\ Becomes(l, [phase |-> "aborted"])
  /\ UNCHANGED <<clock, skew, answered, spent, fido, sessions, grants, open>>

(* The callback of login c reaches login l.  The provider redeems a code   *)
(* once, for the verifier it was asked with, and the code is gone          *)
(* whatever verifier it is presented with.                                 *)
Redeem(l, c) ==
  /\ spent' = spent \cup {c}
  /\ IF l = c /\ c \notin spent
       THEN Becomes(l, [phase |-> "token", user |-> login[c].user, minted |-> clock])
       ELSE Becomes(l, [phase |-> "aborted"])

(* verify_callback, then build_token_exchange.                             *)
CallbackUnchecked(l, c) ==
  /\ In(l, "asked")
  /\ c \in answered
  /\ Redeem(l, c)
  /\ UNCHANGED <<clock, skew, answered, fido, sessions, grants, open>>

Callback(l, c) ==
  /\ In(l, "asked")
  /\ c \in answered
  /\ IF c = l THEN Redeem(l, c)
     ELSE /\ Becomes(l, [phase |-> "aborted"])
          /\ spent' = spent
  /\ UNCHANGED <<clock, skew, answered, fido, sessions, grants, open>>

(* verify_id_token: exp, and nbf, which is the time of issue; both are     *)
(* whole seconds of the provider's clock.                                  *)
IssuedAt(l) == Second(login[l].minted + skew)

InTimeOneSided(l) ==
  /\ clock <= IssuedAt(l) + TokenLife + Leeway
  /\ clock >= IssuedAt(l) + Leeway

InTime(l) ==
  /\ clock <= IssuedAt(l) + TokenLife + Leeway
  /\ clock + Leeway >= IssuedAt(l)

SignIn(l) ==
  /\ In(l, "token")
  /\ InTime(l)
  /\ Issued < MaxSessions
  /\ IssueSession(login[l].user)
  /\ Becomes(l, [phase |-> "in"])
  /\ UNCHANGED <<clock, skew, answered, spent, fido, grants, open>>

TokenRefused(l) ==
  /\ In(l, "token")
  /\ ~ InTime(l)
  /\ Becomes(l, [phase |-> "refused"])
  /\ UNCHANGED <<clock, skew, answered, spent, fido, sessions, grants, open>>

-----------------------------------------------------------------------------
(* WebAuthn.  An assertion is its user and its place among theirs.         *)

Assertion(u) ==
  /\ SumFunction(made) < MaxAsserts
  /\ made' = [made EXCEPT ![u] = @ + 1]
  /\ UNCHANGED <<clock, oidc, honoured, counter, sessions, grants, open>>

Count(u, n) == IF u \in Counting THEN n ELSE 0

(* The counter must grow, unless both are 0.                               *)
GrowsOrStays(u, n) == Count(u, n) >= counter[u]
Grows(u, n) == Count(u, n) > counter[u] \/ (Count(u, n) = 0 /\ counter[u] = 0)

(* verify_assertion of the n-th assertion of u, which may have been        *)
(* delivered before, under a challenge that the caller still takes; what   *)
(* is refused changes nothing.                                             *)
VerifyAssertion(u, n) ==
  /\ n <= made[u]
  /\ Issued < MaxSessions
  /\ Grows(u, n)
  /\ honoured' = Append(honoured, <<u, n>>)
  /\ counter' = [counter EXCEPT ![u] = Count(u, n)]
  /\ IssueSession(u)
  /\ UNCHANGED <<clock, oidc, made, grants, open>>

-----------------------------------------------------------------------------
(* Grants and terminals.                                                   *)

(* verify_session, then issue_grant bound to the session's id.             *)
IssueGrant(s, op) ==
  /\ s \in sessions
  /\ clock <= s.expires
  /\ Cardinality(grants) < MaxGrants
  /\ grants' = grants \cup
       {[user |-> s.user, session |-> s.id, op |-> op, expires |-> Second(clock + GrantTTL)]}
  /\ UNCHANGED <<clock, oidc, fido, sessions, open>>

(* verify_grant as attach_command asks for it.                             *)
VerifyGrantForever(g, s) ==
  /\ g.session = s.id
  /\ g.op = "pty.attach"

VerifyGrant(g, s) ==
  /\ g.session = s.id
  /\ clock <= g.expires
  /\ g.op = "pty.attach"

(* attach_command: a pod is named by its owner.  It is the caller's        *)
(* argument, and neither the Grant nor the session says anything of it.    *)
Attach(g, s, owner) ==
  /\ VerifyGrant(g, s)
  /\ open' = open \cup {<<g.user, owner>>}
  /\ UNCHANGED <<clock, oidc, fido, sessions, grants>>

Tick ==
  /\ clock < MaxClock
  /\ clock' = clock + 1
  /\ UNCHANGED <<oidc, fido, sessions, grants, open>>

Next ==
  \/ \E l \in Logins :
       \/ \E u \in Users : Authorize(l, u)
       \/ ProviderAnswers(l) \/ ProviderDeclines(l)
       \/ \E c \in Logins : Callback(l, c)
       \/ SignIn(l) \/ TokenRefused(l)
  \/ \E u \in Users : \/ Assertion(u)
                      \/ \E n \in 1..MaxAsserts : VerifyAssertion(u, n)
  \/ \E s \in sessions : \/ \E op \in {"pty.attach", "fs.read"} : IssueGrant(s, op)
                         \/ \E g \in grants, owner \in Users : Attach(g, s, owner)
  \/ Tick

Spec == Init /\ [][Next]_vars

-----------------------------------------------------------------------------
LoginState ==
  {Fresh} \cup [phase : {"asked"}, user : Users] \cup [phase : {"aborted", "in", "refused"}]
          \cup [phase : {"token"}, user : Users, minted : 0..MaxClock]
Session == [user : Users, id : Users \X Int, at : 0..MaxClock, expires : Int]
Grant == [user : Users, session : Users \X Int, op : {"pty.attach", "fs.read"}, expires : Int]

TypeOK ==
  /\ clock \in 0..MaxClock
  /\ skew \in Skews
  /\ login \in [Logins -> LoginState]
  /\ answered \subseteq Logins /\ spent \subseteq answered
  /\ made \in [Users -> Nat] /\ counter \in [Users -> Nat]
  /\ honoured \in Seq(Users \X (Nat \ {0}))
  /\ sessions \subseteq Session
  /\ grants \subseteq Grant
  /\ open \subseteq Users \X Users

(* "a state mismatch (CSRF), aborts" (sso.py:92): a                        *)
(* callback that reaches another login never costs its own login the code, *)
(* which the provider takes only once.                                     *)
CodeKeptForItsLogin ==
  \A c \in spent : login[c].phase \in {"token", "in", "refused"}

(* A provider whose clock is off by no more than the leeway, in either     *)
(* direction, is usable: no token is refused before it is as old as its    *)
(* lifetime (less the second that its timestamps are cut to), and none is  *)
(* honoured later than the lifetime plus twice the leeway.                 *)
SkewTolerated ==
  [][\A l \in Logins : In(l, "token") =>
       LET age == clock - login[l].minted
       IN  /\ In(l, "refused")' => age > TokenLife - PerSecond
           /\ In(l, "in")' => age <= TokenLife + 2 * Leeway]_vars

(* An assertion that is delivered again opens no second session if the     *)
(* authenticator counts (sso.py:237-241), whatever else of the same user   *)
(* was verified in between.                                                *)
OneSessionPerAssertion ==
  \A i, j \in 1..Len(honoured) :
    honoured[i] = honoured[j] /\ honoured[i][1] \in Counting => i = j

(* attach_command does not look at the session's expiry, only at the       *)
(* Grant's: a terminal is opened under a user's Grant no later than one    *)
(* session and one Grant after that user signed in.                        *)
PresenceBounded ==
  [][\A pair \in open' \ open :
       \E s \in sessions :
         s.user = pair[1] /\ clock - s.at <= SessionTTL + GrantTTL]_vars
=============================================================================
