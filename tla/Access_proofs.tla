--------------------------- MODULE Access_proofs ----------------------------
(***************************************************************************)
(* Proofs about who gets in and to what, FrontDoor and Tenancy: for every  *)
(* number of users and logins, every lifetime, leeway and clock of the one,*)
(* and for every set of projects, baselines and routing keys, every length *)
(* of slugs and any number of sets of manifests applied side by side of the*)
(* other.                                                                  *)
(***************************************************************************)
EXTENDS FrontDoor, Tenancy, SequenceTheorems, TLAPS

-----------------------------------------------------------------------------
(* The front door: logins, sessions, Grants and terminals.                 *)

(* A counter that counts is never behind an assertion it was set from.     *)
CounterLeads ==
  \A i \in 1..Len(honoured) :
    honoured[i][1] \in Counting => honoured[i][2] <= counter[honoured[i][1]]

(* An ID token is never minted in the future.                              *)
MintedBefore == \A l \in Logins : In(l, "token") => login[l].minted <= clock

(* A session ends in time.                                                 *)
SessionsBounded ==
  \A s \in sessions : s.expires <= s.at + SessionTTL

(* A Grant was issued while a session of its user lasted.                  *)
GrantsBounded ==
  \A g \in grants :
    \E s \in sessions : s.user = g.user /\ g.expires <= s.at + SessionTTL + GrantTTL

LoginInv == CodeKeptForItsLogin /\ MintedBefore
AssertionInv == CounterLeads /\ OneSessionPerAssertion
AttachInv == SessionsBounded /\ GrantsBounded

IInv == TypeOK /\ LoginInv /\ AssertionInv /\ AttachInv

-----------------------------------------------------------------------------
(* Cutting a time to its second loses less than a second.                  *)
LEMMA SecondBounds ==
  ASSUME NEW t \in Int
  PROVE  Second(t) \in Int /\ Second(t) <= t /\ t - PerSecond < Second(t)
<1>1. t % PerSecond \in 0..(PerSecond - 1)
  BY ParamAssumption
<1> QED
  BY <1>1, ParamAssumption DEF Second

(* What a login carries in each phase.                                     *)
LEMMA Carries ==
  ASSUME NEW rec \in LoginState
  PROVE  /\ rec.phase \in {"asked", "token"} => rec.user \in Users
         /\ rec.phase = "token" => rec.minted \in 0..MaxClock
<1>1. CASE rec = Fresh
  BY <1>1 DEF Fresh
<1>2. CASE rec \in [phase : {"asked"}, user : Users]
  BY <1>2
<1>3. CASE rec \in [phase : {"aborted", "in", "refused"}]
  BY <1>3
<1>4. CASE rec \in [phase : {"token"}, user : Users, minted : 0..MaxClock]
  BY <1>4
<1> QED
  BY <1>1, <1>2, <1>3, <1>4 DEF LoginState

LEMMA InitInvariant == Init => IInv
<1> SUFFICES ASSUME Init PROVE IInv
  OBVIOUS
<1>1. TypeOK
  BY ParamAssumption DEF Init, TypeOK, LoginState
<1> QED
  BY <1>1 DEF Init, IInv, LoginInv, AssertionInv, AttachInv, CodeKeptForItsLogin, MintedBefore,
              In, Fresh, CounterLeads, OneSessionPerAssertion, SessionsBounded, GrantsBounded

-----------------------------------------------------------------------------
(* Logins.                                                                 *)

(* What a login that moves on leaves of the others, if it keeps the code   *)
(* of those whose code is spent.                                           *)
LEMMA BecomesPreserves ==
  ASSUME TypeOK, LoginInv, NEW l \in Logins, NEW rec \in LoginState, Becomes(l, rec),
         spent' = spent \/ (spent' = spent \cup {l} /\ rec.phase = "token"),
         l \in spent => rec.phase \in {"token", "in", "refused"},
         rec.phase = "token" => rec.minted <= clock,
         UNCHANGED clock
  PROVE  login' \in [Logins -> LoginState] /\ LoginInv'
<1>1. login' \in [Logins -> LoginState] /\ login'[l] = rec
  BY DEF TypeOK, Becomes
<1>2. \A k \in Logins \ {l} : login'[k] = login[k]
  BY DEF TypeOK, Becomes
<1>3. CodeKeptForItsLogin'
  <2> SUFFICES ASSUME NEW c \in spent' PROVE login'[c].phase \in {"token", "in", "refused"}
    BY DEF CodeKeptForItsLogin
  <2>1. CASE c = l
    BY <1>1, <2>1
  <2>2. CASE c # l
    BY <1>2, <2>2 DEF TypeOK, LoginInv, CodeKeptForItsLogin
  <2> QED
    BY <2>1, <2>2
<1>4. MintedBefore'
  BY <1>1, <1>2 DEF LoginInv, MintedBefore, In
<1> QED
  BY <1>1, <1>3, <1>4 DEF LoginInv

LEMMA LoginPreserves ==
  ASSUME IInv, NEW l \in Logins,
         \/ \E u \in Users : Authorize(l, u)
         \/ ProviderAnswers(l) \/ ProviderDeclines(l)
         \/ \E c \in Logins : Callback(l, c)
         \/ TokenRefused(l)
  PROVE  IInv'
<1>1. /\ UNCHANGED <<clock, skew, fido, sessions, grants, open>>
      /\ answered' \subseteq Logins /\ answered \subseteq answered'
  BY DEF IInv, TypeOK, Authorize, ProviderAnswers, ProviderDeclines, Callback, TokenRefused
<1>2. l \in spent => login[l].phase \in {"token", "in", "refused"}
  BY DEF IInv, LoginInv, CodeKeptForItsLogin
<1>3. \A ph \in {"aborted", "refused"} : [phase |-> ph] \in LoginState
  BY DEF LoginState
<1>4. /\ login' \in [Logins -> LoginState] /\ LoginInv'
      /\ spent' \subseteq answered'
  <2>1. ASSUME NEW u \in Users, Authorize(l, u) PROVE <1>4
    <3>1. [phase |-> "asked", user |-> u] \in LoginState
      BY DEF LoginState
    <3> QED
      BY <1>2, <2>1, <3>1, BecomesPreserves DEF Authorize, In, IInv, TypeOK
  <2>2. CASE ProviderAnswers(l)
    BY <1>1, <2>2 DEF ProviderAnswers, IInv, TypeOK, LoginInv, CodeKeptForItsLogin, MintedBefore, In
  <2>3. CASE ProviderDeclines(l)
    BY <1>2, <1>3, <2>3, BecomesPreserves DEF ProviderDeclines, In, IInv, TypeOK
  <2>4. ASSUME NEW c \in Logins, Callback(l, c), c # l PROVE <1>4
    BY <1>2, <1>3, <2>4, BecomesPreserves DEF Callback, In, IInv, TypeOK
  <2>5. CASE Callback(l, l)
    <3>1. In(l, "asked") /\ l \in answered /\ l \notin spent /\ UNCHANGED answered
      BY <1>2, <2>5 DEF Callback, In
    <3> DEFINE rec == [phase |-> "token", user |-> login[l].user, minted |-> clock]
    <3>2. spent' = spent \cup {l} /\ Becomes(l, rec)
      BY <2>5, <3>1 DEF Callback, Redeem
    <3>3. login[l].user \in Users
      BY <3>1, Carries DEF In, IInv, TypeOK
    <3>4. rec \in LoginState /\ rec.phase = "token" /\ rec.minted <= clock
      BY <3>3 DEF LoginState, IInv, TypeOK
    <3> HIDE DEF rec
    <3>5. TypeOK /\ LoginInv /\ UNCHANGED clock
      BY <1>1 DEF IInv
    <3>6. login' \in [Logins -> LoginState] /\ LoginInv'
      BY <3>2, <3>4, <3>5, BecomesPreserves
    <3> QED
      BY <3>1, <3>2, <3>6 DEF IInv, TypeOK
  <2>6. CASE TokenRefused(l)
    BY <1>3, <2>6, BecomesPreserves DEF TokenRefused, IInv, TypeOK
  <2> QED
    BY <2>1, <2>2, <2>3, <2>4, <2>5, <2>6
<1>5. TypeOK'
  BY <1>1, <1>4 DEF IInv, TypeOK, fido
<1> QED
  BY <1>1, <1>4, <1>5
     DEF IInv, fido, AssertionInv, CounterLeads, OneSessionPerAssertion,
         AttachInv, SessionsBounded, GrantsBounded

-----------------------------------------------------------------------------
(* Sessions.                                                               *)

LEMMA IssueSessionPreserves ==
  ASSUME TypeOK, AttachInv, NEW u \in Users, IssueSession(u), UNCHANGED <<grants, open>>
  PROVE  sessions' \subseteq Session /\ AttachInv'
<1> DEFINE s == [user |-> u, id |-> SessionId(u), at |-> clock,
                 expires |-> Second(clock + SessionTTL)]
<1>1. clock \in 0..MaxClock /\ clock \in Int /\ clock + SessionTTL \in Int
  BY ParamAssumption DEF TypeOK
<1>2. s \in Session /\ s.expires <= s.at + SessionTTL
  BY <1>1, SecondBounds DEF Session, SessionId
<1>3. sessions' = sessions \cup {s}
  BY DEF IssueSession
<1> HIDE DEF s
<1> QED
  BY <1>2, <1>3 DEF TypeOK, AttachInv, SessionsBounded, GrantsBounded

LEMMA SignInPreserves == ASSUME IInv, NEW l \in Logins, SignIn(l) PROVE IInv'
<1>1. login[l].user \in Users
  BY Carries DEF SignIn, In, IInv, TypeOK
<1>2. sessions' \subseteq Session /\ AttachInv'
  BY <1>1, IssueSessionPreserves DEF SignIn, IInv
<1>3. [phase |-> "in"] \in LoginState
  BY DEF LoginState
<1>4. login' \in [Logins -> LoginState] /\ LoginInv'
  BY <1>3, BecomesPreserves DEF SignIn, IInv
<1>5. TypeOK'
  BY <1>2, <1>4 DEF SignIn, IInv, TypeOK, fido
<1> QED
  BY <1>2, <1>4, <1>5 DEF SignIn, IInv, fido, AssertionInv, CounterLeads, OneSessionPerAssertion

LEMMA AssertionPreserves == ASSUME IInv, NEW u \in Users, Assertion(u) PROVE IInv'
<1>1. TypeOK'
  BY DEF Assertion, IInv, TypeOK, oidc
<1> QED
  BY <1>1 DEF Assertion, oidc, IInv, LoginInv, CodeKeptForItsLogin, MintedBefore, In,
              AssertionInv, CounterLeads, OneSessionPerAssertion,
              AttachInv, SessionsBounded, GrantsBounded

(* An authenticator that counts is past everything it was honoured for.    *)
LEMMA VerifyAssertionPreserves ==
  ASSUME IInv, NEW u \in Users, NEW n \in Nat \ {0}, VerifyAssertion(u, n)
  PROVE  IInv'
<1> DEFINE H == Users \X (Nat \ {0})
<1>1. sessions' \subseteq Session /\ AttachInv'
  BY IssueSessionPreserves DEF VerifyAssertion, IInv
<1>2. <<u, n>> \in H /\ honoured \in Seq(H) /\ honoured' = Append(honoured, <<u, n>>)
  BY DEF VerifyAssertion, IInv, TypeOK
<1> HIDE DEF H
<1>3. /\ honoured' \in Seq(H) /\ Len(honoured) \in Nat /\ Len(honoured') = Len(honoured) + 1
      /\ honoured'[Len(honoured) + 1] = <<u, n>>
      /\ \A i \in 1..Len(honoured) : honoured'[i] = honoured[i] /\ honoured[i] \in H
  BY <1>2, AppendProperties, LenProperties, ElementOfSeq
<1>4. /\ Count(u, n) \in Nat /\ counter \in [Users -> Nat]
      /\ counter' = [counter EXCEPT ![u] = Count(u, n)]
  BY DEF VerifyAssertion, Count, IInv, TypeOK
<1>5. u \in Counting => Count(u, n) = n /\ n > counter[u]
  BY <1>4 DEF VerifyAssertion, Grows, Count
<1>6. TypeOK'
  BY <1>1, <1>3, <1>4 DEF VerifyAssertion, IInv, TypeOK, oidc, H
<1>7. CounterLeads'
  <2> SUFFICES ASSUME NEW i \in 1..Len(honoured'), honoured'[i][1] \in Counting
               PROVE  honoured'[i][2] <= counter'[honoured'[i][1]]
    BY DEF CounterLeads
  <2>1. CASE i = Len(honoured) + 1
    BY <1>3, <1>4, <1>5, <2>1
  <2>2. CASE i \in 1..Len(honoured)
    <3>1. /\ honoured'[i] = honoured[i] /\ honoured[i][1] \in Users /\ honoured[i][2] \in Nat
          /\ honoured[i][2] <= counter[honoured[i][1]]
      BY <1>3, <2>2 DEF H, IInv, AssertionInv, CounterLeads
    <3> QED
      BY <1>4, <1>5, <3>1
  <2> QED
    BY <1>3, <2>1, <2>2
<1>8. OneSessionPerAssertion'
  <2>1. ASSUME NEW i \in 1..Len(honoured), honoured[i] = <<u, n>>, u \in Counting PROVE FALSE
    <3>1. honoured[i][1] = u /\ honoured[i][2] = n
      BY <2>1
    <3>2. n <= counter[u]
      BY <2>1, <3>1 DEF IInv, AssertionInv, CounterLeads
    <3> QED
      BY <1>4, <1>5, <2>1, <3>2
  <2> SUFFICES ASSUME NEW i \in 1..Len(honoured'), NEW j \in 1..Len(honoured'),
                      honoured'[i] = honoured'[j], honoured'[i][1] \in Counting
               PROVE  i = j
    BY DEF OneSessionPerAssertion
  <2>2. CASE i \in 1..Len(honoured) /\ j \in 1..Len(honoured)
    BY <1>3, <2>2 DEF IInv, AssertionInv, OneSessionPerAssertion
  <2>3. CASE i = Len(honoured) + 1 /\ j \in 1..Len(honoured)
    BY <1>3, <2>1, <2>3
  <2>4. CASE j = Len(honoured) + 1 /\ i \in 1..Len(honoured)
    BY <1>3, <2>1, <2>4
  <2> QED
    BY <1>3, <2>2, <2>3, <2>4
<1>9. LoginInv'
  BY DEF VerifyAssertion, oidc, IInv, LoginInv, CodeKeptForItsLogin, MintedBefore, In
<1> QED
  BY <1>1, <1>6, <1>7, <1>8, <1>9 DEF IInv, AssertionInv

-----------------------------------------------------------------------------
(* Grants, terminals and time.                                             *)

LEMMA IssueGrantPreserves ==
  ASSUME IInv, NEW s \in sessions, NEW op \in {"pty.attach", "fs.read"}, IssueGrant(s, op)
  PROVE  IInv'
<1> DEFINE g == [user |-> s.user, session |-> s.id, op |-> op,
                 expires |-> Second(clock + GrantTTL)]
<1>1. /\ s \in Session /\ s.expires <= s.at + SessionTTL
      /\ clock \in Int /\ clock + GrantTTL \in Int /\ clock <= s.expires
  BY ParamAssumption DEF IInv, TypeOK, AttachInv, SessionsBounded, IssueGrant
<1>2. /\ g \in Grant
      /\ s.user = g.user /\ g.expires <= s.at + SessionTTL + GrantTTL
  BY <1>1, SecondBounds, ParamAssumption DEF Grant, Session
<1>3. grants' = grants \cup {g} /\ UNCHANGED <<clock, oidc, fido, sessions, open>>
  BY DEF IssueGrant
<1> HIDE DEF g
<1>4. TypeOK'
  BY <1>2, <1>3 DEF IInv, TypeOK, oidc, fido
<1>5. GrantsBounded'
  BY <1>2, <1>3 DEF IInv, AttachInv, GrantsBounded
<1> QED
  BY <1>3, <1>4, <1>5
     DEF oidc, fido, IInv, LoginInv, CodeKeptForItsLogin, MintedBefore, In,
         AssertionInv, CounterLeads, OneSessionPerAssertion,
         AttachInv, SessionsBounded

LEMMA AttachPreserves ==
  ASSUME IInv, NEW s \in sessions, NEW g \in grants, NEW owner \in Users, Attach(g, s, owner)
  PROVE  IInv'
<1>1. <<g.user, owner>> \in Users \X Users
  BY DEF IInv, TypeOK, Grant
<1>2. TypeOK'
  BY <1>1 DEF IInv, TypeOK, Attach, oidc, fido
<1> QED
  BY <1>2
     DEF Attach, oidc, fido, IInv, LoginInv, CodeKeptForItsLogin, MintedBefore, In,
         AssertionInv, CounterLeads, OneSessionPerAssertion, AttachInv, SessionsBounded, GrantsBounded

LEMMA TickPreserves == ASSUME IInv, Tick PROVE IInv'
<1>1. clock \in Nat /\ clock' = clock + 1
  BY ParamAssumption DEF IInv, TypeOK, Tick
<1>2. TypeOK'
  BY ParamAssumption DEF IInv, TypeOK, Tick, oidc, fido
<1>3. MintedBefore'
  <2> SUFFICES ASSUME NEW l \in Logins, In(l, "token") PROVE login[l].minted <= clock'
    BY DEF MintedBefore, In, Tick, oidc
  <2>1. login[l].minted \in 0..MaxClock /\ login[l].minted <= clock
    BY Carries DEF IInv, TypeOK, LoginInv, MintedBefore, In
  <2> QED
    BY <1>1, <2>1
<1> QED
  BY <1>2, <1>3
     DEF Tick, oidc, fido, IInv, LoginInv, CodeKeptForItsLogin,
         AssertionInv, CounterLeads, OneSessionPerAssertion,
         AttachInv, SessionsBounded, GrantsBounded

LEMMA InvariantStep == IInv /\ [Next]_vars => IInv'
<1> SUFFICES ASSUME IInv, [Next]_vars PROVE IInv'
  OBVIOUS
<1>1. CASE UNCHANGED vars
  BY <1>1 DEF vars, oidc, fido, IInv, TypeOK, LoginInv, CodeKeptForItsLogin, MintedBefore, In,
              AssertionInv, CounterLeads, OneSessionPerAssertion,
              AttachInv, SessionsBounded, GrantsBounded
<1>2. CASE Next
  <2>1. 1..MaxAsserts \subseteq Nat \ {0}
    OBVIOUS
  <2> QED
    BY <1>2, <2>1, LoginPreserves, SignInPreserves, AssertionPreserves, VerifyAssertionPreserves,
       IssueGrantPreserves, AttachPreserves, TickPreserves DEF Next
<1> QED
  BY <1>1, <1>2

-----------------------------------------------------------------------------
(* Every reachable state satisfies the inductive invariant.                *)
THEOREM Invariant == Spec => []IInv
  BY InitInvariant, InvariantStep, PTL DEF Spec

(* Logins, counters, sessions, Grants and terminals keep their types.      *)
THEOREM TypeCorrect == Spec => []TypeOK
<1>1. IInv => TypeOK
  BY DEF IInv
<1> QED
  BY <1>1, Invariant, PTL

(* A callback that strays to another login is stopped before it costs its  *)
(* own login the code.                                                     *)
THEOREM StrayCallbacksHarmless == Spec => []CodeKeptForItsLogin
<1>1. IInv => CodeKeptForItsLogin
  BY DEF IInv, LoginInv
<1> QED
  BY <1>1, Invariant, PTL

(* No assertion of an authenticator that counts opens two sessions.        *)
THEOREM AssertionsHonouredOnce == Spec => []OneSessionPerAssertion
<1>1. IInv => OneSessionPerAssertion
  BY DEF IInv, AssertionInv
<1> QED
  BY <1>1, Invariant, PTL

(* The window of an ID token, for every lifetime and leeway: as wide as    *)
(* the lifetime less a second, no wider than the lifetime and two leeways. *)
THEOREM TokenWindow == Spec => SkewTolerated
<1> DEFINE W(l) == LET age == clock - login[l].minted
                   IN  /\ In(l, "refused")' => age > TokenLife - PerSecond
                       /\ In(l, "in")' => age <= TokenLife + 2 * Leeway
           A == \A l \in Logins : In(l, "token") => W(l)
<1>1. ASSUME IInv, [Next]_vars PROVE [A]_vars
  <2> SUFFICES ASSUME Next, NEW l \in Logins, In(l, "token") PROVE W(l)
    BY <1>1
  <2> DEFINE m == login[l].minted
  <2>1. /\ m \in Int /\ clock \in Int /\ m <= clock
        /\ skew \in Int /\ -Leeway <= skew /\ skew <= Leeway
        /\ Leeway \in Nat /\ TokenLife \in Nat /\ PerSecond \in Nat
    <3>1. clock \in 0..MaxClock /\ skew \in Skews /\ login[l] \in LoginState
      BY <1>1 DEF IInv, TypeOK
    <3>2. login[l].phase = "token"
      BY DEF In
    <3>3. m \in 0..MaxClock
      BY <3>1, <3>2, Carries
    <3>4. m <= clock
      BY <1>1 DEF IInv, LoginInv, MintedBefore
    <3> QED
      BY <3>1, <3>3, <3>4, SkewAssumption, ParamAssumption
  <2>2. /\ IssuedAt(l) \in Int /\ IssuedAt(l) <= m + skew
        /\ m + skew - PerSecond < IssuedAt(l)
    BY <2>1, SecondBounds DEF IssuedAt
  <2> HIDE DEF m
  <2>3. ASSUME ~ InTime(l) PROVE clock - m > TokenLife - PerSecond
    BY <2>1, <2>2, <2>3 DEF InTime
  <2>4. ASSUME InTime(l) PROVE clock - m <= TokenLife + 2 * Leeway
    BY <2>1, <2>2, <2>4 DEF InTime
  <2>5. ASSUME In(l, "refused")' PROVE ~ InTime(l)
    <3>1. login'[l].phase = "refused" /\ login[l].phase = "token"
      BY <2>5 DEF In
    <3>2. login \in [Logins -> LoginState]
      BY <1>1 DEF IInv, TypeOK
    <3> QED
      BY <3>1, <3>2 DEF Next, Authorize, ProviderAnswers, ProviderDeclines, Callback, Redeem, SignIn,
         TokenRefused, Assertion, VerifyAssertion, IssueGrant, Attach, Tick, Becomes, In, oidc
  <2>6. ASSUME In(l, "in")' PROVE InTime(l)
    <3>1. login'[l].phase = "in" /\ login[l].phase = "token"
      BY <2>6 DEF In
    <3>2. login \in [Logins -> LoginState]
      BY <1>1 DEF IInv, TypeOK
    <3> QED
      BY <3>1, <3>2 DEF Next, Authorize, ProviderAnswers, ProviderDeclines, Callback, Redeem, SignIn,
         TokenRefused, Assertion, VerifyAssertion, IssueGrant, Attach, Tick, Becomes, In, oidc
  <2> QED
    BY <2>3, <2>4, <2>5, <2>6 DEF m
<1> QED
  BY <1>1, Invariant, PTL DEF Spec, SkewTolerated

(* A terminal opens no later than one session and one Grant after the user *)
(* of the Grant signed in.                                                 *)
THEOREM TerminalsNearSignIn == Spec => PresenceBounded
<1> DEFINE A == \A pair \in open' \ open :
       \E s \in sessions :
         s.user = pair[1] /\ clock - s.at <= SessionTTL + GrantTTL
<1>1. ASSUME IInv, [Next]_vars PROVE [A]_vars
  <2>1. ASSUME NEW s \in sessions, NEW g \in grants, NEW owner \in Users, Attach(g, s, owner)
        PROVE  A
    <3>1. open' = open \cup {<<g.user, owner>>} /\ clock <= g.expires
      BY <2>1 DEF Attach, VerifyGrant
    <3>2. PICK t \in sessions : t.user = g.user /\ g.expires <= t.at + SessionTTL + GrantTTL
      BY <1>1 DEF IInv, AttachInv, GrantsBounded
    <3>3. t.at \in Int /\ g.expires \in Int /\ clock \in Int
      <4>1. t \in Session /\ g \in Grant /\ clock \in 0..MaxClock
        BY <1>1, <3>2 DEF IInv, TypeOK
      <4> QED
        BY <4>1, ParamAssumption DEF Session, Grant
    <3>4. clock - t.at <= SessionTTL + GrantTTL
      BY <3>1, <3>2, <3>3, ParamAssumption
    <3> QED
      BY <3>1, <3>2, <3>4
  <2>2. CASE UNCHANGED open
    BY <2>2
  <2>3. CASE UNCHANGED vars
    BY <2>2, <2>3 DEF vars
  <2>4. ASSUME NEW l \in Logins,
               \/ \E u \in Users : Authorize(l, u)
               \/ ProviderAnswers(l) \/ ProviderDeclines(l)
               \/ \E c \in Logins : Callback(l, c)
               \/ SignIn(l) \/ TokenRefused(l)
        PROVE  UNCHANGED open
    BY <2>4 DEF Authorize, ProviderAnswers, ProviderDeclines, Callback, SignIn, TokenRefused
  <2>5. ASSUME \/ \E u \in Users : Assertion(u) \/ \E n \in 1..MaxAsserts : VerifyAssertion(u, n)
               \/ \E s \in sessions : \E op \in {"pty.attach", "fs.read"} : IssueGrant(s, op)
               \/ Tick
        PROVE  UNCHANGED open
    BY <2>5 DEF Assertion, VerifyAssertion, IssueGrant, Tick
  <2> QED
    BY <1>1, <2>1, <2>2, <2>3, <2>4, <2>5 DEF Next
<1> QED
  BY <1>1, Invariant, PTL DEF Spec, PresenceBounded

-----------------------------------------------------------------------------
(* Tenants, environments and the cluster.                                  *)

NamespaceObject(p) == Object("Namespace", Namespace(p), << >>, [owner |-> p])
PolicyObject(p) ==
  Object("NetworkPolicy", Namespace(p), <<"devspace", "isolation">>, [owner |-> p])

(* What the registry has under each key, and for whom.                     *)
DevspaceRecord(key, p) ==
  /\ key = <<Namespace(p)>>
  /\ registry[key] = [kind |-> "devspace", tenant |-> p.tenant]

SandboxRecord(key, p, repo, branch) ==
  /\ key = SandboxKey(p, repo, branch)
  /\ registry[key] = [kind |-> "sandbox", tenant |-> p.tenant,
                      baseline |-> repo, routing_key |-> branch]

RecordsNamed ==
  \A key \in DOMAIN registry : \E p \in Projects :
    \/ DevspaceRecord(key, p)
    \/ \E repo \in Repos, branch \in Branches : SandboxRecord(key, p, repo, branch)

TenancyInv == TenancyTypeOK /\ RecordsNamed

-----------------------------------------------------------------------------
(* What manifests are made of.                                             *)

LEMMA ManifestCases ==
  ASSUME NEW m \in Manifests
  PROVE  \E p \in Projects :
           \/ m = <<NamespaceObject(p), PolicyObject(p)>>
           \/ \E repo \in Repos, branch \in Branches :
                m = <<ForkObject(p, repo, branch), RouteObject(p, repo, branch)>>
<1>1. CASE \E p \in Projects : m = DevspaceManifests(p)
  BY <1>1 DEF DevspaceManifests, NamespaceObject, PolicyObject
<1>2. CASE \E p \in Projects, repo \in Repos, branch \in Branches :
             m = SandboxManifests(p, repo, branch)
  BY <1>2 DEF SandboxManifests
<1> QED
  BY <1>1, <1>2 DEF Manifests

LEMMA ObjectCases ==
  ASSUME NEW o \in Objects
  PROVE  \E p \in Projects :
           \/ o = NamespaceObject(p) \/ o = PolicyObject(p)
           \/ \E repo \in Repos, branch \in Branches :
                o = ForkObject(p, repo, branch) \/ o = RouteObject(p, repo, branch)
<1>1. PICK m \in Manifests : o = m[1] \/ o = m[2]
  BY DEF Objects
<1> QED
  BY <1>1, ManifestCases

LEMMA Pair ==
  ASSUME NEW a, NEW b
  PROVE  /\ Head(<<a, b>>) = a /\ Tail(<<a, b>>) = <<b>> /\ <<a, b>> # << >>
         /\ Head(<<b>>) = b /\ Tail(<<b>>) = << >> /\ <<b>> # << >>
         /\ \A c : <<b>> = <<c>> => b = c
OBVIOUS

(* What is left of a set of manifests, unless nothing is.                  *)
LEMMA LeftCases ==
  ASSUME NEW x \in Left, x # << >>
  PROVE  \E p \in Projects :
           \/ x = <<NamespaceObject(p), PolicyObject(p)>> \/ x = <<PolicyObject(p)>>
           \/ \E repo \in Repos, branch \in Branches :
                \/ x = <<ForkObject(p, repo, branch), RouteObject(p, repo, branch)>>
                \/ x = <<RouteObject(p, repo, branch)>>
<1>1. CASE x \in Manifests
  BY <1>1, ManifestCases
<1>2. ASSUME NEW m \in Manifests, x = Tail(m)
      PROVE  \E p \in Projects :
               \/ x = <<PolicyObject(p)>>
               \/ \E repo \in Repos, branch \in Branches : x = <<RouteObject(p, repo, branch)>>
  <2>1. PICK p \in Projects :
          \/ m = <<NamespaceObject(p), PolicyObject(p)>>
          \/ \E repo \in Repos, branch \in Branches :
               m = <<ForkObject(p, repo, branch), RouteObject(p, repo, branch)>>
    BY ManifestCases
  <2>2. CASE m = <<NamespaceObject(p), PolicyObject(p)>>
    BY <1>2, <2>2, Pair
  <2>3. ASSUME NEW repo \in Repos, NEW branch \in Branches,
               m = <<ForkObject(p, repo, branch), RouteObject(p, repo, branch)>>
        PROVE  x = <<RouteObject(p, repo, branch)>>
    BY <1>2, <2>3, Pair
  <2> QED
    BY <2>1, <2>2, <2>3
<1> QED
  BY <1>1, <1>2 DEF Left

LEMMA LeftTail ==
  ASSUME NEW x \in Left, x # << >>
  PROVE  Head(x) \in Objects /\ Tail(x) \in Left
<1>1. CASE x \in Manifests
  BY <1>1, ManifestCases, Pair DEF Left, Objects
<1>2. ASSUME NEW m \in Manifests, x = Tail(m) PROVE Head(x) \in Objects /\ Tail(x) \in Left
  <2>1. PICK a, b : m = <<a, b>>
    BY ManifestCases
  <2>2. b \in Objects
    BY <2>1 DEF Objects
  <2> QED
    BY <1>2, <2>1, <2>2, Pair DEF Left
<1> QED
  BY <1>1, <1>2 DEF Left

(* Where each kind of object is put, and what it says.                     *)
LEMMA Kinds ==
  ASSUME NEW p, NEW repo, NEW branch
  PROVE  /\ NamespaceObject(p).at[1] = "Namespace"
         /\ PolicyObject(p).at[1] = "NetworkPolicy" /\ PolicyObject(p).at[2] = Namespace(p)
         /\ PolicyObject(p).spec.owner = p
         /\ ForkObject(p, repo, branch).at[1] = "Deployment"
         /\ ForkObject(p, repo, branch).at[3] = Fork(repo, branch)
         /\ ForkObject(p, repo, branch).at = <<"Deployment", Namespace(p), Fork(repo, branch)>>
         /\ ForkObject(p, repo, branch).spec.repo = repo
         /\ ForkObject(p, repo, branch).spec.built = branch
         /\ RouteObject(p, repo, branch).at[1] = "VirtualService"
         /\ RouteObject(p, repo, branch).at[2] = Namespace(p)
         /\ RouteObject(p, repo, branch).spec.repo = repo
         /\ RouteObject(p, repo, branch).spec.key = branch
         /\ RouteObject(p, repo, branch).spec.host = Fork(repo, branch)
<1> HIDE DEF Namespace, Fork, RouteName
<1> QED
  BY DEF NamespaceObject, PolicyObject, ForkObject, RouteObject, Object

(* The kind tells an object.                                               *)
LEMMA OfKind ==
  ASSUME NEW o \in Objects
  PROVE  /\ o.at[1] = "NetworkPolicy" => \E p \in Projects : o = PolicyObject(p)
         /\ o.at[1] = "Deployment" =>
              \E p \in Projects, r \in Repos, b \in Branches : o = ForkObject(p, r, b)
         /\ o.at[1] = "VirtualService" =>
              \E p \in Projects, r \in Repos, b \in Branches : o = RouteObject(p, r, b)
<1>1. PICK p \in Projects :
        \/ o = NamespaceObject(p) \/ o = PolicyObject(p)
        \/ \E repo \in Repos, branch \in Branches :
             o = ForkObject(p, repo, branch) \/ o = RouteObject(p, repo, branch)
  BY ObjectCases
<1>2. CASE o = NamespaceObject(p)
  BY <1>2, Kinds
<1>3. CASE o = PolicyObject(p)
  BY <1>3, Kinds
<1>4. ASSUME NEW repo \in Repos, NEW branch \in Branches, o = ForkObject(p, repo, branch)
      PROVE  o.at[1] = "Deployment"
  BY <1>4, Kinds
<1>5. ASSUME NEW repo \in Repos, NEW branch \in Branches, o = RouteObject(p, repo, branch)
      PROVE  o.at[1] = "VirtualService"
  BY <1>5, Kinds
<1> QED
  BY <1>1, <1>2, <1>3, <1>4, <1>5

-----------------------------------------------------------------------------
LEMMA TenancyInitInvariant == TenancyInit => TenancyInv
<1> SUFFICES ASSUME TenancyInit PROVE TenancyInv
  OBVIOUS
<1>1. DOMAIN tenants = {} /\ DOMAIN registry = {} /\ DOMAIN cluster = {}
  BY DEF TenancyInit
<1>2. applying \in Seq(Left) /\ Len(applying) = 0
  BY EmptySeq DEF TenancyInit
<1> QED
  BY <1>1, <1>2 DEF TenancyInv, TenancyTypeOK, RecordsNamed

(* Another set of manifests to apply.                                      *)
LEMMA EmitPreserves ==
  ASSUME TenancyInv, NEW m \in Manifests, Emit(m)
  PROVE  applying' \in Seq(Left)
<1>1. applying \in Seq(Left) /\ m \in Left /\ applying' = Append(applying, m)
  BY DEF Emit, TenancyInv, TenancyTypeOK, Left
<1> QED
  BY <1>1, AppendProperties

LEMMA ProvisionPreserves ==
  ASSUME TenancyInv, NEW p \in Projects, Provision(p) \/ ProvisionDevspace(p)
  PROVE  TenancyInv'
<1>1. DevspaceManifests(p) \in Manifests /\ Emit(DevspaceManifests(p)) /\ UNCHANGED cluster
  BY DEF Manifests, Provision, ProvisionDevspace
<1>2. applying' \in Seq(Left)
  BY <1>1, EmitPreserves
<1>3. TenancyTypeOK'
  BY <1>1, <1>2 DEF Provision, ProvisionDevspace, Put, TenancyInv, TenancyTypeOK
<1>4. RecordsNamed'
  <2>1. CASE Provision(p)
    BY <2>1 DEF Provision, TenancyInv, RecordsNamed, DevspaceRecord, SandboxRecord
  <2>2. CASE ProvisionDevspace(p)
    <3>1. /\ DevspaceRecord(<<Namespace(p)>>, p)'
          /\ \A key \in DOMAIN registry' \ {<<Namespace(p)>>} :
               key \in DOMAIN registry /\ registry'[key] = registry[key]
      BY <2>2 DEF ProvisionDevspace, Put, DevspaceRecord
    <3> QED
      BY <3>1 DEF TenancyInv, RecordsNamed, DevspaceRecord, SandboxRecord
  <2> QED
    BY <2>1, <2>2
<1> QED
  BY <1>3, <1>4 DEF TenancyInv

LEMMA SandboxPreserves ==
  ASSUME TenancyInv, NEW p \in Projects, NEW repo \in Repos, NEW branch \in Branches,
         ProvisionSandbox(p, repo, branch) \/ OnPush(p, repo, branch)
  PROVE  TenancyInv'
<1>1. /\ SandboxManifests(p, repo, branch) \in Manifests
      /\ Emit(SandboxManifests(p, repo, branch)) /\ UNCHANGED <<tenants, cluster>>
  BY DEF Manifests, ProvisionSandbox, OnPush
<1>2. applying' \in Seq(Left)
  BY <1>1, EmitPreserves
<1>3. /\ \A key \in DOMAIN registry' : registry'[key].tenant \in {q.tenant : q \in Projects}
      /\ RecordsNamed'
  <2>1. CASE OnPush(p, repo, branch)
    BY <2>1 DEF OnPush, TenancyInv, TenancyTypeOK, RecordsNamed, DevspaceRecord, SandboxRecord
  <2>2. CASE ProvisionSandbox(p, repo, branch)
    <3> DEFINE k == SandboxKey(p, repo, branch)
    <3>1. /\ SandboxRecord(k, p, repo, branch)'
          /\ registry'[k].tenant = p.tenant
          /\ \A key \in DOMAIN registry' \ {k} :
               key \in DOMAIN registry /\ registry'[key] = registry[key]
      BY <2>2 DEF ProvisionSandbox, Put, SandboxRecord
    <3> HIDE DEF k
    <3> QED
      BY <3>1 DEF TenancyInv, TenancyTypeOK, RecordsNamed, DevspaceRecord, SandboxRecord
  <2> QED
    BY <2>1, <2>2
<1>4. TenancyTypeOK'
  BY <1>1, <1>2, <1>3 DEF TenancyInv, TenancyTypeOK
<1> QED
  BY <1>3, <1>4 DEF TenancyInv

LEMMA DeprovisionPreserves ==
  ASSUME TenancyInv, NEW t \in DOMAIN tenants, Deprovision(t)
  PROVE  TenancyInv'
<1>1. TenancyTypeOK'
  BY DEF Deprovision, TenancyInv, TenancyTypeOK
<1> QED
  BY <1>1 DEF Deprovision, TenancyInv, RecordsNamed, DevspaceRecord, SandboxRecord

LEMMA ApplyPreserves ==
  ASSUME TenancyInv, NEW n \in 1..Len(applying), Apply(n) \/ Reject(n)
  PROVE  TenancyInv'
<1> DEFINE x == applying[n]
           o == Head(x)
<1>1. /\ x \in Left /\ x # << >> /\ applying \in Seq(Left)
      /\ cluster' = Put(cluster, o.at, o.spec) \/ UNCHANGED cluster
      /\ applying' = [applying EXCEPT ![n] = Tail(x)]
      /\ UNCHANGED <<tenants, registry>>
  BY ElementOfSeq DEF Apply, Reject, TenancyInv, TenancyTypeOK
<1> HIDE DEF x
<1>2. o \in Objects /\ Tail(x) \in Left
  BY <1>1, LeftTail
<1>3. applying' \in Seq(Left)
  BY <1>1, <1>2, ExceptSeq
<1>4. \A at \in DOMAIN cluster' : \E q \in Objects : q.at = at /\ q.spec = cluster'[at]
  <2>1. CASE UNCHANGED cluster
    BY <2>1 DEF TenancyInv, TenancyTypeOK
  <2>2. CASE cluster' = Put(cluster, o.at, o.spec)
    <3>1. /\ DOMAIN cluster' = DOMAIN cluster \cup {o.at} /\ cluster'[o.at] = o.spec
          /\ \A at \in DOMAIN cluster \ {o.at} : cluster'[at] = cluster[at]
      BY <2>2 DEF Put
    <3> QED
      BY <1>2, <3>1 DEF TenancyInv, TenancyTypeOK
  <2> QED
    BY <1>1, <2>1, <2>2
<1>5. TenancyTypeOK'
  BY <1>1, <1>3, <1>4 DEF TenancyInv, TenancyTypeOK
<1> QED
  BY <1>1, <1>5 DEF TenancyInv, RecordsNamed, DevspaceRecord, SandboxRecord

LEMMA TenancyInvariantStep == TenancyInv /\ [TenancyNext]_tenancyVars => TenancyInv'
<1> SUFFICES ASSUME TenancyInv, [TenancyNext]_tenancyVars PROVE TenancyInv'
  OBVIOUS
<1>1. CASE UNCHANGED tenancyVars
  BY <1>1 DEF tenancyVars, TenancyInv, TenancyTypeOK, RecordsNamed, DevspaceRecord, SandboxRecord
<1>2. CASE TenancyNext
  BY <1>2, ProvisionPreserves, SandboxPreserves, DeprovisionPreserves, ApplyPreserves DEF TenancyNext
<1> QED
  BY <1>1, <1>2

-----------------------------------------------------------------------------
(* Every reachable state satisfies the inductive invariant.                *)
THEOREM TenancyInvariant == TenancySpec => []TenancyInv
  BY TenancyInitInvariant, TenancyInvariantStep, PTL DEF TenancySpec

(* Tenants, records, manifests and the cluster keep their types.           *)
THEOREM TenancyTypeCorrect == TenancySpec => []TenancyTypeOK
<1>1. TenancyInv => TenancyTypeOK
  BY DEF TenancyInv
<1> QED
  BY <1>1, TenancyInvariant, PTL

(* Two slugs that are the same begin with the same words.                  *)
LEMMA SlugPrefix ==
  ASSUME NEW a \in Seq(Words), NEW b \in Seq(Words), NEW c \in Seq(Words), NEW d \in Seq(Words),
         Slug(a \o b) = Slug(c \o d), Len(a) <= Limit, Len(c) <= Limit, Len(a) <= Len(c)
  PROVE  IsPrefix(a, c)
<1>1. /\ Limit \in Nat /\ Len(a) \in Nat /\ Len(c) \in Nat /\ Len(b) \in Nat /\ Len(d) \in Nat
  BY NameAssumption, LenProperties
<1>2. ASSUME NEW e \in Seq(Words), NEW f \in Seq(Words), Len(e) <= Limit, NEW i \in 1..Len(e)
      PROVE  Slug(e \o f)[i] = e[i]
  <2>1. /\ Len(e) \in Nat /\ Len(f) \in Nat /\ e \o f \in Seq(Words)
        /\ Len(e \o f) = Len(e) + Len(f)
        /\ \A j \in 1..(Len(e) + Len(f)) : (e \o f)[j] = IF j <= Len(e) THEN e[j] ELSE f[j - Len(e)]
    BY LenProperties, ConcatProperties
  <2>2. (e \o f)[i] = e[i]
    BY <2>1
  <2>3. CASE Len(e \o f) <= Limit
    BY <2>2, <2>3 DEF Slug
  <2>4. CASE ~ (Len(e \o f) <= Limit)
    <3> DEFINE s == e \o f
    <3>1. \A j \in 1..Limit : s[j] \in Words
      BY <1>1, <2>1, <2>4, ElementOfSeq
    <3>2. i \in 1..(Limit - 1 + 1)
      BY <1>1, <1>2, <2>1
    <3> HIDE DEF s
    <3>3. \A j \in 1..(Limit - 1 + 1) : SubSeq(s, 1, Limit)[j] = s[1 + j - 1]
      BY <1>1, <3>1, SubSeqProperties
    <3>4. SubSeq(s, 1, Limit)[i] = s[1 + i - 1]
      BY <3>2, <3>3
    <3>5. 1 + i - 1 = i
      BY <2>1
    <3> QED
      BY <2>2, <2>4, <3>4, <3>5 DEF Slug, s
  <2> QED
    BY <2>3, <2>4
<1>3. \A i \in 1..Len(a) : a[i] = c[i]
  BY <1>1, <1>2
<1> DEFINE p == SubSeq(a, 1, Len(a))
           q == SubSeq(c, 1, Len(a))
<1>4. \A i \in 1..Len(a) : a[i] \in Words /\ c[i] \in Words
  BY <1>1, ElementOfSeq
<1>5. /\ p \in Seq(Words) /\ q \in Seq(Words) /\ Len(p) = Len(q) /\ Len(p) = Len(a)
      /\ \A i \in 1..Len(a) : p[i] = a[i] /\ q[i] = c[i]
  <2>1. /\ p \in Seq(Words) /\ Len(p) = IF 1 <= Len(a) THEN Len(a) - 1 + 1 ELSE 0
        /\ \A i \in 1..(Len(a) - 1 + 1) : p[i] = a[1 + i - 1]
    BY <1>1, <1>4, SubSeqProperties
  <2>2. /\ q \in Seq(Words) /\ Len(q) = IF 1 <= Len(a) THEN Len(a) - 1 + 1 ELSE 0
        /\ \A i \in 1..(Len(a) - 1 + 1) : q[i] = c[1 + i - 1]
    BY <1>1, <1>4, SubSeqProperties
  <2> QED
    BY <1>1, <2>1, <2>2
<1> HIDE DEF p, q
<1>6. p = q
  BY <1>3, <1>5, SeqEqual
<1> QED
  BY <1>6 DEF IsPrefix, p, q

(* Tenant, user and app are joined in either order.                        *)
LEMMA JoinedEitherWay ==
  ASSUME NEW x \in Seq(Words), NEW y \in Seq(Words), NEW z \in Seq(Words)
  PROVE  (x \o y) \o z = x \o (y \o z)
  BY ConcatAssociative, Z3

(* Two projects share a namespace only if the name of one's tenant begins   *)
(* with the other's, or the limit cuts a tenant's name.                    *)
LEMMA NamespaceShared ==
  ASSUME NEW p \in Projects, NEW q \in Projects, Namespace(p) = Namespace(q),
         Len(p.tenant.words) <= Limit, Len(q.tenant.words) <= Limit
  PROVE  Related(p.tenant, q.tenant)
<1>1. \A r \in Projects : /\ r.tenant.words \in Seq(Words) /\ r.user.words \in Seq(Words)
                          /\ r.app.words \in Seq(Words)
  BY NameAssumption DEF Names
<1>2. ASSUME NEW r \in Projects
      PROVE  /\ r.user.words \o r.app.words \in Seq(Words)
             /\ Namespace(r) = Slug(r.tenant.words \o (r.user.words \o r.app.words))
  <2> DEFINE x == r.tenant.words
             y == r.user.words
             z == r.app.words
  <2>1. x \in Seq(Words) /\ y \in Seq(Words) /\ z \in Seq(Words)
    BY <1>1
  <2>2. Namespace(r) = Slug((x \o y) \o z)
    BY DEF Namespace
  <2> HIDE DEF x, y, z
  <2>3. y \o z \in Seq(Words)
    BY <2>1, ConcatProperties
  <2>4. (x \o y) \o z = x \o (y \o z)
    BY <2>1, JoinedEitherWay
  <2> QED
    BY <2>2, <2>3, <2>4 DEF x, y, z
<1> DEFINE a == p.tenant.words
           b == p.user.words \o p.app.words
           c == q.tenant.words
           d == q.user.words \o q.app.words
<1>3. /\ a \in Seq(Words) /\ b \in Seq(Words) /\ c \in Seq(Words) /\ d \in Seq(Words)
      /\ Slug(a \o b) = Slug(c \o d) /\ Len(a) <= Limit /\ Len(c) <= Limit
  <2>1. a \in Seq(Words) /\ b \in Seq(Words) /\ Namespace(p) = Slug(a \o b)
    BY <1>1, <1>2
  <2>2. c \in Seq(Words) /\ d \in Seq(Words) /\ Namespace(q) = Slug(c \o d)
    BY <1>1, <1>2
  <2>3. Len(a) <= Limit /\ Len(c) <= Limit
    OBVIOUS
  <2> HIDE DEF a, b, c, d
  <2> QED
    BY <2>1, <2>2, <2>3
<1>4. Len(a) \in Nat /\ Len(c) \in Nat
  BY <1>3, LenProperties
<1> HIDE DEF a, b, c, d
<1>5. IsPrefix(a, c) \/ IsPrefix(c, a)
  BY <1>3, <1>4, SlugPrefix
<1> QED
  BY <1>5 DEF Related, a, c

(* A tenant finds its namespace under another's policy only if the name of *)
(* one begins with the other's.                                            *)
THEOREM NamespacesApart == TenancySpec => []TenantsApart
<1>1. TenancyInv => TenantsApart
  <2> SUFFICES ASSUME TenancyInv, NEW t \in DOMAIN tenants, NEW at \in DOMAIN cluster,
                      at[1] = "NetworkPolicy", at[2] = Namespace(tenants[t]),
                      Len(cluster[at].owner.tenant.words) <= Limit, Len(t.words) <= Limit
               PROVE  Related(cluster[at].owner.tenant, t)
    BY DEF TenantsApart
  <2>1. PICK o \in Objects : o.at = at /\ o.spec = cluster[at]
    BY DEF TenancyInv, TenancyTypeOK
  <2>2. PICK p \in Projects : o = PolicyObject(p)
    BY <2>1, OfKind
  <2>3. at[2] = Namespace(p) /\ cluster[at].owner = p
    <3>1. o.at[2] = Namespace(p) /\ o.spec.owner = p
      BY <2>2, Kinds
    <3> QED
      BY <2>1, <3>1
  <2>4. PICK q \in Projects : q = tenants[t] /\ q.tenant = t
    BY DEF TenancyInv, TenancyTypeOK
  <2> QED
    BY <2>3, <2>4, NamespaceShared
<1> QED
  BY <1>1, TenancyInvariant, PTL

-----------------------------------------------------------------------------
(* Where a separator is in a joined name.                                  *)
Without(w, a) == \A i \in 1..Len(a) : a[i] # w

LEMMA SeparatorFirst ==
  ASSUME NEW S, NEW w \in S,
         NEW a \in Seq(S), NEW b \in Seq(S), NEW c \in Seq(S), NEW d \in Seq(S),
         Without(w, c), (a \o <<w>>) \o b = (c \o <<w>>) \o d
  PROVE  Len(c) <= Len(a)
<1> SUFFICES ASSUME Len(a) < Len(c) PROVE FALSE
  BY LenProperties
<1> DEFINE i == Len(a) + 1
<1>1. Len(a) \in Nat /\ Len(c) \in Nat /\ i \in 1..Len(c) /\ i <= Len(c)
  BY LenProperties
<1>2. ASSUME NEW x \in Seq(S), NEW y \in Seq(S), NEW j \in 1..(Len(x) + 1)
      PROVE  ((x \o <<w>>) \o y)[j] = IF j <= Len(x) THEN x[j] ELSE w
  <2>1. /\ <<w>> \in Seq(S) /\ Len(<<w>>) = 1 /\ <<w>>[1] = w
    OBVIOUS
  <2>2. /\ x \o <<w>> \in Seq(S) /\ Len(x \o <<w>>) = Len(x) + 1 /\ Len(x) \in Nat
        /\ \A k \in 1..(Len(x) + 1) : (x \o <<w>>)[k] = IF k <= Len(x) THEN x[k] ELSE <<w>>[k - Len(x)]
    BY <2>1, LenProperties, ConcatProperties
  <2>3. (x \o <<w>>)[j] = IF j <= Len(x) THEN x[j] ELSE w
    BY <2>1, <2>2
  <2> DEFINE z == x \o <<w>>
  <2>4. z \in Seq(S) /\ Len(z) = Len(x) + 1 /\ z[j] = IF j <= Len(x) THEN x[j] ELSE w
    BY <2>2, <2>3
  <2> HIDE DEF z
  <2>5. Len(z) \in Nat /\ Len(y) \in Nat /\ j \in 1..Len(z) /\ j \in 1..(Len(z) + Len(y))
    BY <2>2, <2>4, LenProperties
  <2>6. (z \o y)[j] = z[j]
    BY <2>4, <2>5, ConcatProperties
  <2> QED
    BY <2>4, <2>6 DEF z
<1>3. ((a \o <<w>>) \o b)[i] = w
  BY <1>1, <1>2
<1>4. ((c \o <<w>>) \o d)[i] = c[i]
  BY <1>1, <1>2
<1> QED
  BY <1>1, <1>3, <1>4 DEF Without

(* What is before and behind a separator can be told if it is nowhere      *)
(* before it.                                                              *)
LEMMA SeparatorSplits ==
  ASSUME NEW S, NEW w \in S,
         NEW a \in Seq(S), NEW b \in Seq(S), NEW c \in Seq(S), NEW d \in Seq(S),
         Without(w, a), Without(w, c),
         (a \o <<w>>) \o b = (c \o <<w>>) \o d
  PROVE  a = c /\ b = d
<1>1. Len(a) = Len(c) /\ Len(a) \in Nat
  <2>1. Len(c) <= Len(a) /\ Len(a) <= Len(c)
    BY SeparatorFirst
  <2> QED
    BY <2>1, LenProperties
<1> DEFINE y == a \o <<w>>
           z == c \o <<w>>
<1>2. /\ <<w>> \in Seq(S) /\ Len(<<w>>) = 1
  OBVIOUS
<1>3. /\ y \in Seq(S) /\ z \in Seq(S) /\ Len(y) = Len(a) + 1 /\ Len(z) = Len(a) + 1
      /\ \A i \in 1..Len(a) : y[i] = a[i] /\ z[i] = c[i]
  BY <1>1, <1>2, LenProperties, ConcatProperties
<1>4. y \o b = z \o d
  OBVIOUS
<1> HIDE DEF y, z
<1>5. /\ Len(b) \in Nat /\ Len(d) \in Nat
      /\ Len(y \o b) = Len(y) + Len(b) /\ Len(z \o d) = Len(z) + Len(d)
  BY <1>3, LenProperties, ConcatProperties
<1>6. Len(b) = Len(d)
  BY <1>1, <1>3, <1>4, <1>5
<1>7. /\ \A i \in 1..(Len(y) + Len(b)) : (y \o b)[i] = IF i <= Len(y) THEN y[i] ELSE b[i - Len(y)]
      /\ \A i \in 1..(Len(z) + Len(d)) : (z \o d)[i] = IF i <= Len(z) THEN z[i] ELSE d[i - Len(z)]
  BY <1>3, ConcatProperties
<1>8. \A i \in 1..Len(a) : a[i] = c[i]
  <2> SUFFICES ASSUME NEW i \in 1..Len(a) PROVE a[i] = c[i]
    OBVIOUS
  <2>1. i \in 1..(Len(y) + Len(b)) /\ i \in 1..(Len(z) + Len(d)) /\ i <= Len(y) /\ i <= Len(z)
    BY <1>1, <1>3, <1>5
  <2>2. (y \o b)[i] = y[i] /\ (z \o d)[i] = z[i]
    BY <1>7, <2>1
  <2> QED
    BY <1>3, <1>4, <2>2
<1>9. \A i \in 1..Len(b) : b[i] = d[i]
  <2> SUFFICES ASSUME NEW i \in 1..Len(b) PROVE b[i] = d[i]
    OBVIOUS
  <2> DEFINE j == Len(a) + 1 + i
  <2>1. /\ j \in 1..(Len(y) + Len(b)) /\ j \in 1..(Len(z) + Len(d))
        /\ ~ (j <= Len(y)) /\ ~ (j <= Len(z)) /\ j - Len(y) = i /\ j - Len(z) = i
    BY <1>1, <1>3, <1>5, <1>6
  <2> HIDE DEF j
  <2>2. (y \o b)[j] = b[i] /\ (z \o d)[j] = d[i]
    BY <1>7, <2>1
  <2> QED
    BY <1>4, <2>2
<1> QED
  BY <1>1, <1>6, <1>8, <1>9, SeqEqual

(* Two whole fork names are the same only for the same slugs.              *)
LEMMA ForkTells ==
  ASSUME NEW r \in Repos, NEW b \in Branches, NEW s \in Repos, NEW c \in Branches,
         WholeFork(r, b), WholeFork(s, c), Fork(r, b) = Fork(s, c)
  PROVE  r.words = s.words /\ b.words = c.words
<1> DEFINE w == "sbx"
<1>1. /\ w \in Words /\ r.words \in Seq(Words) /\ b.words \in Seq(Words)
      /\ s.words \in Seq(Words) /\ c.words \in Seq(Words)
  BY NameAssumption DEF Names
<1>2. /\ \A i \in 1..Len(r.words) : r.words[i] # w
      /\ \A i \in 1..Len(s.words) : s.words[i] # w
      /\ Len(r.words) + 1 + Len(b.words) <= Limit /\ Len(s.words) + 1 + Len(c.words) <= Limit
      /\ Slug((r.words \o <<w>>) \o b.words) = Slug((s.words \o <<w>>) \o c.words)
  BY DEF WholeFork, Fork
<1> HIDE DEF w
<1>3. ASSUME NEW x \in Seq(Words), NEW y \in Seq(Words), Len(x) + 1 + Len(y) <= Limit
      PROVE  Slug((x \o <<w>>) \o y) = (x \o <<w>>) \o y
  <2>1. <<w>> \in Seq(Words) /\ Len(<<w>>) = 1
    BY <1>1
  <2> DEFINE z == x \o <<w>>
  <2>2. z \in Seq(Words) /\ Len(z) = Len(x) + 1
    BY <2>1, ConcatProperties
  <2> HIDE DEF z
  <2>3. Len(z \o y) = Len(z) + Len(y)
    BY <2>2, ConcatProperties
  <2>4. Len(z \o y) <= Limit
    BY <1>3, <2>2, <2>3
  <2> QED
    BY <2>4 DEF Slug, z
<1>4. (r.words \o <<w>>) \o b.words = (s.words \o <<w>>) \o c.words
  BY <1>1, <1>2, <1>3
<1> DEFINE x == r.words
           y == b.words
           u == s.words
           v == c.words
<1>5. /\ x \in Seq(Words) /\ y \in Seq(Words) /\ u \in Seq(Words) /\ v \in Seq(Words)
      /\ Without(w, x) /\ Without(w, u)
      /\ (x \o <<w>>) \o y = (u \o <<w>>) \o v
  BY <1>1, <1>2, <1>4 DEF Without
<1> HIDE DEF x, y, u, v
<1>6. w \in Words
  BY <1>1
<1>7. x = u /\ y = v
  BY <1>5, <1>6, SeparatorSplits
<1> QED
  BY <1>7 DEF x, y, u, v

(* A fork that a route names is of the route's baseline and branch, or     *)
(* names that are cut, alike or have "sbx" in them have met.               *)
THEOREM ForksApart == TenancySpec => []PreviewsApart
<1>1. TenancyInv => PreviewsApart
  <2> SUFFICES ASSUME TenancyInv, NEW at \in DOMAIN cluster, at[1] = "VirtualService",
                      NEW named \in DOMAIN cluster,
                      named = <<"Deployment", at[2], cluster[at].host>>,
                      WholeFork(cluster[at].repo, cluster[at].key),
                      WholeFork(cluster[named].repo, cluster[named].built)
               PROVE  /\ cluster[named].repo.words = cluster[at].repo.words
                      /\ cluster[named].built.words = cluster[at].key.words
    BY DEF PreviewsApart
  <2>1. PICK o \in Objects : o.at = at /\ o.spec = cluster[at]
    BY DEF TenancyInv, TenancyTypeOK
  <2>2. PICK p \in Projects, r \in Repos, b \in Branches : o = RouteObject(p, r, b)
    BY <2>1, OfKind
  <2>3. cluster[at].repo = r /\ cluster[at].key = b /\ cluster[at].host = Fork(r, b)
    BY <2>1, <2>2, Kinds
  <2>4. PICK u \in Objects : u.at = named /\ u.spec = cluster[named]
    BY DEF TenancyInv, TenancyTypeOK
  <2>5. u.at[1] = "Deployment" /\ u.at[3] = cluster[at].host
    BY <2>4
  <2>6. PICK q \in Projects, s \in Repos, c \in Branches : u = ForkObject(q, s, c)
    BY <2>5, OfKind
  <2>7. cluster[named].repo = s /\ cluster[named].built = c /\ u.at[3] = Fork(s, c)
    BY <2>4, <2>6, Kinds
  <2>8. Fork(s, c) = Fork(r, b) /\ WholeFork(r, b) /\ WholeFork(s, c)
    BY <2>3, <2>5, <2>7
  <2> QED
    BY <2>3, <2>7, <2>8, ForkTells
<1> QED
  BY <1>1, TenancyInvariant, PTL

-----------------------------------------------------------------------------
(* Two texts of one part each are told from what was joined of them.       *)
LEMMA PartsTell ==
  ASSUME NEW S, NEW a \in Seq(S), NEW b \in Seq(S), NEW c \in Seq(S), NEW d \in Seq(S),
         Len(a) = 1, Len(b) = 1, c # << >>, d # << >>, a \o b = c \o d
  PROVE  c = a /\ d = b
<1>1. Len(c) \in Nat /\ Len(d) \in Nat /\ Len(c) # 0 /\ Len(d) # 0
  BY LenProperties, EmptySeq
<1>2. Len(a \o b) = 2 /\ Len(c \o d) = Len(c) + Len(d)
  BY ConcatProperties
<1>3. Len(c) = 1 /\ Len(d) = 1
  BY <1>1, <1>2
<1>4. /\ (a \o b)[1] = a[1] /\ (a \o b)[2] = b[1]
      /\ (c \o d)[1] = c[1] /\ (c \o d)[2] = d[1]
  BY <1>3, ConcatProperties
<1> QED
  BY <1>3, <1>4, SeqEqual

(* What a record's key says of it.                                         *)
LEMMA KeyTells ==
  ASSUME NEW p \in Projects, NEW r \in Repos, NEW b \in Branches,
         NEW q \in Projects, NEW s \in Repos, NEW c \in Branches
  PROVE  /\ <<Namespace(p)>> = <<Namespace(q)>> => Namespace(p) = Namespace(q)
         /\ <<Namespace(p)>> # SandboxKey(q, s, c)
         /\ SandboxKey(p, r, b) = SandboxKey(q, s, c) =>
              /\ Namespace(p) = Namespace(q)
              /\ OnePart(r) /\ OnePart(b) => s = r /\ c = b
<1>1. ASSUME SandboxKey(p, r, b) = SandboxKey(q, s, c)
      PROVE  Namespace(p) = Namespace(q) /\ r.text \o b.text = s.text \o c.text
  BY <1>1, Zenon DEF SandboxKey
<1>2. ASSUME r.text \o b.text = s.text \o c.text, OnePart(r), OnePart(b)
      PROVE  s = r /\ c = b
  <2>1. \A n \in Repos \cup Branches : n.text \in Seq(STRING) /\ n.text # << >>
    BY NameAssumption DEF Names
  <2> DEFINE x == r.text
             y == b.text
             u == s.text
             v == c.text
  <2>2. /\ x \in Seq(STRING) /\ y \in Seq(STRING) /\ u \in Seq(STRING) /\ v \in Seq(STRING)
        /\ Len(x) = 1 /\ Len(y) = 1 /\ u # << >> /\ v # << >> /\ x \o y = u \o v
    BY <1>2, <2>1 DEF OnePart
  <2> HIDE DEF x, y, u, v
  <2>3. u = x /\ v = y
    BY <2>2, PartsTell
  <2>4. s.text = r.text /\ c.text = b.text
    BY <2>3 DEF x, y, u, v
  <2> QED
    BY <2>4, NameAssumption DEF InUse
<1>3. <<Namespace(p)>> # SandboxKey(q, s, c)
  BY DEF SandboxKey
<1> QED
  BY <1>1, <1>2, <1>3

(* A record of an environment is replaced only by one of its kind, its     *)
(* baseline and routing key (unless a '#' blurs them) and its tenant or a  *)
(* related one.                                                            *)
THEOREM RecordsReplacedInKind == TenancySpec => EnvironmentsKept
<1> DEFINE Kept(key) ==
             /\ key \in DOMAIN registry'
             /\ LET old == registry[key]
                    new == registry'[key]
                IN  /\ new.kind = old.kind
                    /\ Len(old.tenant.words) <= Limit /\ Len(new.tenant.words) <= Limit
                       => Related(old.tenant, new.tenant)
                    /\ old.kind = "sandbox" /\ OnePart(old.baseline) /\ OnePart(old.routing_key)
                       => new.baseline = old.baseline /\ new.routing_key = old.routing_key
           A == \A key \in DOMAIN registry : Kept(key)
<1>1. ASSUME TenancyInv, [TenancyNext]_tenancyVars PROVE [A]_tenancyVars
  <2> SUFFICES ASSUME TenancyNext, NEW key \in DOMAIN registry PROVE Kept(key)
    BY <1>1
  <2>1. PICK p \in Projects :
          \/ DevspaceRecord(key, p)
          \/ \E r \in Repos, b \in Branches : SandboxRecord(key, p, r, b)
    BY <1>1 DEF TenancyInv, RecordsNamed
  <2>2. registry[key].tenant = p.tenant
    BY <2>1 DEF DevspaceRecord, SandboxRecord
  <2>3. ASSUME key \in DOMAIN registry', registry'[key] = registry[key] PROVE Kept(key)
    <3>1. ASSUME Len(p.tenant.words) <= Limit PROVE Related(p.tenant, p.tenant)
      BY <3>1, NamespaceShared
    <3> QED
      BY <2>2, <2>3, <3>1
  <2>4. ASSUME NEW q \in Projects, ProvisionDevspace(q) PROVE Kept(key)
    <3> DEFINE k == <<Namespace(q)>>
    <3>1. registry' = Put(registry, k, [kind |-> "devspace", tenant |-> q.tenant])
      BY <2>4 DEF ProvisionDevspace
    <3>2. CASE key # k
      BY <2>3, <3>1, <3>2 DEF Put
    <3>3. CASE key = k
      <4>1. DevspaceRecord(key, p)
        BY <2>1, <3>3, KeyTells DEF SandboxRecord
      <4>2. Namespace(p) = Namespace(q)
        BY <3>3, <4>1, KeyTells DEF DevspaceRecord
      <4>3. /\ key \in DOMAIN registry' /\ registry'[key].kind = "devspace"
            /\ registry'[key].tenant = q.tenant /\ registry[key].kind = "devspace"
        BY <3>1, <3>3, <4>1 DEF Put, DevspaceRecord
      <4> QED
        BY <2>2, <4>2, <4>3, NamespaceShared
    <3> QED
      BY <3>2, <3>3
  <2>5. ASSUME NEW q \in Projects, NEW s \in Repos, NEW c \in Branches, ProvisionSandbox(q, s, c)
        PROVE  Kept(key)
    <3> DEFINE k == SandboxKey(q, s, c)
    <3>1. registry' = Put(registry, k, [kind |-> "sandbox", tenant |-> q.tenant,
                                        baseline |-> s, routing_key |-> c])
      BY <2>5 DEF ProvisionSandbox
    <3>2. CASE key # k
      BY <2>3, <3>1, <3>2 DEF Put
    <3>3. CASE key = k
      <4>1. PICK r \in Repos, b \in Branches : SandboxRecord(key, p, r, b)
        BY <2>1, <3>3, KeyTells DEF DevspaceRecord
      <4>2. Namespace(p) = Namespace(q) /\ (OnePart(r) /\ OnePart(b) => s = r /\ c = b)
        <5>1. SandboxKey(p, r, b) = SandboxKey(q, s, c)
          BY <3>3, <4>1 DEF SandboxRecord
        <5> QED
          BY <5>1, KeyTells
      <4>3. /\ key \in DOMAIN registry' /\ registry'[key].kind = "sandbox"
            /\ registry'[key].tenant = q.tenant
            /\ registry'[key].baseline = s /\ registry'[key].routing_key = c
        BY <3>1, <3>3 DEF Put
      <4>4. /\ registry[key].kind = "sandbox"
            /\ registry[key].baseline = r /\ registry[key].routing_key = b
        BY <4>1 DEF SandboxRecord
      <4> QED
        BY <2>2, <4>2, <4>3, <4>4, NamespaceShared
    <3> QED
      BY <3>2, <3>3
  <2>6. CASE UNCHANGED registry
    BY <2>3, <2>6
  <2> HIDE DEF Kept
  <2> QED
    BY <2>4, <2>5, <2>6 DEF TenancyNext, Provision, Deprovision, OnPush, Apply, Reject
<1> QED
  BY <1>1, TenancyInvariant, PTL DEF TenancySpec, EnvironmentsKept
=============================================================================
