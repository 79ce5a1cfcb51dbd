----------------------------- MODULE MCTenancy -----------------------------
(* Instance of Tenancy for TLC: the names of "acme" and "acme-alice" run   *)
(* into each other, "globex" has the words of another project at the end   *)
(* of its own, and "page" with "feat#x" has the text and, but for "sbx",   *)
(* the words of "page#feat" with "x".                                      *)
EXTENDS Tenancy

Name(text, words) == [text |-> text, words |-> words]

acme == Name(<<"acme">>, <<"acme">>)
acmeAlice == Name(<<"acme-alice">>, <<"acme", "alice">>)
globex == Name(<<"globex">>, <<"globex">>)
alice == Name(<<"alice">>, <<"alice">>)
x == Name(<<"x">>, <<"x">>)
default == Name(<<"default">>, <<"default">>)
xDefault == Name(<<"x_default">>, <<"x", "default">>)

MCProjects ==
  {[tenant |-> acme, user |-> alice, app |-> xDefault],
   [tenant |-> acmeAlice, user |-> x, app |-> default],
   [tenant |-> globex, user |-> acmeAlice, app |-> xDefault]}

MCRepos == {Name(<<"page">>, <<"page">>), Name(<<"page", "feat">>, <<"page", "feat">>)}
MCBranches == {x, Name(<<"feat", "x">>, <<"feat", "x">>)}
MCWords == {"sbx", "sandbox", "route", "acme", "alice", "globex", "x", "default",
            "page", "feat"}
=============================================================================
