------------------------------ MODULE Tenancy ------------------------------
(***************************************************************************)
(* Tenants and their environments: the tenants of provisioning.py (the     *)
(* service broker), devspace.py (DevSpaces and sandboxes) and the previews *)
(* of deploy_flow.on_push.                                                 *)
(*                                                                         *)
(* The code computes manifests; whoever asked for them applies them, one   *)
(* object after the other, while others apply theirs and some are rejected.*)
(* The cluster is what was applied last under each name.                   *)
(*                                                                         *)
(* A name is [text, words]: its text, split at every '#', and the words    *)
(* that a slug keeps of it.  "feat#x" is [<<"feat", "x">>, <<"feat", "x">>]*)
(* and "feat-x" is [<<"feat-x">>, <<"feat", "x">>].                        *)
(***************************************************************************)
EXTENDS Naturals, Sequences, SequencesExt

CONSTANTS Words,     \* what slugs are made of
          Projects,  \* [tenant, user, app] that are provisioned and pushed to
          Repos,     \* the baselines, by name
          Branches,  \* routing keys, by name
          Limit,     \* the length of a slug, in words
          MaxPushes  \* bound on the sets of manifests made

Names == [text : Seq(STRING) \ {<< >>}, words : Seq(Words)]
InUse == Repos \cup Branches \cup {p.tenant : p \in Projects}

ASSUME NameAssumption ==
  /\ Limit \in Nat \ {0}
  /\ {"sbx", "sandbox", "route"} \subseteq Words
  /\ Projects \subseteq [tenant : Names, user : Names, app : Names]
  /\ Repos \subseteq Names /\ Branches \subseteq Names
  /\ \A m, n \in InUse : m.text = n.text => m = n

VARIABLES tenants,   \* ServiceBroker._tenants: tenant -> its project
          registry,  \* DevSpacePlane._registry: key -> record
          applying,  \* manifests being applied: push number -> objects left
          cluster    \* <<kind, namespace, name>> -> what was applied last

tenancyVars == <<tenants, registry, applying, cluster>>

-----------------------------------------------------------------------------
(* Names.                                                                  *)

(* _slug of parts that were joined: cut at the limit.                      *)
SlugFromTheEnd(words) ==
  IF Len(words) <= Limit THEN words ELSE SubSeq(words, Len(words) - Limit + 1, Len(words))

Slug(words) == IF Len(words) <= Limit THEN words ELSE SubSeq(words, 1, Limit)

Namespace(p) == Slug(p.tenant.words \o p.user.words \o p.app.words)
ForkUnseparated(repo, branch) == Slug(repo.words \o branch.words)
Fork(repo, branch) == Slug(repo.words \o <<"sbx">> \o branch.words)
RouteName(repo) == Slug(repo.words \o <<"sandbox", "route">>)

Object(kind, ns, name, spec) == [at |-> <<kind, ns, name>>, spec |-> spec]

(* devspace_manifests: the namespace and what belongs to it, under the     *)
(* owner's labels.  The quota and the volume claim go as the policy does.  *)
DevspaceManifests(p) ==
  <<Object("Namespace", Namespace(p), << >>, [owner |-> p]),
    Object("NetworkPolicy", Namespace(p), <<"devspace", "isolation">>, [owner |-> p])>>

(* sandbox_manifests: a fork of the baseline, and the baseline's route,    *)
(* whose destination is a host, the Service of that name, if there is one. *)
ForkObject(p, repo, branch) ==
  Object("Deployment", Namespace(p), Fork(repo, branch), [repo |-> repo, built |-> branch])
RouteObject(p, repo, branch) ==
  Object("VirtualService", Namespace(p), RouteName(repo),
         [repo |-> repo, key |-> branch, host |-> Fork(repo, branch)])

SandboxManifests(p, repo, branch) ==
  <<ForkObject(p, repo, branch), RouteObject(p, repo, branch)>>

-----------------------------------------------------------------------------
Put(f, k, v) == [x \in DOMAIN f \cup {k} |-> IF x = k THEN v ELSE f[x]]

TenancyInit ==
  /\ tenants = << >>
  /\ registry = << >>
  /\ applying = << >>
  /\ cluster = << >>

Emit(manifests) ==
  /\ Len(applying) < MaxPushes
  /\ applying' = Append(applying, manifests)

(* provision(): a tenant that exists is replaced.                          *)
Provision(p) ==
  /\ tenants' = Put(tenants, p.tenant, p)
  /\ Emit(DevspaceManifests(p))
  /\ UNCHANGED <<registry, cluster>>

(* deprovision() forgets the tenant; what was applied stays.               *)
Deprovision(t) ==
  /\ t \in DOMAIN tenants
  /\ tenants' = [u \in DOMAIN tenants \ {t} |-> tenants[u]]
  /\ UNCHANGED <<registry, applying, cluster>>

(* provision_devspace and provision_sandbox.  The latter's key is one text *)
(* made of the texts, "namespace/baseline#routing_key": a slug has no '/', *)
(* but where the baseline ends can no longer be told if a name has a '#'.  *)
ProvisionDevspace(p) ==
  /\ registry' = Put(registry, <<Namespace(p)>>, [kind |-> "devspace", tenant |-> p.tenant])
  /\ Emit(DevspaceManifests(p))
  /\ UNCHANGED <<tenants, cluster>>

SandboxKeyOfBaseline(p, repo, branch) == <<Namespace(p), repo.text>>
SandboxKey(p, repo, branch) == <<Namespace(p), repo.text \o branch.text>>

ProvisionSandbox(p, repo, branch) ==
  /\ registry' = Put(registry, SandboxKey(p, repo, branch),
                     [kind |-> "sandbox", tenant |-> p.tenant,
                      baseline |-> repo, routing_key |-> branch])
  /\ Emit(SandboxManifests(p, repo, branch))
  /\ UNCHANGED <<tenants, cluster>>

(* on_push() of a source that builds: a preview, in nobody's registry.     *)
OnPush(p, repo, branch) ==
  /\ Emit(SandboxManifests(p, repo, branch))
  /\ UNCHANGED <<tenants, registry, cluster>>

(* The next object of one of the sets of manifests is applied, in a        *)
(* namespace that is there, or the cluster rejects it (a label's value, a  *)
(* name that is too long, no such namespace).  The rest follows all the    *)
(* same: a route may be applied whose fork was rejected.                   *)
Apply(n) ==
  /\ applying[n] # << >>
  /\ LET at == Head(applying[n]).at
     IN  at[1] = "Namespace" \/ <<"Namespace", at[2], << >> >> \in DOMAIN cluster
  /\ cluster' = Put(cluster, Head(applying[n]).at, Head(applying[n]).spec)
  /\ applying' = [applying EXCEPT ![n] = Tail(@)]
  /\ UNCHANGED <<tenants, registry>>

Reject(n) ==
  /\ applying[n] # << >>
  /\ applying' = [applying EXCEPT ![n] = Tail(@)]
  /\ UNCHANGED <<tenants, registry, cluster>>

TenancyNext ==
  \/ \E p \in Projects :
       \/ Provision(p)
       \/ ProvisionDevspace(p)
       \/ \E repo \in Repos, branch \in Branches :
            ProvisionSandbox(p, repo, branch) \/ OnPush(p, repo, branch)
  \/ \E t \in DOMAIN tenants : Deprovision(t)
  \/ \E n \in 1..Len(applying) : Apply(n) \/ Reject(n)

TenancySpec == TenancyInit /\ [][TenancyNext]_tenancyVars

-----------------------------------------------------------------------------
Manifests ==
  {DevspaceManifests(p) : p \in Projects}
  \cup {SandboxManifests(p, repo, branch) : p \in Projects, repo \in Repos, branch \in Branches}

Objects == {m[i] : m \in Manifests, i \in 1..2}
Left == Manifests \cup {Tail(m) : m \in Manifests} \cup {<< >>}

TenancyTypeOK ==
  /\ \A t \in DOMAIN tenants : tenants[t] \in Projects /\ tenants[t].tenant = t
  /\ \A key \in DOMAIN registry : registry[key].tenant \in {p.tenant : p \in Projects}
  /\ applying \in Seq(Left)
  /\ \A at \in DOMAIN cluster : \E o \in Objects : o.at = at /\ o.spec = cluster[at]

(* Previews and sandboxes do not get into each other's way: what a branch's*)
(* route names was not built of another baseline or branch (devspace.py:   *)
(* 71-73), whatever else is being applied or rejected - unless the two have*)
(* the same slug, a fork's name is cut off, or a baseline has the word     *)
(* "sbx" in its own name.                                                  *)
WholeFork(repo, branch) ==
  /\ Len(repo.words) + 1 + Len(branch.words) <= Limit
  /\ \A i \in 1..Len(repo.words) : repo.words[i] # "sbx"

PreviewsApart ==
  \A at \in DOMAIN cluster : at[1] = "VirtualService" =>
    LET route == cluster[at]
        named == <<"Deployment", at[2], route.host>>
    IN  named \in DOMAIN cluster =>
          LET fork == cluster[named]
          IN  WholeFork(route.repo, route.key) /\ WholeFork(fork.repo, fork.built) =>
                /\ fork.repo.words = route.repo.words
                /\ fork.built.words = route.key.words

(* "an isolated DevSpace" (provisioning.py:11): a provisioned tenant finds *)
(* its namespace under another tenant's policy only if the name of one     *)
(* begins with the other's, or the limit cuts a tenant's name.             *)
Related(t, u) ==
  IsPrefix(t.words, u.words) \/ IsPrefix(u.words, t.words)

TenantsApart ==
  \A t \in DOMAIN tenants, at \in DOMAIN cluster :
    LET owner == cluster[at].owner.tenant
    IN  /\ at[1] = "NetworkPolicy" /\ at[2] = Namespace(tenants[t])
        /\ Len(owner.words) <= Limit /\ Len(t.words) <= Limit
        => Related(owner, t)

(* What environments() lists (devspace.py:166) is replaced, never dropped: *)
(* by a record of the same kind, for a sandbox of the same baseline and    *)
(* routing key unless one of them has a '#' in its name, and of a tenant   *)
(* whose name begins with the other's or the limit cuts - that other       *)
(* tenant takes the record, and the first one's list loses it.             *)
OnePart(name) == Len(name.text) = 1

EnvironmentsKept ==
  [][\A key \in DOMAIN registry :
       /\ key \in DOMAIN registry'
       /\ LET old == registry[key]
              new == registry'[key]
          IN  /\ new.kind = old.kind
              /\ Len(old.tenant.words) <= Limit /\ Len(new.tenant.words) <= Limit
                 => Related(old.tenant, new.tenant)
              /\ old.kind = "sandbox" /\ OnePart(old.baseline) /\ OnePart(old.routing_key)
                 => new.baseline = old.baseline /\ new.routing_key = old.routing_key
       ]_tenancyVars
=============================================================================
