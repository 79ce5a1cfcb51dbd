# sourceos-continuum in TLA+

Models, model-checking runs and machine-checked proofs for the parts of
sourceos-continuum that keep state and take decisions: the lease scheduler, the
execution spine behind `sourceosctl run`, the git-push deploy path with its
release ledger, the autonomous control loop, the cloud-shell spawner and culler,
the verification of Work Units, the evidence of promotion decisions, the
knowledge commons, the front door from a login to a terminal, and the tenants
and previews that share a cluster. `PROJECT.json` has the machine-readable side:
which lines each definition stands for, the runs, the mutants, the hazards, the theorems.

Source paths below are relative to `src/`; `tools/` holds the Python programs.

## 1. Inventory

| Component | State it keeps | Operations | Meets |
|---|---|---|---|
| Lease scheduler (`tools/lease_scheduler.py`) | ordered list, live leases, results, leases per worker, in one process | lease, complete, heartbeat, drained | volunteer workers, which crash and stall |
| Execution spine (`tools/admission.py`, `executor.py`, `mesh_telemetry.py`, `mcp_a2a_grant.py`, `sourceosctl.py`) | usage ledger (one JSON file), heartbeat files | run_spine: admit, place, grant, verify, dispatch, charge; write_heartbeat | other `sourceosctl` commands through the two files; the mesh |
| Placement (`tools/compute_plane.py`) | none | place | every caller of the spine |
| Release ledger and deploy path (`tools/release_ledger.py`, `push_webhook.py`, `deploy_flow.py`, `buildpack.py`) | one directory of files per app, receipts | record, history, current, rollback; handle_push | webhook threads and rollback commands, through the directory |
| Control loop (`tools/control_loop.py`) | cooldown table, in-memory ledger | tick, run | the spine, sensors |
| Cloud shell (`artifacts/cloudshell-hardened-pack/spawner`, `culler`) | none of their own; the Kubernetes API | /launch, patchLastSeen; list and cull | each other, only through the API |
| Work Unit verification (`tools/work_unit.py`) | per-worker reputation | redundant_quorum, spot_check, record | untrusted workers, whose results come in any order |
| Knowledge commons (`tools/commons.py`, `resolution_registry.py`) | records with reuse scores | deposit, record_use, recommend | the CapDs and workloads of the estate; the RCA pipeline |
| Provisioning, DevSpaces (`tools/provisioning.py`, `devspace.py`, `devmode.py`) | tenants, environments; the cluster their manifests are applied to | provision, deprovision, bind, meter, me; provision_devspace, provision_sandbox; attach_command | admission tiers, on_push, whoever applies manifests |
| Promotion gate, ops server, portal (`tools/promotion_gate.py`, `mcp_ops_server.py`, `portal_server.py`) | evidence files, receipts | gate, call_tool, list_evidence, /api/evidence | each other, through two directories; the reviewer's verdicts |
| Front door (`tools/sso.py`, `login.py`) | none of its own: the caller keeps state, nonce, verifier, challenge and counter | authorization request, callback, ID token, assertion, session | the identity provider, authenticators, the Grant authority (`mcp_a2a_grant.py`) |
| Edge workers, availability (`tools/edge_worker.py`, `availability.py`) | none | register_worker, evolve, estate_availability | the mesh, through a heartbeat file |
| Data spheres, inference (`tools/data_sphere.py`, `inference.py`) | none | mint, check, translate into a placement | placement |
| Porter shim, validators, charts | none | translations | |

### What is hard in each, and what makes it correct

- **Lease scheduler.** A lease can expire, be reclaimed by somebody else's call,
  be re-lent, and still be completed late by its first worker; four fields must
  agree throughout. Correct means: no unit lost or held twice, no worker beyond
  the Limiter, a late result never displaces the authoritative one, units go out
  in order, and every unit is finished if a worker survives.
- **Execution spine.** Commands run concurrently and share a ledger file without
  a lock; heartbeats age between the read and the decision; a Grant can expire
  before it is used; a command can be killed between any two steps. Correct means:
  nothing is dispatched that a gate should have stopped, and what runs stays within
  the budget.
- **Release ledger.** Three separate steps per record, threads and commands at
  once, crashes that leave truncated files. Correct means: history is the order
  of completed releases, a rollback goes to something that ran, and what a pusher
  was told of can be read, unless a release of the same name was begun since.
- **Control loop.** Slow or failing remediations, repeated conditions. Correct
  means: one decision per condition and cooldown, every action on record, no
  tick that gets stuck.
- **Work Unit verification.** Results arrive late, out of order and from liars,
  and a verdict may be asked for after each. Correct means: a lie is accepted
  only by a quorum of liars, a verdict is final, honest workers keep their
  standing, and enough of them get a unit accepted.
- **Evidence.** Decisions and receipts are files that several processes write
  without a lock, in two steps that can fail or be cut short. Correct means:
  nobody is told a decision that is not on record, and agents and people can see
  what was told.
- **Commons.** The id of a record covers some of its fields, and a new deposit
  replaces them all. Correct means: citations stand, and the reuse ranking
  follows what was reported.
- **Cloud shell.** Read-modify-write and list-then-delete against an API that
  other programs write to. Correct means: lastSeen only moves forward, idle
  shells go away, used ones only if a launch met the culler's pass.
- **Front door.** Callbacks and assertions arrive late, twice or at another
  login; clocks differ and times are cut to seconds; a Grant outlives the
  session it was issued in. Correct means: a login keeps its code, an assertion
  opens one session, the leeway covers the skew both ways, and a terminal opens
  within a bounded time of a sign-in of the user whose Grant it is. That the
  terminal is in that user's own pod is up to the caller.
- **Provisioning and DevSpaces.** Names are joined and cut; several pushes apply
  their manifests object by object, and some are rejected. Correct means: a route
  does not name a fork of another baseline or branch, tenants stay apart unless
  their names are one the beginning of the other, and an environment's record is
  replaced only by one of the same environment or a related tenant's.

`PROJECT.json` lists these hazards one by one, at their lines.

## 2. Modules

| Module | What it is |
|---|---|
| `WorkPool` | abstract specification: a pool of units that are waiting, lent or finished |
| `LeaseScheduler` | `lease_scheduler.py`, one action per method; implements `WorkPool` |
| `ReleaseLedger` | `release_ledger.py` under `push_webhook.py`, `deploy_flow.py`, `buildpack.py` |
| `ComputePlane` | `place()` as an operator over the real backend tables |
| `ExecutionSpine` | one `sourceosctl run` per process, over `ComputePlane` |
| `ControlLoop` | `control_loop.py` over an abstracted spine |
| `CloudShell` | spawner and culler over the Kubernetes API |
| `WorkUnit` | `work_unit.py`: quorum, canaries and reputation over results in any order |
| `Evidence` | `promotion_gate.py`, the receipts and lists of `mcp_ops_server.py`, `/api/evidence` of `portal_server.py` |
| `Commons` | `commons.py` and `resolution_registry.py` |
| `FrontDoor` | `sso.py` and `login.py`, with the Grants of `mcp_a2a_grant.py` and `devmode.attach_command` |
| `Tenancy` | the tenants of `provisioning.py`, `devspace.py` and the previews of `deploy_flow.on_push`, over one cluster |
| `LeaseScheduler_proofs`, `ExecutionSpine_proofs`, `ReleaseLedger_proofs`, `Evidence_proofs` | theorems about the module they are named after |
| `Controllers_proofs` | theorems about `ControlLoop` and `CloudShell` |
| `Results_proofs` | theorems about `WorkUnit` and `Commons` |
| `Access_proofs` | theorems about `FrontDoor` and `Tenancy` |
| `DataLemmas` | facts about least numbers, ranks in an order and sums over a set, which those proofs share |
| `MC...` | instances for TLC: concrete sets, symmetry |

Every module names its bounds as constants. Definitions whose names end up only
in `mutants` of `PROJECT.json` (`KeptAll`, `ExpiredEarly`,
`NewerByStamp`, `AdmitSpent`, ...) are plausible wrong versions of the
definition that follows them. Nothing uses them, and substituting one makes the
named property fail. `CloudShell`, `Tenancy` and `Commons` put their name before
`Init`, `Next`, `Spec` and `TypeOK` (`ShellInit`, `TenancyInit`, `CommonsInit`), so
that a module of proofs can extend two of them.

### LeaseScheduler

A Work Unit is its index and a lease id is the n of `lease-<n>`. `pending`,
`leased`, `done` and `inflight` are the four fields of the object; `lent` is the
history of replies, whose length is `_seq`; `accepted` are the completions that
answered True. A deadline is kept as the time left until it, down to -1, because
the code only asks whether `now > deadline`: with that the clock needs no bound.
`_reclaim` is not an action: `lease` and `drained` call it first, so its effect
(`Kept`, `InflightKept`, `Pools`) is part of theirs. The sort in `_reclaim` is
modelled by the ordered arrangements of the entries, and proved to leave the
list ordered. Workers crash for good, hold leases for any time, repeat
completions and heartbeat or not, as they like. The object is used from one
thread, so each method is one step.

### ReleaseLedger

One app's directory. `record()` is three steps of a process (`Count` computes
`len(glob)`, `Create` opens the file, `Write` fills it), because the webhook
server runs one thread per delivery and rollbacks are separate commands. A
process may die between any two of them; a truncated file stays, and `Readable`
skips it. Reading the directory in `history()` is one step. A release id is the
pair of digest and time that it hashes, with `HashRank` as the order of the
hashes. `history()` sorts file names; in the model a name's `Place` is the number of
readable names before it, and `History` has each in its place. `log` and `after` are
history variables: the order in which `record()`
calls returned, and what was complete when each began.

### ComputePlane and ExecutionSpine

A process runs one command after another: `Start` reads the ledger and the
heartbeats (a file being rewritten at that moment does not parse and counts as
absent), then `Denied`/`Admitted`, `GrantRefused`/`GrantIssued`,
`DispatchRefused`/`Dispatch`/`DispatchRaises`, and `SaveBegin`/`SaveEnd` for
`charge()` with its truncate-then-write. A command line makes its controller
anew each time; a resident process, such as a control loop, goes on with the
`copy` it loaded when it started. `Crash` kills either between any two steps, and
a ledger that was truncated and not written stays so until the next save.
`Admitted` places against the heartbeats read earlier, as old as they now are.
`DispatchRaises` is a subprocess timeout, after which the job may run or not.
A node is one that announces a backend itself or a worker registered by
`register_worker`, which announces `k3s-edge` for every k3s distribution
(`Announced`). `jobs` is history: every dispatch `execute()` returned from, or whose
adapter raised after submitting, whether or not it was charged. An adapter also
returns when it has given the backend nothing (`applied=False`: no `--apply`, no
context, a `kubectl` or `sbatch` that fails): `ran` tells such a job from one that
was submitted. `run_spine` charges both. `sound` is history too: it turns false when a charge is computed
from a copy that is no longer the file's, or a dispatch is never charged. Costs
are whole units, and the rounding of spend to six digits is left out. Grants
carry the effect and the expiry; their signature is that of the command itself.

### ControlLoop

`tick()` is split where time passes: reading the clock, each suppression or
remediation, and recording it. `run_spine` is abstracted to ran, denied, blocked
or raised, and to the one budget it charges. A condition is its key and whether
JSON can encode it, which is what `_seal` needs. Every condition is a dict whose key
can be hashed; any other would end the tick too (`control_loop.py:61-62`).

### CloudShell

A handler makes its API calls in the order of `/launch`; each may fail without
effect, and the handler goes on either way, as the code ignores the errors.
`Update` carries the version that was read and Kubernetes refuses a stale one
(`fresh`); `Delete` by name carries none. The culler's List, its `time.Now` and
each Delete are separate steps. `launched` is history: whose annotation was set
since that List. Times are ages, capped just above the idle limit.

### WorkUnit

A result is a worker and an output; an output stands for its digest. `Return` is
the only step of a worker: an honest one returns what the task yields, any other
whatever it likes, each at most once per unit. `Verify` is `verify_and_score()`
over everything that came in so far, asked for whenever there is something new.
`max()` over a dict keeps the first of the largest groups, and `Winner` does too.
Reputation only counts; `score()` and `trusted()` read it and are left out.

### Evidence

A process is a command line of the gate or an ops server. `Decide` is `gate()` up
to its file name, which has the key and the *second*; `OpenFile` truncates and
`FillFile` writes, and `WriteFails` can replace either. A server then seals a
receipt (`OpenReceipt`, `FillReceipt`, `ReceiptFails`), and `Answer` is the exit
status or the reply. A process can die before any of these. A file two processes
write at once may be torn. `decisions` is history. File names sort by
`Alphabet`: the k-th of a list is the name with k - 1 before it. `PortalLimit` is the
portal's fixed 20 (`portal_server.py:60`), and `Asked` the limits agents pass
(`mcp_ops_server.py:105`), which may be zero or negative: `Cut` is the slice `[:limit]`.

### Commons

`records` is the dict in its order, which breaks ties in a ranking. An id is
minted from domain, name, version and the digest of the content; two contents are
assumed not to share the twelve digits kept of it. `Put` replaces a record of the
same id with everything in it. `Estate` is what an ingest reads, in order, and
`Ingest` passes over what does not parse. A ranking is a `Pool` of positions, each
with its `PlaceIn` it. Scores are in thousandths, rounded half to even like
Python's. `applied` is history: the outcomes
reported since the last deposit. Languages match by tag alone, because a record
keeps no content for `next_best_action` to search.

### FrontDoor

`sso.py` and `login.py` are functions; their state is their caller's, as
`login.py:6-8` and `sso.py:81` say, and the model keeps it as such a caller does:
state, nonce and verifier are the login's own, so that a callback carries the
login it belongs to, and a stored counter is set from what `verify_assertion`
returned, in the same step. `Callback(l, c)` is the callback of login c reaching
the handler of login l; the provider takes a code once, whatever verifier comes
with it. A token refused by time keeps its login out. Clocks run in fractions of a
second, which `_iso` cuts off (`Second`), and the provider's is off by a constant
`skew`. A session id is a hash of user and second; a Grant is bound to that id,
and `Attach` asks `verify_grant` for `pty.attach`, and nothing about the session.
The pod it opens is any user's (`owner`), because `attach_command` takes namespace
and pod from its caller (`devmode.py:53`).
Signatures, issuer, audience and origin are inputs that pass.

### Tenancy

A name is its text, as the parts between its `#`s, and the words its slug keeps. The
code returns manifests; who asked for them applies them, so each set goes on a list and
`Apply` takes the next object of any of them, in a namespace that is there: the cluster
is what was applied last under each name. `Reject` drops an object instead, and what follows it is applied
all the same. Of a namespace's objects the policy stands for the quota and the volume
claim too. `Slug` cuts after `Limit` words where the code cuts after 63
characters. `tenants` and `registry` are the dicts of `ServiceBroker` and
`DevSpacePlane`; `on_push` writes to neither. The namespace that `provision_sandbox`
takes from its caller is that of the project it is called for, as in
`devspace.py:174-176`. A sandbox's key joins its texts, so that `page` with branch
`feat#x` and `page#feat` with branch `x` have one key (`devspace.py:160`). The route's
`host` is a name: a Service, which `sandbox_manifests` does not make.

## 3. Runs

| Run | Bounds | Shows |
|---|---|---|
| `lease_safety` | 3 units, 2 interchangeable workers, Limiter 2, TTL 1, 5 leases | all safety properties, and the refinement of `WorkPool` |
| `lease_liveness` | the same, 7 leases | every unit is finished if one worker survives |
| `ledger_concurrent` | two processes, 3 trees, 2 clock values, 3 files | order, rollback and receipt properties that survive overlap and crashes |
| `spine` | a command line and a resident, six kinds of request of two subjects, two mesh nodes and a registered worker, 2 clock values, 2 commands | every gate holds; only live backends are chosen; the ledger is exact while nothing stale was charged, no dispatch is charged twice and nothing else is charged, never over quota |
| `spine_race` | two command lines, 2 subjects | *fails*: what really runs is over quota |
| `loop` | 3 conditions, 2 per tick, cooldown 2, quota 1, 4 clock values | once per cooldown, all on record, and ticks end |
| `shell` | one user, two launches at a time, idle limit 1 | lastSeen never goes back, an idle shell is deleted in the end, a shell deleted though in use was launched during the culler's pass |
| `quorum` | 2 honest and 2 lying workers, 2 outputs, replication 3 and one late result, one canary | lies need a quorum, verdicts are final, honest workers keep their standing and are accepted in the end |
| `evidence` | one command line, one server with a grant, 2 decisions, 2 receipts, 3 clock values, 2 per second, portal lists of 2, agents asking for -1, 0, 1 or 3 | decisions told are on record, receipts have their decision, and neither list hides a told decision behind anything but decisions of later names |
| `commons` | 3 contents of one resolution, one filed under two classes, 3 CapDs (one unreadable), one workload, 3 uses per record, lists of 2 | citations stand, and the proven resolution is first |
| `access` | 2 users, one of whose authenticators counts, 2 interchangeable logins, 2 assertions, 2 sessions, 1 Grant, 6 clock values, 2 per second, leeway 1, skews of the whole leeway either way | logins keep their codes, assertions open one session, the skew is tolerated, terminals open near a sign-in of the Grant's user |
| `tenancy` | 3 tenants with names that run into each other or have another's words at the end, 2 baselines and 2 branches, two pairs of which have one key and, but for the `sbx` between, one name, slugs of 4 words, 3 sets of manifests, any object rejected | what a route names is no other branch's fork, tenants are apart, records are replaced in kind |

The run marked *fails* is a disagreement between the code and what its docstring
says; `findings` in `PROJECT.json` quotes both sides. Others that the models show,
and that have no run of their own:

- The command line passes `place()` no `allowed_backends` (`sourceosctl.py:63`)
  and its controller no tiers (`sourceosctl.py:83`), so a subject reaches backends
  outside its tier, against `admission.py:22-23`; the tier the broker recorded is
  not the one admission enforces.
- `CulledWasIdle` is all that holds of "so the culler doesn't delete recently used
  shells" (`spawner/cmd/spawner/main.go:258`): the culler deletes by name
  (`culler/cmd/culler/main.go:47`) what its List showed, and a launch in between
  refreshes a shell that is then deleted.
- `attach_command` (`devmode.py:53`) does not look at the session's expiry, so a
  terminal opens up to one Grant's lifetime after it: `PresenceBounded` has the sum
  of both lifetimes. Nor does anything tie its namespace and pod to the Grant or the
  session (lines 53, 65), against "in the user's own DevSpace namespace" in lines 5-6:
  a Grant opens a terminal in whoever's pod the caller names, and the model does that
  (`open` is the Grant's user and the pod's owner). Two sessions of one user in one
  second have one id.
- The route of a sandbox is named for its baseline (`devspace.py:92`), so the second
  branch's preview replaces the first's route, against "per-branch PREVIEW" in
  `deploy_flow.py:6`: `PreviewsApart` is about the routes that are there.
  A fork's name that is cut off, or two branches of one slug, make two previews one
  Deployment, which `PreviewsApart` and `WholeFork` exempt.
- That route's destination is a host, the Service named like the fork
  (`devspace.py:97`), and `sandbox_manifests` returns a Deployment and a
  VirtualService only (line 101), against "routes requests ... to the fork" in line 72:
  unless somebody makes that Service the route leads nowhere. Nor does a Deployment
  that is rejected (a label's value such as `feat/x`, lines 75-76) keep its route from
  being applied. No property says that a preview is served.
- A DevSpace or sandbox of another tenant with the same namespace slug replaces the
  first one's record (lines 153, 163), so `environments(tenant)` no longer lists it,
  and so does a sandbox whose names join to the same key (line 160).
  `EnvironmentsKept` says what does not happen beyond that.
- Namespaces are joined and cut slugs (`devspace.py:34`), so tenants of which one
  name begins with the other may share one, policy and all, against "an isolated
  DevSpace" in `provisioning.py:11`; `Related` exempts them.
- `default_adapters()` has no adapter for `k3s-edge`: `DispatchRefused` refuses, after
  the Grant was minted, whatever is placed there (`executor.py:189`).
- `tick()` compares cooldowns with the time the tick began (`control_loop.py:58`),
  so two remediations of one condition can start less than a cooldown apart when
  those before them are slow.
- Two overlapping `record()` calls compute the same sequence number
  (`release_ledger.py:69`, one webhook thread per delivery), and `history()` then
  orders their releases by time and hash, against "append order" in lines 64-66.
  `RealTimeOrder` is what remains.
- The image digest is computed from file *names* and the buildpack
  (`buildpack.py:60`), so two contents under the same names are one image, against
  "CONTENT-ADDRESSED" in `release_ledger.py:8`. `BuildDigest` is the names.
- Nothing on the command path calls `AdmissionController.release`, so concurrency
  that was charged is never given back, against `admission.py:11-13`. `JobEnds`
  leaves the ledger alone.
- A command killed, or an adapter that times out, between dispatch and save leaves a
  job nobody is charged for, and a kill inside the save a ledger that counts as
  empty (`admission.py:59`): `ChargesCovered` and `LedgerWithinQuota` survive that,
  exactness (`LedgerSound`) does not, and says so.
- A dispatch whose adapter gave the backend nothing comes back `applied=False`
  (`executor.py:50-52`, `105-120`, `158-168`), and `run_spine` charges it all the same
  (lines 249-250), against "On a successful dispatch the consumption is charged" in
  `admission.py:12`. So the books are about dispatches, not about what ran:
  `ChargesCovered` and `LedgerSound` count every job, submitted or not.
- `verify_and_score()` records the largest group as agreed without a quorum too
  (`work_unit.py:115-118`), against "verified successes" in line 17; a failed
  canary costs no reputation, against lines 13-14. Results are counted, not
  workers: one worker's result delivered twice would count twice.
- Two decisions on one key in one second share a file, and the later one replaces
  the earlier (`promotion_gate.py:62`), against "append-only evidence" in
  `docs/CLOUDSHELL_FOG.md:22`; `DecisionOnRecord` exempts such pairs. A verdict file
  that cannot be read, and `--no-write`, leave no evidence.
- `list_evidence` promises the most recent bundles (`mcp_ops_server.py:141`) and
  sorts by name, gate decisions before receipts. Its limit is the caller's: with a
  negative one (line 105) it drops entries from the end, a decision among them, and
  with one other than 20 its list is not the portal's. A receipt whose write fails is
  dropped (`ReceiptFails`), though every call is to be recorded (lines 58-59).
- Depositing a content again resets its reuse history, and can move it to another
  class (`commons.py:71`). A failed use lowers the score that `record_use` says it
  raises (line 138).
- A condition that JSON cannot encode ends the loop, after its remediation
  (`RecordRaises`, `control_loop.py:81`), against lines 15-16.

**Why these bounds.** Two workers, processes or handlers are what a conflict
needs in this code: every shared object is read and written by one actor and
disturbed by another. Three units allow one waiting, one lent and one finished
at once, and a list that is out of order after a reclaim. Five leases allow one
unit to be re-lent twice with others in between. Two clock values separate same
instant from later; the loop needs more, to pass a cooldown and to act at its
edge. Three files allow a rollback to be overtaken, and a rollback after one. Two
commands are enough for one to be admitted while the other charges, and for a
resident to go stale; a third adds no pair. Three sets of manifests allow two
previews in the namespace of a DevSpace, or three DevSpaces side by side. Six
fractions of a second pass the ends of a session, of a Grant and of a token with
the leeway on either side. The mutants are a check on the bounds: each property fails
within them when the code is changed.

**Fairness.** `TimelySpec` assumes what the scheduler's docstring asks of
workers: a live one heartbeats or completes before its deadline (`OnTime`
guards the clock), goes on asking for work and completes what it holds. Crashed
workers owe nothing, and nobody has to call `drained()`. `ControlLoop` assumes
only that a tick that has begun goes on. `CloudShell` assumes that the culler's
ticker keeps firing, that a List eventually succeeds, and that not every Delete
of an idle shell fails (strong fairness, as each pass may fail); nothing is
assumed of launches. `WorkUnit` assumes that honest workers return and that the
caller asks for a verdict on what has come in; liars may never return.

## 4. Proofs

Eight modules have proofs, each for every value of the constants of the modules they
are about; the bounds that keep TLC's instances finite (`MaxLeases`, `MaxClock`,
`MaxJobs`, `MaxFiles`, ...) are arbitrary numbers there. Every safety invariant and
every action property that a run checks is a theorem; `ProvenFirst` has a condition,
which is explained below. An entry without parentheses is a property of that name.

| Model | Proofs in | Assumes | Safety invariants | Action properties |
|---|---|---|---|---|
| `LeaseScheduler` | `LeaseScheduler_proofs` | `ParamAssumption`: types | `NothingLostOrDoubled` (`OneCopy`), `LimiterRespected` (`LimiterHolds`), `ResultsAuthoritative` (`Authoritative`), `DrainedIsDone` | `LeaseKeptUntilDeadline`, `FirstResultKept`, `HandedOutInOrder` (`LowestFirst`), `Refinement` of `WorkPool` |
| `ExecutionSpine` | `ExecutionSpine_proofs` | `RequestAssumption`: costs, quotas and capacities are numbers, the nodes are finitely many | `QuotaKept` (`LedgerWithinQuota`), `EveryChargeCovered` (`ChargesCovered`), `LedgerIsSound` (`LedgerSound`), `FailClosed` (`Governed`) | `PlacedOnLiveNodes` (`LiveAtPlacement`) |
| `ReleaseLedger` | `ReleaseLedger_proofs` | `LedgerAssumption`: types, finitely many processes, and different release ids have different hashes | `HistoryInOrder` (`RealTimeOrder`), `RollbackRan` (`RollbackToPrior`), `AnnouncedIsRecorded` (`ReceiptIsRecorded`) | |
| `ControlLoop` | `Controllers_proofs` | `ParamAssumption`: types | `OncePerCooldown` (`DecidedOnce`), `NothingUnrecorded` (`EveryActionRecorded`) | |
| `CloudShell` | `Controllers_proofs` | `IdleAssumption`: a number | | `LastSeenMonotonic` (`SeenNeverRewinds`), `DeletedWasIdle` (`CulledWasIdle`) |
| `WorkUnit` | `Results_proofs` | `ParamAssumption`: types, finitely many workers | `AcceptanceSound` (`AcceptedIsTrue`) | `VerdictFinal` (`AcceptedStands`), `HonestUnharmed` (`HonestKeepStanding`) |
| `Evidence` | `Evidence_proofs` | `ParamAssumption`: types | `ToldIsOnRecord` (`DecisionOnRecord`), `SealedIsOnRecord` (`ReceiptHasEvidence`), `ToldCanBeSeen` (`ToldIsShown`) | |
| `Commons` | `Results_proofs` | `DigestAssumption`: no collisions; `ContentAssumption`: what a record's provenance is made of is part of its content; `BoundAssumption`: numbers above 0 | `ProvenComeFirst` (`ProvenFirst`) | `CitationsStand` (`CitationStands`) |
| `FrontDoor` | `Access_proofs` | `ParamAssumption`: types; `SkewAssumption`: the provider's clock is off by no more than the leeway | `StrayCallbacksHarmless` (`CodeKeptForItsLogin`), `AssertionsHonouredOnce` (`OneSessionPerAssertion`) | `TokenWindow` (`SkewTolerated`), `TerminalsNearSignIn` (`PresenceBounded`) |
| `Tenancy` | `Access_proofs` | `NameAssumption`: a limit of at least one word, and names told apart by their texts | `ForksApart` (`PreviewsApart`), `NamespacesApart` (`TenantsApart`) | `RecordsReplacedInKind` (`EnvironmentsKept`) |

Each model also has a theorem that its inductive invariant holds (`Invariant`, or
`ShellInvariant`, `TenancyInvariant`, `LedgerInvariant`, `CommonsInvariant`) and one
of its types (`TypeCorrect`, `LedgerTyped`, `CommonsTyped`, ...). TLC checked each
invariant before it was proved. One lemma per action shows that the invariant is
preserved; lemmas about the operators (what a phase carries, what a sort keeps, how
far a time is cut) come first.

**DataLemmas.** The provers cannot be given an induction over data. What they can be
given is a set of numbers and its least element (`LeastNat`): a proof here that would be
an induction looks at a smallest counterexample instead. An order is a set of pairs
and a weight a function, so that each fact is about values and can be cited. `RankGrows` and `RankOnto`: in a strict
total order on n elements, each place from 1 to n is that of exactly one. This is
what makes a list by places a sorted list. `SumExists` and `SumAgrees`: the sum of a
weight over the subsets of a finite set exists and does not depend on the set it is
taken in. `SumTakes` and `SumAdds`: it does not depend on the order either, and one
element more adds its weight. With them a fold over a set in a model is that sum.

**LeaseScheduler.** `OneCopy` and `LimiterHolds` are inductive together with types.
`Authoritative` is not: that the kept result came from the last lease of its unit
needs to know that a live lease *is* the last one of its unit, and was handed out
to the worker and for the index that `_leased` says (`LentMatches`).
`HandOutEffect`, `HandOutPlaces` and `ReclaimKeepsUnits` say what `lease()` leaves
in each field: the list after `_reclaim` holds what it held and the units of the
expired leases, each once. The Limiter needs cardinalities: `GrantedWithinRoom`
bounds what `lease()` grants by the room left. `HandedOutInOrder` needs a second
invariant, that the list is ordered (`OrderedStep`), because units go out from the
front of a list that was sorted by an earlier call. In the refinement a live lease
is a loan; `lease()` is a `Lend` of what expired and what it hands out, `drained()`
a `Lend` of nothing or a stutter, an accepted `complete()` a `Finish`, and
heartbeats, time, crashes and late results stutter. Within the Limiter is stated in
`WorkPool` as a slot for each loan, and `LoanLimit` builds the slots from the
counted `_inflight`.

**ExecutionSpine.** A ledger within quota is not inductive: what is saved is a
*copy*, charged for a job admitted some steps ago. `CopiesWithinQuota` says that
every copy is within quota and `RoomKept` that a command past admission still has
its room in its own copy, which only its own process changes. That the file was torn
or stale meanwhile does not matter, since it is replaced as a whole.

What the ledger *amounts to* is a second invariant, `Books`, about sums over the jobs
dispatched (`Bill`). `NotAhead` gives `EveryChargeCovered`: not only the file but every
copy of it, and what a command is about to make of its copy, is no more than the bill
of all jobs. It holds through stale copies and torn files, because a charge is only
ever added for a job that is already there. `LedgerIsSound` needs to know which jobs
are *not* in the ledger: `Reconciled` says that while `sound` each command about to
charge answers for one job of its own, no two for the same one, and that the ledger is
the bill of all the others. The file is torn only while one command saves it, and then
that command's copy is the ledger (`Booked`).

`Gates` is the third. `GatesPassed` says what the gates behind a command have
established of its request and its backend, and gives `FailClosed` when the job is
dispatched. That the backend suits the request at all is `PlaceSuits`: `place()`
answers with one of its candidates whichever way it chooses, by preference, the most
elastic or the least, since each of those orders has a first element among finitely
many. `PlacedOnLiveNodes` needs `MeshPast`, that beats read earlier are no younger than
the nodes' last ones, and `AvailabilityFacts`, that a sum of capacities above zero has
a live node in it.

**ReleaseLedger.** `HistoryInOrder` rests on sequence numbers that are counts of files.
`Counted`: no file has a number as large as the count, and what was complete when a
release began has smaller numbers than it, although others take their counts in
between and a crash leaves files without content behind. Since nothing deletes a
file the count only grows, and `HistoryPlaces` does the rest: the history has every
readable file once, in its name's place, and the newer name before the older
(`HistoryComplete` states this for every reachable state). `RoomLeft` keeps a place
for every release that has not created its file yet, so that the bound `MaxFiles`
never cuts one short. `Sealed` (a complete file is that of a release in the log),
`Aimed` (the target of a rollback under way is in the log) give `RollbackRan`.
`Announced` gives `AnnouncedIsRecorded`: what a push is about to announce has its file,
which can be read unless another record opened it again (`again`), since only a release
of the same number, microsecond and id has the same file name. `TargetRan` is about `rollback()` itself: for any number of
steps, its target is a release that the history lists.

**ControlLoop.** `ActedCovers`: no record is younger than the table's entry for its
key; `NotCooling`: what is being remediated was not cooling down; `OneBehind`: while
a remediation is being recorded the ledger is one behind.

**CloudShell.** `FreshIsYounger`: a handler whose version is still current holds a
time no older than the annotation it replaces. `ListingHolds`: of a user not
launched since the List, the culler knows what is so, or what is idle anyway.

**WorkUnit.** `HonestTrue`: honest results are the true ones; `VerdictHolds`: an
accepted output had a quorum in the results it was judged by. `VerdictFinal` is
then that two quorums of at most the replication factor meet in a result, and
`HonestUnharmed` that the largest group of an accepted verdict is the honest one.

**Evidence.** A decision that is told, answered or sealed is *settled*: its file is
complete and nobody still writes it. That needs `OneWriter` (a decision is written
by one process), `FillingOpened` (what is being filled was opened under the same
name) and `ReceiptsOpened`. Decisions with the same file name are exempt all along
(`Namesakes`). `ToldCanBeSeen` adds that there are only ever finitely many files
(`Listable`), that their names are in a strict order (`LaterOrders`), so that each has its
place in the list (`GatesListed`), and that whatever is joined behind the first bundle
cannot push it out (`FirstBundleShows`).

**Commons.** `CommonsInv`: every record is one that some document makes, with some
reuse (`Shelf`); ids are distinct; and counters and score are those of the outcomes
reported since the last deposit (`Reported`). An id is a digest of the content, and the
claim of reproducibility is a function of the content (`IdsAgree`), so replacing a
record leaves what was cited. An ingest is a fold over the estate, of which
`FoldDeposits` shows that it is a sequence of deposits. `ProvenComeFirst` is about
rounding: of two rates that differ, the larger has the larger score as long as they
are more than a thousandth apart, which `ScoreFollows` shows for up to 32 uses of each
record. The condition is nearly the best there is: `ScoresMeet` shows that one success
in 34 uses and one in 35 have the same score, and `recommend()` then prefers the
record with more uses, which is the worse one.

**FrontDoor.** `MintedBefore`, `CounterLeads` (a stored counter is never behind an
honoured assertion), `SessionsBounded` and `GrantsBounded` (a Grant ends within one lifetime of a session
of its user, which ends within one of its sign-in).

**Tenancy.** What is on the cluster under a name is what some project's manifests
say there, whatever was rejected, so `ForksApart` and `NamespacesApart` come down to
facts about sequences: what is before and behind a separator can be told if it is
nowhere before it (`SeparatorSplits`, hence `ForkTells`), and if two joined and cut
names are equal and neither tenant's name is cut, one tenant's name begins with the
other's (`SlugPrefix`, hence `NamespaceShared`). `RecordsNamed` gives
`RecordsReplacedInKind`: equal keys have equal namespaces, and equal baselines and
routing keys if neither has a `#` (`KeyTells`).

**Only model-checked.** The liveness properties (`EventuallyDone`, `TickEnds`,
`IdleIsCulled`, `EventuallyAccepted`): liveness under fairness is out of the prover's
reach. The finding of `spine_race` is a counterexample and needs no proof.

## 5. Limits

- Clocks do not run backwards, and all processes read the same one.
- Reading a whole directory is atomic; reading one file while it is being
  rewritten is not.
- Different inputs hash differently.
- Cryptography (signatures, seals) is abstracted to its verdict.
- A file is truncated and written in two steps, never partly written.
- The caller of `verify_assertion` reads, verifies and stores the counter of a
  credential in one step; two at once are the caller's to keep apart.
- The provider's clock is off by a constant.
- TLC's lists of environment inputs are small sets, and its capacities 0 or 1.

## 6. Not modelled

- `data_sphere.py`, `inference.py`, `availability.py`, `edge_worker.evolve`: each
  call turns one document into another, keeps nothing and meets nobody. What a
  model of them could say is the table they contain. (Reading them for the model of
  placement: a residency of "any" or of a region such as "eu" is a hard need that no
  backend's capabilities list, and `inference_service_workload` passes the model's
  on, so such a model cannot be placed.)
- The other routes of `portal_server.py`, `ServiceBroker.bind`, `me` and `meter`, the
  views of `MeshRegistry`, `LeaseScheduler.progress`, `Reputation.score`: they read.
- The contents of manifests, scripts and charts (`agent_machine_statefulset`,
  `devmode_patch`, what adapters emit): data that no other code here reads.
- `porter-shim`: each request is one call to the Kubernetes API.
- `validate.py` and the shell scripts: checks and steps without state of their own.
- Signatures, seals and key sets: abstracted to whether they verify.

## 7. What could follow

1. An abstract specification of the ledgers: a release history as one sequence that
   `ReleaseLedger` implements while releases do not overlap, and a budget that
   `ExecutionSpine` implements while `sound`.
2. Compositions: `ControlLoop` with `ExecutionSpine` in place of its abstracted
   outcomes (a resident of `ExecutionSpine` is such a loop, without its cooldowns);
   `WorkUnit` over the leases of `LeaseScheduler`.
3. Larger instances of `tenancy` and `access` (more sets of manifests; three sessions).
