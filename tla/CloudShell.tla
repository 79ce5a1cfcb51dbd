----------------------------- MODULE CloudShell -----------------------------
(***************************************************************************)
(* artifacts/cloudshell-hardened-pack: the spawner's /launch handler and   *)
(* the culler, two programs that meet only in the Kubernetes API.          *)
(*                                                                         *)
(* A handler runs its ensure* calls and patchLastSeen one API call at a    *)
(* time; any call may fail (an error, or the 15 s context has expired),    *)
(* and every failure is ignored.  The culler deletes by name what an       *)
(* earlier List showed as idle.                                            *)
(*                                                                         *)
(* Times are ages: dep[u] is the time since the cloudshell/lastSeen        *)
(* annotation of u's Deployment, capped just above the idle limit.         *)
(***************************************************************************)
EXTENDS Integers, Sequences, FiniteSets

CONSTANTS Users,
          Handlers,  \* concurrent /launch requests
          Idle       \* IDLE_AFTER_MINUTES

ASSUME IdleAssumption == Idle \in Nat

VARIABLES dep,      \* user -> age of lastSeen, or Absent: the Deployments
          extras,   \* user -> the other objects that exist for the user
          handler,  \* the requests in progress
          culler,   \* the culler's pass in progress
          launched  \* users whose lastSeen was set since the culler's last List

shellVars == <<dep, extras, handler, culler, launched>>

Absent == -1
Old == Idle + 1
Ages == 0..Old
Older(a) == IF a = Absent \/ a = Old THEN a ELSE a + 1

(* The get-or-create calls of /launch, in order, around the Deployment and *)
(* its annotation (the Role is shared by all users).                       *)
Calls == <<"sa", "role", "rolebinding", "pvc", "deployment", "get", "update", "service">>
Extra == {"sa", "role", "rolebinding", "pvc", "service"}

Free == [step |-> 0]
Waiting == [phase |-> "wait"]

ShellInit ==
  /\ dep = [u \in Users |-> Absent]
  /\ extras = [u \in Users |-> {}]
  /\ handler = [h \in Handlers |-> Free]
  /\ culler = Waiting
  /\ launched = {}

-----------------------------------------------------------------------------
(* The spawner.                                                            *)

Busy(h, call) == handler[h].step > 0 /\ Calls[handler[h].step] = call

(* What handler h, and the others whose Get of u it has made stale, become *)
(* when it goes on to the next call.                                       *)
Advance(h, k, touched) ==
  handler' = [g \in Handlers |->
    IF g = h
      THEN IF k > Len(Calls) THEN Free
           ELSE [user |-> handler[h].user, step |-> k, fresh |-> FALSE, age |-> 0]
    ELSE IF handler[g].step > 0 /\ handler[g].user \in touched
      THEN [handler[g] EXCEPT !.fresh = FALSE]
      ELSE handler[g]]

Launch(h, u) ==
  /\ handler[h] = Free
  /\ handler' = [handler EXCEPT ![h] = [user |-> u, step |-> 1, fresh |-> FALSE, age |-> 0]]
  /\ UNCHANGED <<dep, extras, culler, launched>>

(* Every call may fail without any effect, and the handler goes on; a      *)
(* failed Get of patchLastSeen skips its Update.                           *)
CallFails(h) ==
  /\ handler[h].step > 0
  /\ Advance(h, handler[h].step + (IF Busy(h, "get") THEN 2 ELSE 1), {})
  /\ UNCHANGED <<dep, extras, culler, launched>>

EnsureExtra(h) ==
  /\ \E x \in Extra :
       /\ Busy(h, x)
       /\ extras' = [u \in Users |->
            IF u = handler[h].user \/ x = "role" THEN extras[u] \cup {x} ELSE extras[u]]
  /\ Advance(h, handler[h].step + 1, {})
  /\ UNCHANGED <<dep, culler, launched>>

(* ensureDeployment: an existing one is left as it is; a new one carries   *)
(* the annotation.                                                         *)
EnsureDeployment(h) ==
  LET u == handler[h].user
  IN
  /\ Busy(h, "deployment")
  /\ dep' = IF dep[u] = Absent THEN [dep EXCEPT ![u] = 0] ELSE dep
  /\ Advance(h, handler[h].step + 1, IF dep[u] = Absent THEN {u} ELSE {})
  /\ launched' = IF dep[u] = Absent THEN launched \cup {u} ELSE launched
  /\ UNCHANGED <<extras, culler>>

(* patchLastSeen: Get, then Update with the time read in between; the API  *)
(* refuses an Update of anything but the version that was read.            *)
PatchGet(h) ==
  /\ Busy(h, "get")
  /\ dep[handler[h].user] # Absent
  /\ handler' = [handler EXCEPT ![h] =
       [user |-> @.user, step |-> @.step + 1, fresh |-> TRUE, age |-> 0]]
  /\ UNCHANGED <<dep, extras, culler, launched>>

PatchUpdateAnyway(h) ==
  /\ Busy(h, "update")
  /\ dep[handler[h].user] # Absent
  /\ dep' = [dep EXCEPT ![handler[h].user] = handler[h].age]
  /\ Advance(h, handler[h].step + 1, {handler[h].user})
  /\ launched' = launched \cup {handler[h].user}
  /\ UNCHANGED <<extras, culler>>

PatchUpdate(h) ==
  /\ Busy(h, "update")
  /\ handler[h].fresh
  /\ dep' = [dep EXCEPT ![handler[h].user] = handler[h].age]
  /\ Advance(h, handler[h].step + 1, {handler[h].user})
  /\ launched' = launched \cup {handler[h].user}
  /\ UNCHANGED <<extras, culler>>

-----------------------------------------------------------------------------
(* The culler.                                                             *)

(* List.  A failed List leaves the culler waiting for its next tick.       *)
CullList ==
  /\ culler = Waiting
  /\ culler' = [phase |-> "listed", seen |-> dep]
  /\ launched' = {}
  /\ UNCHANGED <<dep, extras, handler>>

(* now := time.Now(), and who is idle by then.                             *)
VictimsYoung(seen) == {u \in Users : seen[u] # Absent /\ seen[u] < Idle}
VictimsAtLimit(seen) == {u \in Users : seen[u] >= Idle}
Victims(seen) == {u \in Users : seen[u] > Idle}

CullNow ==
  /\ culler.phase = "listed"
  /\ culler' = [phase |-> "cull", victims |-> Victims(culler.seen)]
  /\ UNCHANGED <<dep, extras, handler, launched>>

(* Delete by name; it may fail, or find nothing to delete.                 *)
CullSkip(u) ==
  /\ culler.phase = "cull"
  /\ u \in culler.victims
  /\ culler' = [culler EXCEPT !.victims = @ \ {u}]
  /\ UNCHANGED <<dep, extras, handler, launched>>

CullDelete(u) ==
  /\ culler.phase = "cull"
  /\ u \in culler.victims
  /\ culler' = [culler EXCEPT !.victims = @ \ {u}]
  /\ dep' = [dep EXCEPT ![u] = Absent]
  /\ handler' = [h \in Handlers |->
       IF handler[h].step > 0 /\ handler[h].user = u
         THEN [handler[h] EXCEPT !.fresh = FALSE] ELSE handler[h]]
  /\ UNCHANGED <<extras, launched>>

CullDone ==
  /\ culler.phase = "cull"
  /\ culler.victims = {}
  /\ culler' = Waiting
  /\ UNCHANGED <<dep, extras, handler, launched>>

(* Time passes for everybody who holds a time read earlier.                *)
ShellTick ==
  /\ dep' = [u \in Users |-> Older(dep[u])]
  /\ handler' = [h \in Handlers |->
       IF handler[h].step > 0 /\ handler[h].fresh
         THEN [handler[h] EXCEPT !.age = Older(@)] ELSE handler[h]]
  /\ culler' = IF culler.phase = "listed"
                 THEN [culler EXCEPT !.seen = [u \in Users |-> Older(@[u])]] ELSE culler
  /\ UNCHANGED <<extras, launched>>

ShellNext ==
  \/ \E h \in Handlers, u \in Users : Launch(h, u)
  \/ \E h \in Handlers : \/ CallFails(h) \/ EnsureExtra(h) \/ EnsureDeployment(h)
                         \/ PatchGet(h) \/ PatchUpdate(h)
  \/ CullList \/ CullNow \/ CullDone
  \/ \E u \in Users : CullSkip(u) \/ CullDelete(u)
  \/ ShellTick

(* The culler keeps running and not every Delete of a user fails; time     *)
(* passes.  Nothing is assumed of launches.                                *)
ShellSpec ==
  /\ ShellInit /\ [][ShellNext]_shellVars
  /\ WF_shellVars(CullList) /\ WF_shellVars(CullNow) /\ WF_shellVars(CullDone)
  /\ \A u \in Users : WF_shellVars(CullSkip(u) \/ CullDelete(u)) /\ SF_shellVars(CullDelete(u))
  /\ WF_shellVars(ShellTick)

-----------------------------------------------------------------------------
Request == [user : Users, step : 1..Len(Calls), fresh : BOOLEAN, age : Ages]
Listing == [Users -> Ages \cup {Absent}]

ShellTypeOK ==
  /\ dep \in Listing
  /\ extras \in [Users -> SUBSET Extra]
  /\ handler \in [Handlers -> {Free} \cup Request]
  /\ culler \in {Waiting} \cup [phase : {"listed"}, seen : Listing]
                          \cup [phase : {"cull"}, victims : SUBSET Users]
  /\ launched \subseteq Users

(* lastSeen of a Deployment never moves back in time, however many         *)
(* launches of the user overlap: a late patch does not age a used shell.   *)
SeenNeverRewinds ==
  [][\A u \in Users :
       dep[u] # Absent /\ dep'[u] # Absent =>
         dep'[u] <= dep[u] \/ dep'[u] = Older(dep[u])]_shellVars

(* A shell nobody launches any more is eventually culled.                  *)
IdleIsCulled ==
  \A u \in Users :
    <>[](\A h \in Handlers : handler[h] = Free \/ handler[h].user # u)
      => <>[](dep[u] = Absent)

(* "update Deployment annotation so the culler doesn't delete recently     *)
(* used shells" (spawner main.go:258): a shell that is not idle when it is *)
(* deleted was launched in the middle of the culler's pass, between its    *)
(* List and its Delete by name.                                            *)
CulledWasIdle ==
  [][\A u \in Users :
       dep[u] # Absent /\ dep'[u] = Absent => dep[u] > Idle \/ u \in launched]_shellVars
=============================================================================
