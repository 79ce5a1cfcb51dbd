---------------------------- MODULE ReleaseLedger ----------------------------
(***************************************************************************)
(* The git-push deploy path and its release history: src/tools/            *)
(* push_webhook.py (handle_push), deploy_flow.py, buildpack.py and         *)
(* release_ledger.py (record, history, current, rollback), for one app.    *)
(*                                                                         *)
(* The ledger is a directory of JSON files, written without a lock by the  *)
(* threads of the webhook server and by `rollback` commands.  A process of *)
(* Procs is one such thread or command: it computes the sequence number,   *)
(* creates the file and fills it in three separate steps, and may die      *)
(* between any two of them.  Reading the directory is one step.            *)
(***************************************************************************)
EXTENDS Integers, Sequences, FiniteSets

CONSTANTS Procs,
          Sources,     \* pushed trees: [names, content]
          Detectable,  \* the names for which a buildpack matches
          HashRank,    \* order of the release ids of one microsecond
          Steps,       \* the values of --steps that are tried
          MaxClock,    \* bound on the wall clock (microseconds)
          MaxFiles     \* bound on the files of the ledger

VARIABLES files,     \* the directory: file name -> [rel, whole, again, after]
          op,        \* what each process is doing
          clock,
          log,       \* releases in the order their record() calls returned
          receipts   \* receipts of the webhook: [status, id]

(* Two fields of a file are history, read by no action: again, that the    *)
(* name was opened by more than one record(); after, the files that were   *)
(* complete when the record() that filled it began.                        *)
vars == <<files, op, clock, log, receipts>>

NoId == <<"none">>
Idle == [pc |-> "idle"]

Names == {s.names : s \in Sources}
Ids == Names \X (0..MaxClock)

(* Different release ids are different hashes.                             *)
ASSUME LedgerAssumption ==
  /\ IsFiniteSet(Procs)
  /\ \A id \in Ids : HashRank[id] \in Int
  /\ \A id, other \in Ids : HashRank[id] = HashRank[other] => id = other
  /\ Steps \subseteq Int
  /\ MaxClock \in Nat /\ MaxFiles \in Nat

(* build_plan: the digest covers the sorted file names and the buildpack   *)
(* they select, not what is in the files.                                  *)
BuildDigest(src) == src.names

(* make_release: release_id hashes the digest and the creation time.       *)
Release(src, status, from, to) ==
  [id |-> <<BuildDigest(src), clock>>, digest |-> BuildDigest(src),
   source |-> src, status |-> status, from |-> from, to |-> to]

-----------------------------------------------------------------------------
(* history(): file names sorted in reverse, undecodable files skipped.     *)

NewerByStamp(m, n) ==
  \/ m.stamp > n.stamp
  \/ m.stamp = n.stamp /\ HashRank[m.id] > HashRank[n.id]

Newer(m, n) ==
  \/ m.seq > n.seq
  \/ m.seq = n.seq /\ m.stamp > n.stamp
  \/ m.seq = n.seq /\ m.stamp = n.stamp /\ HashRank[m.id] > HashRank[n.id]

ReadableAll == DOMAIN files
Readable == {n \in DOMAIN files : files[n].whole}

(* The place of a file name in the history: after all the newer ones.      *)
Place(n) == Cardinality({m \in Readable : Newer(m, n)}) + 1

History ==
  [i \in 1..Cardinality(Readable) |-> files[CHOOSE n \in Readable : Place(n) = i].rel]

(* _resolve_target: by release id, by digest among all but the head, or by *)
(* position, where hist[steps] is Python's: a negative one counts from the *)
(* end and one below -len(hist) raises.                                    *)
(* A target is a sequence of at most one release; << >> is None.           *)
First(hist, hits) ==
  IF hits = {} THEN << >>
  ELSE <<hist[CHOOSE i \in hits : \A k \in hits : i <= k]>>

ById(hist, id) == First(hist, {i \in DOMAIN hist : hist[i].id = id})

ByDigest(hist, d) == First(hist, {i \in DOMAIN hist \ {1} : hist[i].digest = d})

BySteps(hist, k) ==
  IF k >= Len(hist) \/ k < -Len(hist) THEN << >>
  ELSE IF k >= 0 THEN <<hist[k + 1]>> ELSE <<hist[Len(hist) + k + 1]>>

Targets(hist) ==
  {ById(hist, id) : id \in Ids} \cup
  {ByDigest(hist, d) : d \in Names} \cup
  {BySteps(hist, k) : k \in Steps}

-----------------------------------------------------------------------------
(* record(): three steps of a process, from the release it was given.      *)

Busy == {p \in Procs : op[p] # Idle}

StartRecord(p, rel, by) ==
  /\ Cardinality(DOMAIN files) + Cardinality(Busy) < MaxFiles
  /\ op' = [op EXCEPT ![p] = [pc |-> "count", rel |-> rel, by |-> by,
                              after |-> Readable]]

(* seq = len(list(d.glob("*.json"))) counts the unfinished files too.      *)
CountLast(p) ==
  /\ op[p].pc = "count"
  /\ op' = [op EXCEPT ![p] = [pc |-> "create", rel |-> op[p].rel, by |-> op[p].by,
                              after |-> op[p].after, seq |-> Cardinality(DOMAIN files) - 1]]
  /\ UNCHANGED <<files, clock, log, receipts>>

Count(p) ==
  /\ op[p].pc = "count"
  /\ op' = [op EXCEPT ![p] = [pc |-> "create", rel |-> op[p].rel, by |-> op[p].by,
                              after |-> op[p].after, seq |-> Cardinality(DOMAIN files)]]
  /\ UNCHANGED <<files, clock, log, receipts>>

(* write_text() first creates the file, or truncates the one a record() of *)
(* the same number, microsecond and release left under that name ...       *)
Create(p) ==
  LET name == [seq |-> op[p].seq, stamp |-> clock, id |-> op[p].rel.id]
  IN
  /\ op[p].pc = "create"
  /\ files' = [n \in DOMAIN files \cup {name} |->
                 IF n = name THEN [rel |-> op[p].rel, whole |-> FALSE,
                                   again |-> name \in DOMAIN files, after |-> {}]
                 ELSE files[n]]
  /\ op' = [op EXCEPT ![p] = [pc |-> "write", rel |-> op[p].rel, by |-> op[p].by,
                              after |-> op[p].after, name |-> name]]
  /\ UNCHANGED <<clock, log, receipts>>

(* ... and then fills it.  A rollback command is done; a push goes on to   *)
(* its receipt.                                                            *)
Write(p) ==
  /\ op[p].pc = "write"
  /\ files' = [files EXCEPT ![op[p].name] = [rel |-> op[p].rel, whole |-> TRUE,
                                              again |-> files[op[p].name].again,
                                              after |-> op[p].after]]
  /\ log' = Append(log, op[p].rel)
  /\ op' = [op EXCEPT ![p] = IF op[p].by = "push"
                               THEN [pc |-> "receipt", id |-> op[p].rel.id] ELSE Idle]
  /\ UNCHANGED <<clock, receipts>>

-----------------------------------------------------------------------------
(* handle_push: the deliveries that end without a release ...              *)

Refuse(p, status) ==
  /\ op[p] = Idle
  /\ receipts' = receipts \cup {[status |-> status, id |-> NoId]}
  /\ UNCHANGED <<files, op, clock, log>>

PushRejected(p) == Refuse(p, "rejected")   \* bad signature, or a body that is not a JSON object
PushIgnored(p) == Refuse(p, "ignored")     \* a tag, another ref, or a deleted branch

PushUnbuildable(p, src) == src.names \notin Detectable /\ Refuse(p, "build-failed")

(* ... and the one that on_push builds and record_deploy records.          *)
PushAnnounced(p, src) ==
  /\ op[p] = Idle
  /\ src.names \in Detectable
  /\ StartRecord(p, Release(src, "deployed", NoId, NoId), "push")
  /\ receipts' = receipts \cup {[status |-> "deployed", id |-> <<BuildDigest(src), clock>>]}
  /\ UNCHANGED <<files, clock, log>>

PushDeploys(p, src) ==
  /\ op[p] = Idle
  /\ src.names \in Detectable
  /\ StartRecord(p, Release(src, "deployed", NoId, NoId), "push")
  /\ UNCHANGED <<files, clock, log, receipts>>

(* _finish: seal and persist the decision.                                 *)
Receipt(p) ==
  /\ op[p].pc = "receipt"
  /\ receipts' = receipts \cup {[status |-> "deployed", id |-> op[p].id]}
  /\ op' = [op EXCEPT ![p] = Idle]
  /\ UNCHANGED <<files, clock, log>>

(* rollback() of an app without history, to something that is not a prior  *)
(* release, or to the image already serving: blocked or no-op.             *)
RollbackRefused(p) ==
  LET hist == History
  IN  /\ op[p] = Idle
      /\ hist # << >> =>
           \E target \in Targets(hist) :
             target # << >> => target[1].digest = hist[1].digest
      /\ UNCHANGED vars

(* rollback() to a prior release with another image: a new head.           *)
Rollback(p) ==
  LET hist == History
  IN  /\ op[p] = Idle
      /\ hist # << >>
      /\ \E target \in Targets(hist) :
           /\ target # << >>
           /\ target[1].digest # hist[1].digest
           /\ StartRecord(p, Release(target[1].source, "rolled-back",
                                     hist[1].id, target[1].id), "cli")
      /\ UNCHANGED <<files, clock, log, receipts>>

-----------------------------------------------------------------------------
Tick ==
  /\ clock < MaxClock
  /\ clock' = clock + 1
  /\ UNCHANGED <<files, op, log, receipts>>

(* The thread or command dies; what it wrote stays on disk.                *)
Crash(p) ==
  /\ op[p] # Idle
  /\ op' = [op EXCEPT ![p] = Idle]
  /\ UNCHANGED <<files, clock, log, receipts>>

Init ==
  /\ files = << >>
  /\ op = [p \in Procs |-> Idle]
  /\ clock = 0
  /\ log = << >>
  /\ receipts = {}

Next ==
  \/ \E p \in Procs : \/ PushRejected(p) \/ PushIgnored(p)
                      \/ Count(p) \/ Create(p) \/ Write(p) \/ Receipt(p)
                      \/ Rollback(p) \/ RollbackRefused(p) \/ Crash(p)
  \/ \E p \in Procs, src \in Sources : PushUnbuildable(p, src) \/ PushDeploys(p, src)
  \/ Tick

Spec == Init /\ [][Next]_vars

-----------------------------------------------------------------------------
Releases == [id : Ids, digest : Names, source : Sources,
             status : {"deployed", "rolled-back"},
             from : Ids \cup {NoId}, to : Ids \cup {NoId}]
FileName == [seq : 0..MaxFiles, stamp : 0..MaxClock, id : Ids]
File == [rel : Releases, whole : BOOLEAN, again : BOOLEAN, after : SUBSET DOMAIN files]
Activity ==
  LET Recording(pc) ==
        [pc : {pc}, rel : Releases, by : {"push", "cli"}, after : SUBSET DOMAIN files]
  IN  {Idle} \cup Recording("count")
      \cup [pc : {"create"}, rel : Releases, by : {"push", "cli"},
            after : SUBSET DOMAIN files, seq : 0..MaxFiles]
      \cup [pc : {"write"}, rel : Releases, by : {"push", "cli"},
            after : SUBSET DOMAIN files, name : DOMAIN files]
      \cup [pc : {"receipt"}, id : Ids]

TypeOK ==
  /\ files \in [DOMAIN files -> File]
  /\ DOMAIN files \subseteq FileName /\ IsFiniteSet(DOMAIN files)
  /\ op \in [Procs -> Activity]
  /\ clock \in 0..MaxClock
  /\ log \in Seq(Releases)
  /\ receipts \subseteq [status : {"rejected", "ignored", "build-failed", "deployed"},
                         id : Ids \cup {NoId}]

(* "history order is deterministic (append order)" (record's docstring,    *)
(* release_ledger.py:64-66), or what is left of it when record() calls     *)
(* overlap: a release whose record() began after another's returned comes  *)
(* before it in the history, the newest first.                             *)
RealTimeOrder ==
  \A n \in Readable : \A m \in files[n].after \cap Readable : Place(n) < Place(m)

(* "you can only roll back to a release that ACTUALLY RAN" (line 15): a    *)
(* rollback release names an earlier completed release, and serves its     *)
(* image, whatever the other processes were recording at the time.         *)
RollbackToPrior ==
  \A i \in 1..Len(log) :
    log[i].status = "rolled-back" =>
      \E j \in 1..(i - 1) : log[j].id = log[i].to /\ log[j].digest = log[i].digest

(* A receipt that says "deployed" names a release that has its file in the *)
(* directory, and the file can be read: no crash before or after, of this  *)
(* or of another process, leaves the pusher with a release that is not on  *)
(* file.  Except where the name is shared: a later push of the same image  *)
(* that got the same number in the same microsecond opens the file again,  *)
(* and from then to its own write, or for good if it dies in between, the  *)
(* announced release cannot be read.                                       *)
ReceiptIsRecorded ==
  \A r \in receipts :
    r.status = "deployed" =>
      \E n \in DOMAIN files : n.id = r.id /\ (files[n].whole \/ files[n].again)
=============================================================================
