------------------------------ MODULE Commons ------------------------------
(***************************************************************************)
(* The reproducible knowledge commons (tools/commons.py) and the reuse of  *)
(* root-cause resolutions on top of it (tools/resolution_registry.py).     *)
(*                                                                         *)
(* A deposit is filed under an id minted from its domain, name, version    *)
(* and the digest of its content.  What an id does not cover - the         *)
(* category, the tags, the provenance, the reuse record - is replaced when *)
(* the same content is deposited again.                                    *)
(***************************************************************************)
EXTENDS Integers, Sequences, FiniteSets, SequencesExt

CONSTANTS Resolutions,  \* the resolution records the RCA pipeline may emit
          CapdFiles,    \* capd/*.capd.json, a sequence in file-name order
          Workloads,    \* mesh/suite-workloads.json, a sequence; <<>> if unreadable
          Digest,       \* [content -> sha256], as the minted id abridges it
          DomainOf,     \* [capability name -> domain]: the part after the first dot
          Missing,         \* a key the document lacks
          Limit,        \* how many recommendations a caller asks for
          MaxUses       \* bound: uses of one record between two deposits of it

\* Distinct contents have distinct digests.
ASSUME DigestAssumption ==
  \A a, b \in DOMAIN Digest : Digest[a] = Digest[b] => a = b

\* What a record's provenance is made of is part of its content: the graph
\* digest of a resolution (resolution_registry.py:23), the links of a CapD
\* (commons.py:86).  The three kinds of document have no content in common.
ASSUME ContentAssumption ==
  /\ CapdFiles \in Seq(Range(CapdFiles)) /\ Workloads \in Seq(Range(Workloads))
  /\ \A f \in Range(CapdFiles) : f.readable \in BOOLEAN
  /\ LET ofResolutions == {r.content : r \in Resolutions}
         ofCapds == {f.content : f \in Range(CapdFiles)}
         ofWorkloads == {w.content : w \in Range(Workloads)}
     IN  /\ ofResolutions \cup ofCapds \cup ofWorkloads \subseteq DOMAIN Digest
         /\ ofResolutions \cap ofCapds = {}
         /\ ofResolutions \cap ofWorkloads = {}
         /\ ofCapds \cap ofWorkloads = {}
  /\ \A r, s \in Resolutions : r.content = s.content => r.graph = s.graph
  /\ \A f, g \in Range(CapdFiles) : f.content = g.content => f.links = g.links

ASSUME BoundAssumption == Limit \in Nat \ {0} /\ MaxUses \in Nat \ {0}

VARIABLES
  records,  \* Commons._records: the records, in the dict's order
  applied   \* history: id -> the outcomes reported since its last deposit

commonsVars == <<records, applied>>

(***************************************************************************)
(* mint_id and deposit.                                                    *)
(***************************************************************************)
MintIdByName(domain, name, version, content) ==
  [domain |-> domain, name |-> name, version |-> version, digest |-> name]
MintId(domain, name, version, content) ==
  [domain |-> domain, name |-> name, version |-> version,
   digest |-> Digest[content]]

Unused == [uses |-> 0, evaluations |-> 0, score |-> 0]

\* A deposit may claim to be reproducible only with a source digest and an
\* attestation or SBOM to go with it.
Reproducible(provenance) ==
  "source_digest" \in provenance
    /\ provenance \cap {"attestation_ref", "sbom_digest"} # {}

Record(domain, name, version, type, category, content, provenance, tags) ==
  [id |-> MintId(domain, name, version, content), type |-> type,
   category |-> category, content_digest |-> Digest[content],
   reproducible |-> Reproducible(provenance), tags |-> tags, reuse |-> Unused]

\* self._records[cid] = rec: a known id keeps its place, a new one is last.
Put(recs, rec) ==
  IF \E i \in DOMAIN recs : recs[i].id = rec.id
  THEN [i \in DOMAIN recs |-> IF recs[i].id = rec.id THEN rec ELSE recs[i]]
  ELSE Append(recs, rec)

(***************************************************************************)
(* What the three depositors hand over.                                    *)
(***************************************************************************)
Default(value, otherwise) == IF value = Missing THEN otherwise ELSE value

\* deposit_resolution: the graph digest stands for the source and its SBOM.
ResolutionRecord(r) ==
  Record("governance/migration", r.name, r.version, "resolution",
         Default(r.category, "resolution"), r.content,
         IF r.graph THEN {"source_digest", "sbom_digest"} ELSE {}, r.tags)

\* ingest_capds: a shape_authority or a ledger link earns a source digest,
\* but only the gate or the ledger gives the attestation reference.
CapdProvenance(links) ==
  IF links \cap {"supply_chain_gate", "shape_authority", "ledger"} = {} THEN {}
  ELSE {"source_digest"}
         \cup (IF links \cap {"supply_chain_gate", "ledger"} # {}
               THEN {"attestation_ref"} ELSE {})

CapdRecord(f) ==
  LET name == Default(f.name, f.stem)
  IN  Record(DomainOf[name], name, Default(f.version, "0.0.0"), "capability",
             Default(f.kind, "capability"), f.content,
             CapdProvenance(f.links), {})

WorkloadRecord(w) ==
  Record("workload", Default(w.id, "unknown"), "0.1.0", "workload",
         Default(w.product, "workload"), w.content, {}, {})

\* Everything estate_commons deposits, in order; a CapD that cannot be read
\* is passed over.
Estate ==
  [i \in DOMAIN CapdFiles |->
     [readable |-> CapdFiles[i].readable, rec |-> CapdRecord(CapdFiles[i])]]
  \o [i \in DOMAIN Workloads |-> [readable |-> TRUE, rec |-> WorkloadRecord(Workloads[i])]]

Ingest(recs, doc) == IF doc.readable THEN Put(recs, doc.rec) ELSE recs

(***************************************************************************)
(* search and next_best_action; recommend ranks in the same way.           *)
(***************************************************************************)
\* A stable sort by (score, uses), the best first.
RankBefore(i, j) ==
  LET a == records[i].reuse  b == records[j].reuse
  IN  \/ a.score > b.score
      \/ a.score = b.score /\ a.uses > b.uses
      \/ a.score = b.score /\ a.uses = b.uses /\ i < j

\* The records at the positions in pool, ranked, up to the limit.
PlaceIn(pool, i) == Cardinality({j \in pool : RankBefore(j, i)}) + 1

Ranked(pool) ==
  [k \in 1 .. (IF Cardinality(pool) < Limit THEN Cardinality(pool) ELSE Limit) |->
     records[CHOOSE i \in pool : PlaceIn(pool, i) = k]]

\* The records hold no "content", so the root-cause text is never searched
\* and a language matches by tag alone.
LangsMatch(r, from, to) == ({from, to} \ {Missing}) \subseteq r.tags

Pool(class, from, to) ==
  {i \in DOMAIN records : /\ records[i].type = "resolution"
                          /\ records[i].category = class
                          /\ LangsMatch(records[i], from, to)}

NextBestAction(class, from, to) == Ranked(Pool(class, from, to))

(***************************************************************************)
(* record_use.                                                             *)
(***************************************************************************)
\* round(evaluations / uses, 3), in thousandths: to the nearest, a tie to the
\* even one (a tie is exact in binary as long as uses stay below 80).
Score(evaluations, uses) ==
  LET down == (1000 * evaluations) \div uses
      rest == (1000 * evaluations) % uses
  IN  IF 2 * rest > uses \/ (2 * rest = uses /\ down % 2 = 1) THEN down + 1 ELSE down

UsedScoredFirst(reuse, ok) ==
  [uses |-> reuse.uses + 1,
   evaluations |-> reuse.evaluations + (IF ok THEN 1 ELSE 0),
   score |-> IF reuse.uses = 0 THEN 0 ELSE Score(reuse.evaluations, reuse.uses)]

UsedTwice(reuse, ok) ==
  LET uses  == reuse.uses + 1
      evals == reuse.evaluations + (IF ok THEN 2 ELSE 0)
  IN  [uses |-> uses, evaluations |-> evals, score |-> Score(evals, uses)]

Used(reuse, ok) ==
  LET uses  == reuse.uses + 1
      evals == reuse.evaluations + (IF ok THEN 1 ELSE 0)
  IN  [uses |-> uses, evaluations |-> evals, score |-> Score(evals, uses)]

(***************************************************************************)
(* The operations.                                                         *)
(***************************************************************************)
Fresh == [ok |-> 0, not_ok |-> 0]

CommonsInit == records = << >> /\ applied = << >>

\* deposit_resolution.
DepositResolution ==
  \E r \in Resolutions :
    LET rec == ResolutionRecord(r)
    IN  /\ records' = Put(records, rec)
        /\ applied' = [id \in DOMAIN applied \cup {rec.id} |->
                         IF id = rec.id THEN Fresh ELSE applied[id]]

\* estate_commons: the CapDs, then the workloads, one deposit after another.
IngestEstate ==
  LET ids == {Estate[i].rec.id : i \in {i \in DOMAIN Estate : Estate[i].readable}}
  IN  /\ records' = FoldLeft(Ingest, records, Estate)
      /\ applied' = [id \in DOMAIN applied \cup ids |->
                       IF id \in ids THEN Fresh ELSE applied[id]]

\* record_use on a known id; an unknown one changes nothing.
Reporting(tally, ok) ==
  IF ok THEN [tally EXCEPT !.ok = @ + 1] ELSE [tally EXCEPT !.not_ok = @ + 1]

RecordUse(i, ok) ==
  /\ records[i].reuse.uses < MaxUses
  /\ records' = [records EXCEPT ![i].reuse = Used(@, ok)]
  /\ applied' = [applied EXCEPT ![records[i].id] = Reporting(@, ok)]

\* apply_resolution to a record next_best_action returned for a new case.
Apply ==
  \E class \in {r.category : r \in Resolutions},
     from, to \in {Missing} \cup UNION {r.tags : r \in Resolutions},
     ok \in BOOLEAN :
    LET shown == NextBestAction(class, from, to)
    IN  \E k \in DOMAIN shown, i \in DOMAIN records :
          records[i].id = shown[k].id /\ RecordUse(i, ok)

CommonsNext == DepositResolution \/ IngestEstate \/ Apply
CommonsSpec == CommonsInit /\ [][CommonsNext]_commonsVars

-----------------------------------------------------------------------------
Ids == {records[i].id : i \in DOMAIN records}

\* Types: one record per id (commons.py:71), the history on the same ids.
CommonsTypeOK ==
  /\ \A i, j \in DOMAIN records : records[i].id = records[j].id => i = j
  /\ \A i \in DOMAIN records :
       /\ records[i].reuse.evaluations \in 0 .. records[i].reuse.uses
       /\ records[i].reuse.uses \in 0 .. MaxUses
       /\ records[i].reuse.score \in 0 .. 1000
  /\ DOMAIN applied = Ids

\* A citation stands: an id, once minted, resolves for ever to the content it
\* was minted for, and the claim that it can be reproduced neither appears nor
\* goes with a later deposit (commons.py:55-71; what an id is not minted from
\* must then be the same for every deposit that shares it).
CitationStands ==
  [][\A i \in DOMAIN records :
       \E j \in DOMAIN records' :
         /\ records'[j].id = records[i].id
         /\ records'[j].content_digest = records[i].content_digest
         /\ records'[j].reproducible = records[i].reproducible]_commonsVars

\* Ranking follows what was reported: of two resolutions of a failure class
\* that fit on the list, the one whose applications succeeded more often, as
\* reported since its last deposit, is listed first
\* (resolution_registry.py:9-10, 56; commons.py:142-145).
Rate(id, other) ==
  applied[id].ok * (applied[other].ok + applied[other].not_ok)
Tried(id) == applied[id].ok + applied[id].not_ok > 0

ProvenFirst ==
  \A class \in {records[i].category : i \in DOMAIN records} :
    LET list == NextBestAction(class, Missing, Missing)
    IN  \A k \in DOMAIN list, i \in DOMAIN records :
          LET x == records[i].id  y == list[k].id
          IN  /\ records[i].type = "resolution" /\ records[i].category = class
              /\ Tried(x) /\ Tried(y) /\ Rate(x, y) > Rate(y, x)
              => \E l \in 1 .. (k - 1) : list[l].id = x
=============================================================================
