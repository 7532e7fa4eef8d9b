--------------------------- MODULE CaseRetrieval ----------------------------
(***************************************************************************)
(* The retrieval of historical cases: retrieve_cases (hard filters, score, *)
(* at most two cases per root cause) and PgVectorCaseRetriever.retrieve,   *)
(* which adds what a vector search finds.                                  *)
(*                                                                         *)
(* A case is [id, version, scenario, roots, quality], a query is           *)
(* [version, scenario, roots].  Cases and candidates are sequences: their  *)
(* order decides between equals.  The tags of one kind of plan symptom are *)
(* left out; they add to the score as the root causes do.  Scores are in   *)
(* units of 1/1200.                                                        *)
(***************************************************************************)
EXTENDS Integers, Sequences, SequencesExt, FiniteSets, FiniteSetsExt

CONSTANTS
  NoVersion,        \* None
  CandidateLimit    \* CASE_RETRIEVAL_CANDIDATE_LIMIT

ASSUME RetrievalAssumption == CandidateLimit \in Nat

MaxSameRootCause == 2

HardTags(tags) == tags \ {"where_filter"}

(* _passes_hard_filters: unknown versions and cases without tags pass.     *)
PassesHardFilters(query, case) ==
  /\ \/ query.version = case.version
     \/ NoVersion \in {query.version, case.version}
  /\ \/ HardTags(query.scenario) = {}
     \/ case.scenario = {}
     \/ HardTags(query.scenario) \cap case.scenario # {}

Overlap(wanted, actual, weight) ==
  IF wanted = {} THEN 0
  ELSE (weight * Cardinality(wanted \cap actual)) \div Cardinality(wanted)

(* The share of the known facts of the environment that agree: the kind of *)
(* database and the statement type always do, the version may not.         *)
Environment(query, case) ==
  IF query.version = NoVersion \/ query.version = case.version
  THEN 240 ELSE 160

(* _score_case; a hit of the vector search raises the retrieval score.     *)
Score(query, case, hits) ==
  Environment(query, case)
  + Overlap(query.scenario, case.scenario, 180)
  + Overlap(query.roots, case.roots, 240)
  + (IF case.id \in hits THEN 40 ELSE 0)
  + 20 * case.quality

(* sorted(..., key=(score, quality), reverse=True), which is stable.       *)
Ranked(cases, query, hits) ==
  LET entries == {[score |-> Score(query, cases[i], hits),
                   quality |-> cases[i].quality, at |-> i] :
                    i \in {j \in DOMAIN cases : PassesHardFilters(query, cases[j])}}
      before(d, e) ==
        \/ d.score > e.score
        \/ d.score = e.score /\ d.quality > e.quality
        \/ d.score = e.score /\ d.quality = e.quality /\ d.at < e.at
      place(e) == 1 + Cardinality({d \in entries : before(d, e)})
  IN  [k \in 1 .. Cardinality(entries) |->
         cases[(CHOOSE e \in entries : place(e) = k).at]]

SameRoot(cases, case) == {i \in DOMAIN cases : cases[i].roots = case.roots}

(* One more case, unless there are enough of them or of its root causes.   *)
OneMore(selected, case, limit) ==
  IF \/ Len(selected) >= limit
     \/ /\ case.roots # {}
        /\ Cardinality(SameRoot(selected, case)) >= MaxSameRootCause
  THEN selected ELSE Append(selected, case)

(* _dedupe_by_root_cause: what is selected of the first n cases.           *)
Dedupe(ranked, limit) ==
  LET selected[n \in 0 .. Len(ranked)] ==
        IF n = 0 THEN <<>> ELSE OneMore(selected[n - 1], ranked[n], limit)
  IN  selected[Len(ranked)]

RetrieveCases(cases, query, hits, limit) == Dedupe(Ranked(cases, query, hits), limit)

First(cases, limit) == SubSeq(cases, 1, Min({limit, Len(cases)}))

(* As if the list were cut before the repeated causes are dropped.         *)
CutFirst(cases, query, limit) ==
  Dedupe(First(Ranked(cases, query, {}), limit), limit)

(* rule_candidates in retrieve.                                            *)
RuleCandidates(cases, query, limit) ==
  RetrieveCases(cases, query, {}, Max({limit, CandidateLimit}))

(* As if what the search finds needed no filter.                           *)
HitsFirst(cases, query, hits, limit) ==
  LET candidates == RuleCandidates(cases, query, limit)
      added == {c \in ToSet(cases) : c.id \in hits /\ c \notin ToSet(candidates)}
  IN  First(SetToSeq(added) \o candidates, limit)

(* PgVectorCaseRetriever.retrieve with the ids that _vector_hits_for gave: *)
(* none when the embedding or the search failed, some of them perhaps      *)
(* unknown to a process that loaded its cases earlier.  The order in which *)
(* the hits are appended (by distance in the code) is left open: nothing   *)
(* is said of it but that every case added comes once.                     *)
Retrieve(cases, query, hits, limit) ==
  LET candidates == RuleCandidates(cases, query, limit)
      added == {c \in ToSet(cases) : c.id \in hits /\ c \notin ToSet(candidates)}
  IN  IF hits = {} THEN First(candidates, limit)
      ELSE RetrieveCases(candidates \o SetToSeq(added), query, hits, limit)
=============================================================================
