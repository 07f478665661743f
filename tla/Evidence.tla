------------------------------ MODULE Evidence ------------------------------
(***************************************************************************)
(* The evidence stage: every PDF is matched with the editable file it may  *)
(* have been exported from, one worker per PDF; mails, from the MCP server *)
(* or else from a local log, are matched with the files they delivered;    *)
(* the Evidence sub-agent reads what the mails say.                        *)
(* src/app/graphs/evidence.py, src/app/nodes/evidence.py,                  *)
(* src/app/services/evidence_matching.py,                                  *)
(* src/app/services/business_evidence.py, src/app/utils/task_tracking.py.  *)
(*                                                                         *)
(* A stage that is run again starts from the exports and the deliveries of *)
(* the earlier pass.                                                       *)
(***************************************************************************)
EXTENDS VersionAnalysis

VARIABLES
    jobs,        \* PDFs whose worker has not answered
    exports,     \* PDF -> its match
    mails,       \* the entries in hand
    source,      \* where they come from
    deliveries,  \* matched entries
    business     \* business_evidence: what the sub-agent says of deliveries

evidenceVars == <<jobs, exports, mails, source, deliveries, business>>

\* A mail and the file it carried, as far as the mail tells.
Mail == [id : Nat, sha : Nat, digest : Nat, name : Nat, stem : Nat,
         confirmed : BOOLEAN, text : BOOLEAN]

BusinessType == {"approved", "rejected", "superseded", "for_reference_only",
                 "requires_revision", "final_version", "ambiguous"}
Excluding == {"rejected", "superseded", "for_reference_only"}
Reviewed == {"rejected", "requires_revision"}
Positive == {"approved", "final_version"}
Negative == Excluding \cup {"requires_revision"}

\* What a mail server and a local log hold, what the sub-agent may claim of it,
\* and how well a PDF matches a file.
ASSUME MailsAssumption ==
    \A i \in Inputs :
        /\ i.mails \in SUBSET Mail /\ IsFiniteSet(i.mails)
        /\ i.log \in SUBSET Mail /\ IsFiniteSet(i.log)
        /\ i.claims \in SUBSET SUBSET BusinessType
        /\ \A f, g \in 1..i.count : f # g => i.match[{f, g}] \in 0..100

Parsed(f) == files[f] = "parsed" /\ duplicate[f] = NoFile /\ f \in documents
Least(a, b) == IF a <= b THEN a ELSE b

CollectPdfCandidates ==
    /\ At("collect_pdf_candidates")
    /\ jobs' = {f \in File : Ext(f) = "pdf" /\ Parsed(f)}
    /\ pc' = "create_pdf_match_jobs"
    /\ UNCHANGED <<input, errors, retried, inventoryVars, versionVars, exports, mails, source, deliveries, business>>

\* create_pdf_match_jobs and fanout_pdf_matching: a PDF is in one group only.
CreatePdfMatchJobs ==
    /\ At("create_pdf_match_jobs")
    /\ LET lost == {p \in jobs : Cardinality({g \in groups : p \in g}) # 1}
       IN  /\ jobs' = jobs \ lost
           /\ IF lost = {} THEN errors' = errors ELSE Record("validation")
    /\ pc' = IF jobs' = {} THEN "load_email_mcp_evidence" ELSE "match_pdf_to_source_version"
    /\ UNCHANGED <<input, retried, inventoryVars, versionVars, exports, mails, source, deliveries, business>>

\* match_pdf_to_source_version of the service: the best candidate, when it is
\* good enough and clearly better than the next.
BestSource(pdf, candidates) ==
    LET score(f) == input.match[{pdf, f}]
        better == {p \in candidates \X candidates :
                    score(p[1]) > score(p[2]) \/ (score(p[1]) = score(p[2]) /\ p[1] > p[2])}
        ranked == SortedBy(candidates, better)
        margin == IF Len(ranked) = 1 THEN 100 ELSE score(ranked[1]) - score(ranked[2])
    IN  IF candidates # {} /\ score(ranked[1]) >= 82 /\ margin >= 5
        THEN [source |-> ranked[1], score |-> score(ranked[1]),
              confidence |-> (80 * score(ranked[1]) + 20 * Least(5 * margin, 100)) \div 100]
        ELSE [source |-> NoFile, score |-> IF candidates = {} THEN 0 ELSE score(ranked[1]), confidence |-> 0]

\* The workers run side by side; the join waits for all of them.
MatchPdf(pdf) ==
    /\ At("match_pdf_to_source_version")
    /\ pdf \in jobs
    /\ LET group == CHOOSE g \in groups : pdf \in g
       IN  exports' = With(exports, pdf, BestSource(pdf, {f \in group : Ext(f) \in Editable /\ Parsed(f)}))
    /\ jobs' = jobs \ {pdf}
    /\ UNCHANGED <<input, pc, errors, retried, inventoryVars, versionVars, mails, source, deliveries, business>>

JoinPdfMatches ==
    /\ At("match_pdf_to_source_version") /\ jobs = {}
    /\ pc' = "load_email_mcp_evidence"
    /\ UNCHANGED <<input, errors, retried, inventoryVars, versionVars, evidenceVars>>

\* load_email_mcp_evidence and route_email_evidence_source.
LoadEmailMcpEvidence ==
    /\ At("load_email_mcp_evidence")
    /\ \/ /\ input.mcp
          /\ mails' = input.mails /\ source' = "email_mcp"
          /\ pc' = "match_email_delivery_to_version"
          /\ errors' = errors
       \/ /\ input.flaky \/ ~input.mcp
          /\ mails' = {} /\ source' = "local_log"
          /\ pc' = "load_local_delivery_log"
          /\ IF input.mcp THEN Record("mcp") ELSE errors' = errors
    /\ UNCHANGED <<input, retried, inventoryVars, versionVars, jobs, exports, deliveries, business>>

LoadLocalDeliveryLog ==
    /\ At("load_local_delivery_log")
    /\ \/ mails' = input.log /\ errors' = errors
       \/ input.flaky /\ mails' = {} /\ Record("evidence")
    /\ pc' = "match_delivery_to_version"
    /\ UNCHANGED <<input, retried, inventoryVars, versionVars, jobs, exports, source, deliveries, business>>

\* _select_unique_canonical_file.
Unique(some) ==
    LET canonical == {Original(f) : f \in some}
    IN  IF Cardinality(canonical) = 1 THEN CHOOSE f \in canonical : TRUE ELSE NoFile

\* match_delivery_log_entry: by hash, by the digest of the text, by name, by
\* the stem of the name, whichever is unambiguous first.
Delivery(m) ==
    LET found == << Unique({f \in File : m.sha # 0 /\ Sha(f) = m.sha}),
                    Unique({f \in File : m.digest # 0 /\ Original(f) \in documents
                                         /\ input.meta[Original(f)].digest = m.digest}),
                    Unique({f \in File : input.meta[f].name = m.name}),
                    Unique({f \in File : input.meta[f].stem = m.stem}) >>
        hits == {i \in 1..4 : found[i] # NoFile}
        first == CHOOSE i \in hits : \A j \in hits : i <= j
    IN  [mail |-> m.id, source |-> source, confirmed |-> m.confirmed, text |-> m.text,
         file |-> IF hits = {} THEN NoFile ELSE found[first],
         confidence |-> IF hits = {} THEN 0 ELSE <<100, 95, 85, 70>>[first]]

Grouped(f) == \E g \in groups : f \in g

\* No file is in two groups.
Disjoint == \A f \in File : Cardinality({g \in groups : f \in g}) <= 1

\* One entry that names a file outside every group fails the whole list, and
\* nothing can be matched while a file is in two groups.
Matched ==
    LET found == {Delivery(m) : m \in mails}
    IN  /\ IF found # {} => Disjoint /\ \A d \in found : d.file # NoFile => Grouped(d.file)
           THEN deliveries' = deliveries \cup found /\ errors' = errors
           ELSE deliveries' = deliveries /\ Record("validation")
        /\ pc' = "merge_external_evidence"
        /\ UNCHANGED <<input, retried, inventoryVars, versionVars, jobs, exports, mails, source, business>>

MatchDeliveryToVersion == At("match_delivery_to_version") /\ Matched
MatchEmailDeliveryToVersion == At("match_email_delivery_to_version") /\ Matched

MergeExternalEvidence ==
    /\ At("merge_external_evidence")
    /\ IF {m.id : m \in mails} = {d.mail : d \in {e \in deliveries : e.source = source}}
       THEN errors' = errors ELSE Record("validation")
    /\ pc' = "validate_evidence_confidence"
    /\ UNCHANGED <<input, retried, inventoryVars, versionVars, evidenceVars>>

\* What validate_evidence_confidence asks: a file is in one group, a PDF has an
\* editable source in its own, and a matched mail carried a file of some group.
EvidenceIsValid ==
    /\ Disjoint
    /\ \A p \in DOMAIN exports : exports[p].source # NoFile =>
        /\ \E g \in groups : {p, exports[p].source} \subseteq g
        /\ Ext(exports[p].source) \in Editable /\ exports[p].score >= 82
    /\ \A d \in deliveries : d.file # NoFile => Grouped(d.file)

ValidateEvidenceConfidence ==
    /\ At("validate_evidence_confidence")
    /\ IF EvidenceIsValid THEN errors' = errors ELSE Record("validation")
    /\ pc' = "evidence_ended"
    /\ UNCHANGED <<input, retried, inventoryVars, versionVars, evidenceVars>>

EndEvidence ==
    /\ At("evidence_ended")
    /\ EndStage("evidence", "collect_pdf_candidates", "dispatch_evidence_subagent_task")
    /\ UNCHANGED <<input, inventoryVars, versionVars, evidenceVars>>

\* What the sub-agent may say of one of the delivered files of a group.
Claims(group) ==
    {{}} \cup {{[type |-> t, file |-> d.file, mail |-> d.mail, confidence |-> 90] : t \in types} :
                  types \in input.claims, d \in {e \in deliveries : e.text /\ e.file \in group}}

\* One request per group.  When the task is dispatched again the errors on its
\* record make every answer be discarded.
DispatchEvidenceSubagentTask ==
    /\ At("dispatch_evidence_subagent_task")
    /\ \E told \in [groups -> UNION {Claims(g) : g \in groups}] :
        /\ \A g \in groups : told[g] \in (IF "evidence_subagent" \in retried THEN {{}} ELSE Claims(g))
        /\ business' = business \cup UNION {told[g] : g \in groups}
        /\ \/ errors' = errors
           \/ /\ input.flaky /\ "evidence_subagent" \notin retried
              /\ \E g \in groups : told[g] = {}
              /\ Record("llm")
    /\ pc' = "evidence_dispatched"
    /\ UNCHANGED <<input, retried, inventoryVars, versionVars, jobs, exports, mails, source, deliveries>>

EndEvidenceDispatch ==
    /\ At("evidence_dispatched")
    /\ EndStage("evidence_subagent", "dispatch_evidence_subagent_task", "find_editable_leaf_versions")
    /\ UNCHANGED <<input, inventoryVars, versionVars, evidenceVars>>

EvidenceInit ==
    jobs = {} /\ exports = <<>> /\ mails = {} /\ source = "none" /\ deliveries = {} /\ business = {}

EvidenceNext ==
    \/ CollectPdfCandidates \/ CreatePdfMatchJobs \/ (\E pdf \in File : MatchPdf(pdf)) \/ JoinPdfMatches
    \/ LoadEmailMcpEvidence \/ LoadLocalDeliveryLog
    \/ MatchDeliveryToVersion \/ MatchEmailDeliveryToVersion
    \/ MergeExternalEvidence \/ ValidateEvidenceConfidence \/ EndEvidence
    \/ DispatchEvidenceSubagentTask \/ EndEvidenceDispatch
=============================================================================
