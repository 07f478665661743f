----------------------------- MODULE Inventory -----------------------------
(***************************************************************************)
(* The first stage of an analysis: files are discovered, registered,       *)
(* grouped by their hash and parsed one by one.  Also what the stages have *)
(* in common: how a stage that recorded errors is repeated or given up.    *)
(* src/app/graphs/inventory.py, src/app/nodes/inventory.py,                *)
(* src/app/tools/file_scanner.py, src/app/services/content_normalizer.py.  *)
(*                                                                         *)
(* Files are numbered in the order of their identifiers.  Their contents   *)
(* do not change during a run; a file of input.unreadable may fail to be   *)
(* read at any time.  discover_input_files itself succeeds: without files  *)
(* there is nothing to analyse.                                            *)
(***************************************************************************)
EXTENDS Integers, Sequences, FiniteSets, SequencesExt, TLC

CONSTANT Inputs    \* the directories and mail boxes a run may be given

VARIABLES
    input,       \* the one this run was given
    pc,          \* the node about to run
    errors,      \* categories of the errors the current stage has recorded
    retried,     \* stages that were run again
    files,       \* File -> the status of its record
    duplicate,   \* File -> the file it duplicates, or NoFile
    documents,   \* the files with a normalised document
    queue,       \* parse_queue
    current      \* the file being parsed

inventoryVars == <<files, duplicate, documents, queue, current>>

NoFile == 0
File == 1..input.count

Extension == {"xlsx", "docx", "pdf", "txt"}
Editable == {"xlsx", "docx"}
Status == {"unregistered", "pending", "parsed", "failed", "unsupported", "duplicate"}

\* What is known of a file from its name, its metadata and its text: version is
\* the number in its name (0: none), phase 3 stands for a confirmation mark, 2
\* for a final mark, 1 for a review mark; digest is that of its normalised text.
Metadata(count) ==
    [1..count -> [ext : Extension, sha : Nat, digest : Nat, name : Nat, stem : Nat,
                  modified : Nat, version : Nat, phase : 0..3]]

\* Files are numbered from 1 and each has its metadata.
ASSUME FilesAssumption == \A i \in Inputs : i.count \in Nat /\ i.meta \in Metadata(i.count)


(***************************************************************************)
(* Sorting: an element stands at the place that the number of those before *)
(* it says; before is a strict total order, as a set of pairs.             *)
(***************************************************************************)
Rank(x, some, before) == Cardinality({y \in some : <<y, x>> \in before})

SortedBy(some, before) ==
    [i \in 1..Cardinality(some) |-> CHOOSE x \in some : Rank(x, some, before) = i - 1]

InOrder(some) == SortedBy(some, {p \in some \X some : p[1] < p[2]})

\* The function f, but v at x.
With(f, x, v) == [y \in DOMAIN f \cup {x} |-> IF y = x THEN v ELSE f[y]]

Ext(f) == input.meta[f].ext
Sha(f) == input.meta[f].sha
Registered == {f \in File : files[f] # "unregistered"}

At(node) == pc = node

\* create_node_error: the error is open and fatal whatever the node asked for.
Record(category) == errors' = errors \cup {category}

(***************************************************************************)
(* DEFAULT_RECOVERY_POLICY: which categories are retried once by           *)
(* themselves and which end in a fixed degradation; the others stop a run  *)
(* that nobody looks after.                                                *)
(***************************************************************************)
RetriedOnce == {"filesystem", "evidence", "llm"}
Degraded == {"parse", "comparison", "evidence", "llm", "mcp"}

\* The end of a stage: error recovery runs the stage again (from `again`),
\* lets the run go on (at `onward`) or stops it.
EndStage(stage, again, onward) ==
    LET retry == errors \cap RetriedOnce # {} /\ stage \notin retried
    IN  /\ retried' = IF retry THEN retried \cup {stage} ELSE retried
        /\ pc' = IF retry THEN again ELSE IF errors \subseteq Degraded THEN onward ELSE "stopped"
        /\ errors' = {}

(***************************************************************************)
(* The nodes.                                                              *)
(***************************************************************************)

\* build_file_record: a record starts without a duplicate and unparsed, also
\* when an earlier pass of the stage had parsed the file (merge_by_id).
RegisterFileMetadata ==
    /\ At("register_file_metadata")
    /\ \E lost \in SUBSET input.unreadable :
        /\ files' = [f \in File |-> IF f \in lost THEN files[f] ELSE "pending"]
        /\ duplicate' = [f \in File |-> IF f \in lost THEN duplicate[f] ELSE NoFile]
        /\ IF lost = {} THEN errors' = errors ELSE Record("filesystem")
    /\ pc' = "mark_exact_duplicates"
    /\ UNCHANGED <<input, retried, documents, queue, current>>

Older(f, g) ==
    \/ input.meta[f].modified < input.meta[g].modified
    \/ input.meta[f].modified = input.meta[g].modified /\ f <= g

Canonical(f, registered) ==
    CHOOSE c \in registered :
        Sha(c) = Sha(f) /\ \A g \in registered : Sha(g) = Sha(f) => Older(c, g)

MarkExactDuplicates ==
    /\ At("mark_exact_duplicates")
    /\ LET copies == {f \in Registered : Canonical(f, Registered) # f}
       IN  /\ duplicate' = [f \in File |-> IF f \in copies THEN Canonical(f, Registered) ELSE duplicate[f]]
           /\ files' = [f \in File |-> IF f \in copies THEN "duplicate" ELSE files[f]]
    /\ pc' = "build_parse_queue"
    /\ UNCHANGED <<input, errors, retried, documents, queue, current>>

\* has_pending_parse_jobs.
NextParseJob(jobs) == IF jobs = <<>> THEN "validate_inventory_results" ELSE "load_next_parse_job"

BuildParseQueue ==
    /\ At("build_parse_queue")
    /\ queue' = InOrder({f \in File : files[f] = "pending" /\ duplicate[f] = NoFile})
    /\ pc' = NextParseJob(queue')
    /\ UNCHANGED <<input, errors, retried, files, duplicate, documents, current>>

\* load_next_parse_job and route_parser.
LoadNextParseJob ==
    /\ At("load_next_parse_job")
    /\ current' = Head(queue) /\ queue' = Tail(queue)
    /\ pc' = IF Ext(Head(queue)) = "txt" THEN "record_unsupported_file" ELSE "extract_content"
    /\ UNCHANGED <<input, errors, retried, files, duplicate, documents>>

\* The three extract nodes, normalize_document_content and parse_succeeded: a
\* parser or the artifact store may fail.
ExtractAndNormalize ==
    /\ At("extract_content")
    /\ \/ pc' = "record_document_result"
       \/ current \in input.unreadable /\ pc' = "record_parse_error"
    /\ UNCHANGED <<input, errors, retried, inventoryVars>>

Finished(status) ==
    /\ files' = [files EXCEPT ![current] = status]
    /\ current' = NoFile
    /\ pc' = NextParseJob(queue)
    /\ UNCHANGED <<input, retried, duplicate, queue>>

RecordDocumentResult ==
    /\ At("record_document_result")
    /\ Finished("parsed")
    /\ documents' = documents \cup {current}
    /\ errors' = errors

RecordParseError ==
    At("record_parse_error") /\ Finished("failed") /\ Record("parse") /\ UNCHANGED documents

RecordUnsupportedFile ==
    At("record_unsupported_file") /\ Finished("unsupported") /\ Record("parse") /\ UNCHANGED documents

\* What validate_inventory_results asks of the files and the documents.
InventoryIsValid ==
    {f \in File : files[f] = "parsed"} \subseteq documents /\ documents \subseteq Registered

ValidateInventoryResults ==
    /\ At("validate_inventory_results")
    /\ IF InventoryIsValid THEN errors' = errors ELSE Record("validation")
    /\ pc' = "inventory_ended"
    /\ UNCHANGED <<input, retried, inventoryVars>>

EndInventory ==
    /\ At("inventory_ended")
    /\ EndStage("inventory", "register_file_metadata", "group_related_documents")
    /\ UNCHANGED <<input, inventoryVars>>

InventoryInit ==
    /\ input \in Inputs
    /\ pc = "register_file_metadata" /\ errors = {} /\ retried = {}
    /\ files = [f \in File |-> "unregistered"]
    /\ duplicate = [f \in File |-> NoFile]
    /\ documents = {} /\ queue = <<>> /\ current = NoFile

InventoryNext ==
    \/ RegisterFileMetadata \/ MarkExactDuplicates \/ BuildParseQueue \/ LoadNextParseJob
    \/ ExtractAndNormalize \/ RecordDocumentResult \/ RecordParseError \/ RecordUnsupportedFile
    \/ ValidateInventoryResults \/ EndInventory
=============================================================================
