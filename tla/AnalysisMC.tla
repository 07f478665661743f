----------------------------- MODULE AnalysisMC -----------------------------
(***************************************************************************)
(* Six small directories for TLC.   Drafts: two documents and a PDF        *)
(* export, with an assessment of every pair.  Ring: three documents whose  *)
(* names and times contradict each other.  Fork: two revisions of one      *)
(* document.  Offers: two groups with mails about both.  Copies: a copy, a *)
(* revision and a file of another type, where the mail server, the local   *)
(* log and the third file may fail to be read.  Blurred: a document, its   *)
(* export and a third file, alike with the export by its preview only, so  *)
(* that a repeated pass may group them differently.                        *)
(***************************************************************************)
EXTENDS Analysis

Doc(sha, modified, version, phase) ==
    [ext |-> "docx", sha |-> sha, digest |-> sha, name |-> sha, stem |-> 1,
     modified |-> modified, version |-> version, phase |-> phase]

Pairs(some) == {{f, g} : <<f, g>> \in {p \in some \X some : p[1] # p[2]}}
Everywhere(some, value) == [p \in Pairs(some) |-> value]

\* The same files are alike, whatever text is lost.
Always(count, links) == [lost \in SUBSET (1..count) |-> links]

About(id, file, confirmed) ==
    [id |-> id, sha |-> file, digest |-> 0, name |-> 0, stem |-> 0, confirmed |-> confirmed, text |-> TRUE]

Answer(relation, confidence, high) == [relation |-> relation, confidence |-> confidence, high |-> high]

Plain ==
    [count |-> 3,
     meta |-> <<Doc(1, 1, 1, 0), Doc(2, 2, 2, 0), Doc(3, 3, 3, 3)>>,
     unreadable |-> {},
     alike |-> Always(3, Pairs(1..3)),
     content |-> Everywhere(1..3, 80),
     structure |-> Everywhere(1..3, 90),
     match |-> Everywhere(1..3, 90),
     use_llm |-> FALSE, answers |-> {NoAnswer},
     mcp |-> FALSE, mails |-> {}, log |-> {}, flaky |-> FALSE,
     claims |-> {}, opinions |-> {85}]

Drafts ==
    [Plain EXCEPT
        !.meta = <<Doc(1, 1, 1, 0), Doc(2, 2, 2, 3), [Doc(3, 3, 2, 0) EXCEPT !.ext = "pdf"]>>,
        !.content = ({1, 2} :> 80) @@ ({1, 3} :> 76) @@ ({2, 3} :> 95),
        !.match = ({1, 2} :> 0) @@ ({1, 3} :> 70) @@ ({2, 3} :> 95),
        !.use_llm = TRUE,
        !.answers = {Answer("derived_export", 90, FALSE), Answer("direct_revision", 90, FALSE),
                     Answer("parallel_branch", 90, FALSE), Answer("uncertain", 60, TRUE)},
        !.log = {About(1, 2, TRUE)},
        !.opinions = {85, 60}]

Ring ==
    [Plain EXCEPT
        !.meta = <<Doc(1, 3, 1, 0), Doc(2, 1, 2, 0), Doc(3, 2, 0, 0)>>,
        !.use_llm = TRUE,
        !.answers = {Answer("direct_revision", 90, FALSE)}]

Fork ==
    [Plain EXCEPT
        !.meta = <<Doc(1, 2, 1, 0), Doc(2, 1, 2, 0), Doc(3, 3, 3, 3)>>,
        !.content = ({1, 2} :> 80) @@ ({1, 3} :> 80) @@ ({2, 3} :> 50)]

Offers ==
    [Plain EXCEPT
        !.count = 4,
        !.meta = <<[Doc(1, 1, 1, 0) EXCEPT !.ext = "pdf"], Doc(2, 2, 2, 3),
                   [Doc(3, 3, 1, 0) EXCEPT !.ext = "pdf"], Doc(4, 4, 2, 2)>>,
        !.alike = Always(4, {{1, 2}, {3, 4}}),
        !.content = Everywhere(1..4, 80),
        !.structure = Everywhere(1..4, 90),
        !.match = Everywhere(1..4, 90),
        !.mcp = TRUE,
        !.mails = {About(1, 2, TRUE), About(2, 3, FALSE), About(3, 4, FALSE)},
        !.claims = {{"approved"}, {"rejected"}, {"superseded"}, {"final_version", "for_reference_only"}}]

Copies ==
    [Plain EXCEPT
        !.count = 4,
        !.meta = <<Doc(1, 2, 1, 0), Doc(1, 1, 1, 0), Doc(3, 3, 2, 0), [Doc(4, 4, 0, 0) EXCEPT !.ext = "txt"]>>,
        !.unreadable = {3},
        !.alike = Always(4, Pairs(1..4)),
        !.content = Everywhere(1..4, 80),
        !.structure = Everywhere(1..4, 90),
        !.match = Everywhere(1..4, 0),
        !.mcp = TRUE, !.flaky = TRUE,
        !.mails = {About(1, 1, FALSE)},
        !.log = {About(2, 3, TRUE), About(3, 9, FALSE)},
        !.claims = {{"requires_revision"}}]

Blurred ==
    [Plain EXCEPT
        !.meta = <<Doc(1, 1, 1, 0), [Doc(2, 2, 2, 3) EXCEPT !.ext = "pdf"], Doc(3, 3, 3, 0)>>,
        !.unreadable = {3},
        !.alike = [lost \in SUBSET (1..3) |-> IF 3 \in lost THEN Pairs(1..3) ELSE {{1, 2}}],
        !.use_llm = TRUE,
        !.answers = {Answer("direct_revision", 90, FALSE)},
        !.log = {About(1, 2, TRUE)}]

MCInputs == {Drafts, Ring, Fork, Offers, Copies, Blurred}
=============================================================================
