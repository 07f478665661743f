-------------------------- MODULE TeamDispatchProofs --------------------------
(***************************************************************************)
(* TeamDispatch for any number of requests and repetitions: a delegation   *)
(* that is over holds nothing, a fallback never passes for the model's     *)
(* answer, and a batch without an open error has answered every request.   *)
(***************************************************************************)
EXTENDS TeamDispatch, SequenceTheorems, TLAPS

Call   == {"success", "failed", "fallback"}
Answer == Result \cup {NoResult}

Channels == [messages : Seq(Message), calls : Seq(Call), busy : BOOLEAN, bound : BOOLEAN,
             errors : [ErrorNodes -> ErrorState], merged : [Request -> Answer],
             applied : SUBSET (Request \X {"model", "fallback"})]

\* Where no delegation is under way, and where one has not reached or has left
\* the part that holds something.
Between    == {"next_request", "batch_ended"}
Released   == Between \cup {"request_ended", "close_task_worktree"}
Unprepared == Between \cup SkillNodes
                  \cup {"request_ended", "validate_subagent_payload", "prepare_task_worktree"}
Unassigned == Released \cup Unprepared \cup {"release_task_skills", "create_assignment_message"}

DispatchTyped ==
    /\ setup \in [role : Role, fallback : BOOLEAN, bad : SUBSET Request, writes : BOOLEAN]
    /\ at \in 1..(Requests + 1)
    /\ pc \notin Between => at <= Requests
    /\ run \in Channels /\ IsInjective(run.messages)
    /\ work \in Channels /\ IsInjective(work.messages)
    /\ errors \in [ErrorNodes -> ErrorState]
    /\ output \in Answer
    /\ skills \in {"available", "selected", "loaded", "bound"}
    /\ active \in BOOLEAN

\* Nothing is held outside the part of a delegation that holds it; a member
\* is still busy when its result is merged only if the result is there to end it.
HoldsOnlyWithin ==
    /\ pc \in Released => ~work.bound /\ skills = "available"
    /\ pc \in Unprepared => ~active
    /\ pc \in Unassigned => ~work.busy
    /\ pc = "merge_subagent_artifacts" /\ work.busy => Backed
    /\ ~run.busy /\ ~run.bound

FellBack(calls) == calls # <<>> /\ calls[Len(calls)] = "fallback"

\* While a fallback is the result of the delegation, the task's last call says so.
FallbackAudited ==
    /\ pc \notin Between /\ output.by = "fallback" => FellBack(work.calls)
    /\ pc \in {"validate_subagent_output", "build_deterministic_fallback"} => work.calls # <<>>
    /\ \A channels \in {run, work} : \A a \in channels.applied : a[2] = "model"

\* An open error of the delegations, the one of a leftover directory included.
Disturbed(errs) == \E n \in TeamNodes \cup {"dispatch_subagent_task"} : errs[n] = "open"

\* Every request that is over has a merged result, or an open error says that
\* something went wrong.
AnsweredSoFar ==
    /\ pc # "batch_ended" =>
           Disturbed(work.errors) \/ \A d \in Request : d < at => work.merged[d] # NoResult
    /\ pc \in {"release_task_skills", "close_task_worktree", "request_ended"} =>
           OrchestrationFailed(errors) \/ work.merged[at] # NoResult
    /\ pc = "batch_ended" =>
           Disturbed(run.errors) \/ \A d \in Request : run.merged[d] # NoResult

DispatchInvariant ==
    /\ DispatchTyped
    /\ HoldsOnlyWithin
    /\ FallbackAudited
    /\ AnsweredSoFar

(***************************************************************************)
(* Columns and channels.                                                   *)
(***************************************************************************)
\* One column of the channels; the others stay.
WithMessages(c, x) == [c EXCEPT !.messages = x]
WithCalls(c, x)    == [c EXCEPT !.calls = x]
WithBusy(c, x)     == [c EXCEPT !.busy = x]
WithBound(c, x)    == [c EXCEPT !.bound = x]
WithErrors(c, x)   == [c EXCEPT !.errors = x]
WithMerged(c, x)   == [c EXCEPT !.merged = x]
WithApplied(c, x)  == [c EXCEPT !.applied = x]

LEMMA MessagesUpdate ==
    ASSUME NEW c \in Channels, NEW x \in Seq(Message)
    PROVE  LET d == WithMessages(c, x) IN
           /\ d \in Channels /\ d.messages = x
           /\ d.calls = c.calls /\ d.busy = c.busy /\ d.bound = c.bound
           /\ d.errors = c.errors /\ d.merged = c.merged /\ d.applied = c.applied
BY DEF Channels, WithMessages

LEMMA CallsUpdate ==
    ASSUME NEW c \in Channels, NEW x \in Seq(Call)
    PROVE  LET d == WithCalls(c, x) IN
           /\ d \in Channels /\ d.calls = x
           /\ d.messages = c.messages /\ d.busy = c.busy /\ d.bound = c.bound
           /\ d.errors = c.errors /\ d.merged = c.merged /\ d.applied = c.applied
BY DEF Channels, WithCalls

LEMMA BusyUpdate ==
    ASSUME NEW c \in Channels, NEW x \in BOOLEAN
    PROVE  LET d == WithBusy(c, x) IN
           /\ d \in Channels /\ d.busy = x
           /\ d.messages = c.messages /\ d.calls = c.calls /\ d.bound = c.bound
           /\ d.errors = c.errors /\ d.merged = c.merged /\ d.applied = c.applied
BY DEF Channels, WithBusy

LEMMA BoundUpdate ==
    ASSUME NEW c \in Channels, NEW x \in BOOLEAN
    PROVE  LET d == WithBound(c, x) IN
           /\ d \in Channels /\ d.bound = x
           /\ d.messages = c.messages /\ d.calls = c.calls /\ d.busy = c.busy
           /\ d.errors = c.errors /\ d.merged = c.merged /\ d.applied = c.applied
BY DEF Channels, WithBound

LEMMA ErrorsUpdate ==
    ASSUME NEW c \in Channels, NEW x \in [ErrorNodes -> ErrorState]
    PROVE  LET d == WithErrors(c, x) IN
           /\ d \in Channels /\ d.errors = x
           /\ d.messages = c.messages /\ d.calls = c.calls /\ d.busy = c.busy
           /\ d.bound = c.bound /\ d.merged = c.merged /\ d.applied = c.applied
BY DEF Channels, WithErrors

LEMMA MergedUpdate ==
    ASSUME NEW c \in Channels, NEW x \in [Request -> Answer]
    PROVE  LET d == WithMerged(c, x) IN
           /\ d \in Channels /\ d.merged = x
           /\ d.messages = c.messages /\ d.calls = c.calls /\ d.busy = c.busy
           /\ d.bound = c.bound /\ d.errors = c.errors /\ d.applied = c.applied
BY DEF Channels, WithMerged

LEMMA AppliedUpdate ==
    ASSUME NEW c \in Channels, NEW x \in SUBSET (Request \X {"model", "fallback"})
    PROVE  LET d == WithApplied(c, x) IN
           /\ d \in Channels /\ d.applied = x
           /\ d.messages = c.messages /\ d.calls = c.calls /\ d.busy = c.busy
           /\ d.bound = c.bound /\ d.errors = c.errors /\ d.merged = c.merged
BY DEF Channels, WithApplied

LEMMA RecordingAnError ==
    ASSUME NEW n \in ErrorNodes, errors \in [ErrorNodes -> ErrorState]
    PROVE  /\ Recorded(n) \in [ErrorNodes -> ErrorState]
           /\ Recorded(n)[n] = "open"
           /\ \A m \in ErrorNodes : errors[m] = "open" => Recorded(n)[m] = "open"
BY DEF Recorded, ErrorState

LEMMA KnownNodes ==
    /\ TeamNodes \cup {"dispatch_subagent_task"} \subseteq ErrorNodes
    /\ SkillNodes \subseteq ErrorNodes /\ AgentNodes \subseteq ErrorNodes
BY DEF ErrorNodes, TeamNodes

\* A message keeps the place it got, and no message has two.
LEMMA SendingKeepsOrder ==
    ASSUME NEW messages \in Seq(Message), IsInjective(messages), NEW m \in Message
    PROVE  Sent(messages, m) \in Seq(Message) /\ IsInjective(Sent(messages, m))
<1>1. CASE \E i \in DOMAIN messages : messages[i] = m
  BY <1>1 DEF Sent
<1>2. CASE ~\E i \in DOMAIN messages : messages[i] = m
  <2>. DEFINE new == Append(messages, m)
  <2>1. /\ new \in Seq(Message) /\ Len(new) = Len(messages) + 1 /\ Len(messages) \in Nat
        /\ new[Len(messages) + 1] = m /\ \A i \in 1..Len(messages) : new[i] = messages[i]
    BY AppendProperties
  <2>2. DOMAIN new = 1..Len(new) /\ DOMAIN messages = 1..Len(messages)
    BY <2>1
  <2>3. Sent(messages, m) = new
    BY <1>2 DEF Sent
  <2>. HIDE DEF new
  <2>4. ASSUME NEW a \in DOMAIN new, NEW b \in DOMAIN new, new[a] = new[b] PROVE a = b
    <3>1. CASE a \in DOMAIN messages /\ b \in DOMAIN messages
      BY <2>1, <2>2, <2>4, <3>1 DEF IsInjective
    <3>2. CASE a \notin DOMAIN messages \/ b \notin DOMAIN messages
      BY <1>2, <2>1, <2>2, <2>4, <3>2
    <3>. QED  BY <3>1, <3>2
  <2>. QED  BY <2>1, <2>3, <2>4 DEF IsInjective
<1>. QED  BY <1>1, <1>2

LEMMA LastCall ==
    ASSUME NEW calls \in Seq(Call)
    PROVE  /\ \A x \in Call : /\ Append(calls, x) \in Seq(Call) /\ Append(calls, x) # <<>>
                              /\ Append(calls, x)[Len(Append(calls, x))] = x
           /\ calls # <<>> => /\ LastCallFellBack(calls) \in Seq(Call)
                              /\ FellBack(LastCallFellBack(calls))
           /\ <<"fallback">> \in Seq(Call) /\ FellBack(<<"fallback">>)
<1>1. ASSUME NEW x \in Call
      PROVE  /\ Append(calls, x) \in Seq(Call) /\ Append(calls, x) # <<>>
             /\ Append(calls, x)[Len(Append(calls, x))] = x
  BY AppendProperties
<1>2. ASSUME calls # <<>>
      PROVE  LastCallFellBack(calls) \in Seq(Call) /\ FellBack(LastCallFellBack(calls))
  <2>. DEFINE new == [calls EXCEPT ![Len(calls)] = "fallback"]
  <2>1. Len(calls) \in 1..Len(calls)
    BY <1>2, EmptySeq
  <2>2. new \in Seq(Call) /\ Len(new) = Len(calls)
    BY <2>1, ExceptSeq DEF Call
  <2>3. new[Len(new)] = "fallback" /\ new # <<>>
    BY <2>1, <2>2
  <2>. QED  BY <2>2, <2>3 DEF LastCallFellBack, FellBack
<1>3. <<"fallback">> \in Seq(Call) /\ FellBack(<<"fallback">>)
  BY DEF Call, FellBack
<1>. QED  BY <1>1, <1>2, <1>3

(***************************************************************************)
(* A step inside a delegation.                                             *)
(***************************************************************************)
Delegates == pc \notin Between /\ pc' \notin Between /\ UNCHANGED <<setup, at, run>>

ColumnsTyped ==
    /\ errors' \in [ErrorNodes -> ErrorState]
    /\ output' \in Answer
    /\ skills' \in {"available", "selected", "loaded", "bound"}
    /\ active' \in BOOLEAN

\* What the step may do to the working copy: not its errors, not what was
\* applied, and not the results of earlier requests.
WorkKept ==
    /\ work' \in Channels /\ IsInjective(work'.messages)
    /\ work'.errors = work.errors /\ work'.applied = work.applied
    /\ \A d \in Request : d < at => work'.merged[d] = work.merged[d]

LEMMA SameWork ==
    ASSUME DispatchInvariant, work' = work
    PROVE  WorkKept
BY DEF DispatchInvariant, DispatchTyped, WorkKept

LEMMA DelegationStep ==
    ASSUME DispatchInvariant, Delegates, ColumnsTyped, WorkKept,
           pc' \in Released => ~work'.bound /\ skills' = "available",
           pc' \in Unprepared => ~active',
           pc' \in Unassigned => ~work'.busy,
           pc' = "merge_subagent_artifacts" /\ work'.busy => Backed',
           output'.by = "fallback" => FellBack(work'.calls),
           pc' \in {"validate_subagent_output", "build_deterministic_fallback"} => work'.calls # <<>>,
           pc' \in {"release_task_skills", "close_task_worktree", "request_ended"} =>
               OrchestrationFailed(errors') \/ work'.merged[at] # NoResult
    PROVE  DispatchInvariant'
<1>1. DispatchTyped'
  BY DEF DispatchInvariant, DispatchTyped, Delegates, ColumnsTyped, WorkKept
<1>2. HoldsOnlyWithin'
  BY DEF DispatchInvariant, HoldsOnlyWithin, Delegates
<1>3. FallbackAudited'
  BY DEF DispatchInvariant, FallbackAudited, Delegates, WorkKept
<1>4. AnsweredSoFar'
  <2>1. pc' # "batch_ended" /\ pc # "batch_ended" /\ at' = at
    BY DEF Delegates, Between
  <2>2. Disturbed(work'.errors) \/ \A d \in Request : d < at => work'.merged[d] # NoResult
    BY <2>1 DEF DispatchInvariant, AnsweredSoFar, WorkKept
  <2>. QED  BY <2>1, <2>2 DEF AnsweredSoFar
<1>. QED  BY <1>1, <1>2, <1>3, <1>4 DEF DispatchInvariant

LEMMA SelectStep ==
    ASSUME DispatchInvariant, SelectTaskSkills
    PROVE  DispatchInvariant'
<1>1. Delegates /\ work' = work /\ output' = output /\ active' = active
      /\ pc = "select_task_skills" /\ pc' = "load_task_skills"
  BY DEF SelectTaskSkills, At, Delegates, Between
<1>2. ColumnsTyped
  BY RecordingAnError, KnownNodes
     DEF SelectTaskSkills, ColumnsTyped, DispatchInvariant, DispatchTyped, SkillNodes
<1>3. ~active /\ ~work.busy /\ (output.by = "fallback" => FellBack(work.calls))
  BY <1>1 DEF DispatchInvariant, HoldsOnlyWithin, FallbackAudited, Unprepared, Unassigned, SkillNodes,
              Between
<1>4. pc' \notin Released \cup {"merge_subagent_artifacts", "validate_subagent_output",
                "build_deterministic_fallback", "release_task_skills"}
  BY <1>1 DEF Released, Between
<1>5. pc' \notin {"close_task_worktree", "request_ended"}
  BY <1>1
<1>. QED  BY <1>1, <1>2, <1>3, <1>4, <1>5, SameWork, DelegationStep

LEMMA LoadStep ==
    ASSUME DispatchInvariant, LoadTaskSkills
    PROVE  DispatchInvariant'
<1>1. Delegates /\ work' = work /\ output' = output /\ active' = active
      /\ pc = "load_task_skills" /\ pc' = "bind_task_skills"
  BY DEF LoadTaskSkills, At, Delegates, Between
<1>2. ColumnsTyped
  BY RecordingAnError, KnownNodes
     DEF LoadTaskSkills, ColumnsTyped, DispatchInvariant, DispatchTyped, SkillNodes
<1>3. ~active /\ ~work.busy /\ (output.by = "fallback" => FellBack(work.calls))
  BY <1>1 DEF DispatchInvariant, HoldsOnlyWithin, FallbackAudited, Unprepared, Unassigned, SkillNodes,
              Between
<1>4. pc' \notin Released \cup {"merge_subagent_artifacts", "validate_subagent_output",
                "build_deterministic_fallback", "release_task_skills"}
  BY <1>1 DEF Released, Between
<1>5. pc' \notin {"close_task_worktree", "request_ended"}
  BY <1>1
<1>. QED  BY <1>1, <1>2, <1>3, <1>4, <1>5, SameWork, DelegationStep

\* The nodes that may run while everything is held.
Holding == (AgentNodes \ HookNodes) \cup
    {"invoke_subagent_graph", "validate_team_message", "fallback_to_coordinator",
     "build_fallback_result_message", "build_deterministic_fallback", "build_result_message"}

LEMMA HoldingNodes ==
    ASSUME NEW n \in Holding
    PROVE  /\ n \notin Released /\ n \notin Unprepared /\ n \notin Unassigned /\ n \notin Between
           /\ n \notin {"merge_subagent_artifacts", "release_task_skills", "close_task_worktree",
                        "request_ended"}
BY DEF Holding, AgentNodes, HookNodes, Released, Unprepared, Unassigned, Between, SkillNodes

LEMMA HoldingStep ==
    ASSUME DispatchInvariant, pc \notin Between, pc' \in Holding, UNCHANGED <<setup, at, run>>,
           ColumnsTyped, WorkKept, output'.by = "fallback" => FellBack(work'.calls),
           pc' \in {"validate_subagent_output", "build_deterministic_fallback"} => work'.calls # <<>>
    PROVE  DispatchInvariant'
<1>1. Delegates
  BY HoldingNodes DEF Delegates
<1>2. /\ pc' \notin Released /\ pc' \notin Unprepared /\ pc' \notin Unassigned
      /\ pc' \notin {"merge_subagent_artifacts", "release_task_skills", "close_task_worktree",
                     "request_ended"}
  BY HoldingNodes
<1>. QED  BY <1>1, <1>2, DelegationStep

LEMMA BindStep ==
    ASSUME DispatchInvariant, BindTaskSkills
    PROVE  DispatchInvariant'
<1>1. /\ pc = "bind_task_skills" /\ UNCHANGED <<setup, at, run, output, active>>
      /\ pc' \in {"fallback_to_coordinator", "validate_subagent_payload"}
      /\ work' = work \/ work' = WithBound(work, TRUE)
  BY DEF BindTaskSkills, At, WithBound
<1>2. ColumnsTyped
  BY RecordingAnError, KnownNodes
     DEF BindTaskSkills, ColumnsTyped, DispatchInvariant, DispatchTyped, SkillNodes
<1>3. ~active /\ ~work.busy /\ (output.by = "fallback" => FellBack(work.calls)) /\ work \in Channels
  BY <1>1 DEF DispatchInvariant, HoldsOnlyWithin, FallbackAudited, DispatchTyped, Unprepared,
              Unassigned, SkillNodes, Between
<1>4. /\ work' \in Channels /\ work'.messages = work.messages /\ work'.errors = work.errors
      /\ work'.applied = work.applied /\ work'.merged = work.merged
      /\ work'.calls = work.calls /\ work'.busy = work.busy
  <2>1. CASE work' = work
    BY <1>3, <2>1
  <2>2. CASE work' = WithBound(work, TRUE)
    BY <1>3, <2>2, BoundUpdate
  <2>. QED  BY <1>1, <2>1, <2>2
<1>5. WorkKept
  BY <1>4 DEF DispatchInvariant, DispatchTyped, WorkKept
<1>6. Delegates
  BY <1>1 DEF Delegates, Between
<1>7. pc' \notin Released
  BY <1>1 DEF Released, Between
<1>. QED  BY <1>1, <1>2, <1>3, <1>4, <1>5, <1>6, <1>7, DelegationStep

LEMMA PayloadStep ==
    ASSUME DispatchInvariant, ValidateSubagentPayload
    PROVE  DispatchInvariant'
<1>1. /\ pc = "validate_subagent_payload" /\ UNCHANGED <<setup, at, run, work, skills, output, active>>
      /\ pc' \in {"fallback_to_coordinator", "prepare_task_worktree", "create_assignment_message"}
  BY DEF ValidateSubagentPayload, At
<1>2. ColumnsTyped
  BY <1>1, RecordingAnError, KnownNodes
     DEF ValidateSubagentPayload, ColumnsTyped, DispatchInvariant, DispatchTyped, TeamNodes
<1>3. ~active /\ ~work.busy /\ (output.by = "fallback" => FellBack(work.calls))
  BY <1>1 DEF DispatchInvariant, HoldsOnlyWithin, FallbackAudited, Unprepared, Unassigned, Between
<1>4. Delegates
  BY <1>1 DEF Delegates, Between
<1>5. pc' \notin Released
  BY <1>1 DEF Released, Between
<1>. QED  BY <1>1, <1>2, <1>3, <1>4, <1>5, SameWork, DelegationStep

\* Without a worktree the delegation goes to its end with an open error.
LEMMA PrepareStep ==
    ASSUME DispatchInvariant, PrepareTaskWorktree
    PROVE  DispatchInvariant'
<1>1. /\ pc = "prepare_task_worktree" /\ UNCHANGED <<setup, at, run, work, skills, output>>
      /\ pc' \in {"create_assignment_message", "release_task_skills"}
      /\ \/ active' = TRUE /\ errors' = errors
         \/ active' = active /\ errors' = Recorded("prepare_task_worktree")
  <2>1. /\ pc = "prepare_task_worktree" /\ UNCHANGED <<setup, at, run, work, skills, output>>
        /\ \/ active' = TRUE /\ errors' = errors
           \/ active' = active /\ errors' = Recorded("prepare_task_worktree")
    BY DEF PrepareTaskWorktree, At
  <2>2. pc' \in {"create_assignment_message", "release_task_skills"}
    <3>1. CASE active' /\ errors'["prepare_task_worktree"] # "open"
      BY <3>1 DEF PrepareTaskWorktree
    <3>2. CASE ~(active' /\ errors'["prepare_task_worktree"] # "open")
      BY <3>2 DEF PrepareTaskWorktree
    <3>. QED  BY <3>1, <3>2
  <2>. QED  BY <2>1, <2>2
<1>2. ColumnsTyped
  <2>1. "prepare_task_worktree" \in ErrorNodes /\ errors \in [ErrorNodes -> ErrorState]
    BY DEF ErrorNodes, TeamNodes, DispatchInvariant, DispatchTyped
  <2>2. Recorded("prepare_task_worktree") \in [ErrorNodes -> ErrorState]
    BY <2>1, RecordingAnError
  <2>. QED  BY <1>1, <2>1, <2>2 DEF ColumnsTyped, DispatchInvariant, DispatchTyped
<1>3. ~active /\ ~work.busy /\ (output.by = "fallback" => FellBack(work.calls))
  BY <1>1 DEF DispatchInvariant, HoldsOnlyWithin, FallbackAudited, Unprepared, Unassigned, Between
<1>4. Delegates
  BY <1>1 DEF Delegates, Between
<1>5. pc' \notin Released /\ pc' \notin Unprepared
  BY <1>1 DEF Released, Between, Unprepared, SkillNodes
<1>6. pc' = "release_task_skills" => OrchestrationFailed(errors')
  <2>1. "prepare_task_worktree" \in TeamNodes /\ "prepare_task_worktree" \in ErrorNodes
    BY DEF TeamNodes, ErrorNodes
  <2>2. errors \in [ErrorNodes -> ErrorState]
    BY DEF DispatchInvariant, DispatchTyped
  <2>3. pc' = "release_task_skills" => errors'["prepare_task_worktree"] = "open"
    BY <1>3, <2>1, <2>2, RecordingAnError DEF PrepareTaskWorktree
  <2>. QED  BY <2>1, <2>3 DEF OrchestrationFailed
<1>. QED  BY <1>1, <1>2, <1>3, <1>4, <1>5, <1>6, SameWork, DelegationStep

LEMMA AssignmentStep ==
    ASSUME DispatchInvariant, CreateAssignmentMessage
    PROVE  DispatchInvariant'
<1>1. /\ pc = "create_assignment_message" /\ UNCHANGED <<setup, at, run, errors, skills, output, active>>
      /\ pc' = "invoke_subagent_graph" /\ work' = WithBusy(work, TRUE)
  BY DEF CreateAssignmentMessage, At, WithBusy
<1>2. ColumnsTyped
  BY <1>1 DEF ColumnsTyped, DispatchInvariant, DispatchTyped
<1>3. pc \notin Between /\ pc' \in Holding
  BY <1>1 DEF Between, Holding
<1>4. (output.by = "fallback" => FellBack(work.calls)) /\ work \in Channels
  BY <1>3 DEF DispatchInvariant, DispatchTyped, FallbackAudited
<1>5. /\ work' \in Channels /\ work'.messages = work.messages /\ work'.errors = work.errors
      /\ work'.applied = work.applied /\ work'.merged = work.merged /\ work'.calls = work.calls
  BY <1>1, <1>4, BusyUpdate
<1>6. WorkKept
  BY <1>5 DEF DispatchInvariant, DispatchTyped, WorkKept
<1>. QED  BY <1>1, <1>2, <1>3, <1>4, <1>5, <1>6, HoldingStep

\* A node of a sub-agent, or the one before it, that leaves the working copy
\* and the result alone.
LEMMA AgentMovesOn ==
    ASSUME DispatchInvariant, pc \notin Between, UNCHANGED <<setup, at, run, work, skills, output, active>>,
           errors' = errors \/ (\E n \in ErrorNodes : errors' = Recorded(n)),
           pc' \in Holding \ {"validate_subagent_output", "build_deterministic_fallback"}
    PROVE  DispatchInvariant'
<1>1. ColumnsTyped
  BY RecordingAnError DEF ColumnsTyped, DispatchInvariant, DispatchTyped
<1>2. output'.by = "fallback" => FellBack(work'.calls)
  BY DEF DispatchInvariant, FallbackAudited
<1>. QED  BY <1>1, <1>2, SameWork, HoldingStep

LEMMA InvokeGraphStep ==
    ASSUME DispatchInvariant, NEW role, InvokeSubagentGraph(role)
    PROVE  DispatchInvariant'
<1>1. "invoke_subagent_graph" \in ErrorNodes
      /\ {"validate_subagent_input", "validate_team_message"}
             \subseteq Holding \ {"validate_subagent_output", "build_deterministic_fallback"}
  BY DEF ErrorNodes, TeamNodes, Holding, AgentNodes, HookNodes
<1>. QED  BY <1>1, AgentMovesOn DEF InvokeSubagentGraph, At, Between

LEMMA InputStep ==
    ASSUME DispatchInvariant, NEW role, ValidateInput(role)
    PROVE  DispatchInvariant'
<1>1. {"build_result_message", "build_subagent_prompt"}
          \subseteq Holding \ {"validate_subagent_output", "build_deterministic_fallback"}
  BY DEF Holding, AgentNodes, HookNodes
<1>. QED  BY <1>1, AgentMovesOn DEF ValidateInput, InAgent, At, Between

LEMMA PromptStep ==
    ASSUME DispatchInvariant, NEW role, BuildPrompt(role)
    PROVE  DispatchInvariant'
<1>1. {"build_subagent_prompt", "execute_before_model_hooks"} \subseteq ErrorNodes
      /\ {"build_result_message", "invoke_structured_llm"}
             \subseteq Holding \ {"validate_subagent_output", "build_deterministic_fallback"}
  BY DEF ErrorNodes, Holding, AgentNodes, HookNodes
<1>. QED  BY <1>1, AgentMovesOn DEF BuildPrompt, InAgent, At, Between

LEMMA ResultMessages ==
    /\ ErrorMessage \in Message /\ \A r \in Answer : ResultMessage(r) \in Message
    /\ \A i \in 0..Requests : /\ [by |-> "model", about |-> i] \in Answer
                              /\ [by |-> "fallback", about |-> i] \in Answer
                              /\ [by |-> "fallback", about |-> i] # NoResult
    /\ NoResult.by = "nobody"
BY DEF ErrorMessage, ResultMessage, Message, Answer, Result, NoResult

LEMMA InvokeModelStep ==
    ASSUME DispatchInvariant, NEW role, InvokeStructuredLLM(role)
    PROVE  DispatchInvariant'
<1>1. /\ pc = "invoke_structured_llm" /\ UNCHANGED <<setup, at, run, skills, active>>
      /\ pc' = AfterOutput(output', "validate_subagent_output")
  BY DEF InvokeStructuredLLM, InAgent, At
<1>2. pc \notin Between /\ pc' \in Holding
  BY <1>1 DEF Between, Holding, AfterOutput, AgentNodes, HookNodes
<1>3. at \in 0..Requests /\ work \in Channels /\ errors \in [ErrorNodes -> ErrorState]
  BY <1>2, TeamDispatchAssumption DEF DispatchInvariant, DispatchTyped
<1>4. PICK x \in {"success", "failed"} : work' = WithCalls(work, Append(work.calls, x))
  BY DEF InvokeStructuredLLM, WithCalls
<1>5. \/ output' = NoResult
      \/ \E i \in {0, at} : output' = [by |-> "model", about |-> i]
  BY DEF InvokeStructuredLLM
<1>6. output' \in Answer /\ output'.by # "fallback"
  <2>1. CASE output' = NoResult
    BY <2>1, ResultMessages DEF Answer
  <2>2. ASSUME NEW i \in {0, at}, output' = [by |-> "model", about |-> i]
        PROVE  output' \in Answer /\ output'.by # "fallback"
    <3>1. i \in 0..Requests
      BY <1>3, TeamDispatchAssumption
    <3>. QED  BY <2>2, <3>1, ResultMessages
  <2>. QED  BY <1>5, <2>1, <2>2
<1>7. errors' \in [ErrorNodes -> ErrorState]
  <2>1. {"execute_after_model_hooks", "invoke_structured_llm"} \subseteq ErrorNodes
    BY DEF ErrorNodes, AgentNodes
  <2>2. errors' \in {errors, Recorded("execute_after_model_hooks"), Recorded("invoke_structured_llm")}
    BY DEF InvokeStructuredLLM
  <2>. QED  BY <1>3, <2>1, <2>2, RecordingAnError
<1>8. ColumnsTyped
  BY <1>1, <1>6, <1>7 DEF ColumnsTyped, DispatchInvariant, DispatchTyped
<1>. DEFINE new == Append(work.calls, x)
<1>9. new \in Seq(Call) /\ new # <<>>
  BY <1>3, LastCall DEF Channels, Call
<1>. HIDE DEF new
<1>10. /\ work' \in Channels /\ work'.calls = new /\ work'.messages = work.messages
       /\ work'.errors = work.errors /\ work'.applied = work.applied /\ work'.merged = work.merged
  BY <1>3, <1>4, <1>9, CallsUpdate DEF new
<1>11. WorkKept
  BY <1>10 DEF DispatchInvariant, DispatchTyped, WorkKept
<1>. QED  BY <1>1, <1>2, <1>6, <1>8, <1>9, <1>10, <1>11, HoldingStep

LEMMA OutputStep ==
    ASSUME DispatchInvariant, NEW role, ValidateOutput(role)
    PROVE  DispatchInvariant'
<1>1. /\ pc = "validate_subagent_output" /\ UNCHANGED <<setup, at, run, work, skills, active>>
      /\ pc' = AfterOutput(output', "build_result_message")
      /\ \/ output' = output /\ errors' = errors
         \/ output' = NoResult /\ errors' = Recorded("validate_subagent_output")
  BY DEF ValidateOutput, InAgent, At
<1>2. pc \notin Between /\ pc' \in Holding
  BY <1>1 DEF Between, Holding, AfterOutput, AgentNodes, HookNodes
<1>3. ColumnsTyped
  <2>1. "validate_subagent_output" \in ErrorNodes /\ errors \in [ErrorNodes -> ErrorState]
    BY DEF ErrorNodes, AgentNodes, DispatchInvariant, DispatchTyped
  <2>2. Recorded("validate_subagent_output") \in [ErrorNodes -> ErrorState]
    BY <2>1, RecordingAnError
  <2>. QED  BY <1>1, <2>1, <2>2 DEF ColumnsTyped, DispatchInvariant, DispatchTyped, Answer
<1>4. work'.calls # <<>> /\ (output'.by = "fallback" => FellBack(work'.calls))
  BY <1>1, <1>2, ResultMessages DEF DispatchInvariant, FallbackAudited
<1>. QED  BY <1>1, <1>2, <1>3, <1>4, SameWork, HoldingStep

LEMMA AgentFallbackStep ==
    ASSUME DispatchInvariant, NEW role, BuildDeterministicFallback(role)
    PROVE  DispatchInvariant'
<1>. DEFINE new == LastCallFellBack(work.calls)
<1>1. /\ pc = "build_deterministic_fallback" /\ UNCHANGED <<setup, at, run, errors, skills, active>>
      /\ pc' = "build_result_message" /\ output' = [by |-> "fallback", about |-> at]
      /\ work' = WithCalls(work, new)
  BY DEF BuildDeterministicFallback, InAgent, At, WithCalls
<1>2. pc \notin Between /\ pc' \in Holding
  BY <1>1 DEF Between, Holding
<1>3. at \in 0..Requests /\ work \in Channels /\ work.calls \in Seq(Call) /\ work.calls # <<>>
  BY <1>1, <1>2, TeamDispatchAssumption
     DEF DispatchInvariant, DispatchTyped, FallbackAudited, Channels
<1>4. new \in Seq(Call) /\ FellBack(new)
  BY <1>3, LastCall
<1>. HIDE DEF new
<1>5. ColumnsTyped
  BY <1>1, <1>3, ResultMessages DEF ColumnsTyped, DispatchInvariant, DispatchTyped
<1>6. /\ work' \in Channels /\ work'.calls = new /\ work'.messages = work.messages
      /\ work'.errors = work.errors /\ work'.applied = work.applied /\ work'.merged = work.merged
  BY <1>1, <1>3, <1>4, CallsUpdate
<1>7. WorkKept
  BY <1>6 DEF DispatchInvariant, DispatchTyped, WorkKept
<1>. QED  BY <1>1, <1>2, <1>4, <1>5, <1>6, <1>7, HoldingStep

LEMMA ResultStep ==
    ASSUME DispatchInvariant, NEW role, BuildResultMessage(role)
    PROVE  DispatchInvariant'
<1>. DEFINE m   == IF output = NoResult THEN ErrorMessage ELSE ResultMessage(output)
            new == Sent(work.messages, m)
<1>1. /\ pc = "build_result_message" /\ UNCHANGED <<setup, at, run, errors, skills, output, active>>
      /\ pc' = "validate_team_message" /\ work' = WithMessages(work, new)
  BY DEF BuildResultMessage, InAgent, At, WithMessages
<1>2. pc \notin Between /\ pc' \in Holding
  BY <1>1 DEF Between, Holding
<1>3. work \in Channels /\ work.messages \in Seq(Message) /\ IsInjective(work.messages)
      /\ output \in Answer /\ (output.by = "fallback" => FellBack(work.calls))
  BY <1>2 DEF DispatchInvariant, DispatchTyped, FallbackAudited, Channels
<1>4. m \in Message
  BY <1>3, ResultMessages
<1>. HIDE DEF m
<1>5. new \in Seq(Message) /\ IsInjective(new)
  BY <1>3, <1>4, SendingKeepsOrder
<1>. HIDE DEF new
<1>6. /\ work' \in Channels /\ work'.calls = work.calls /\ work'.messages = new
      /\ work'.errors = work.errors /\ work'.applied = work.applied /\ work'.merged = work.merged
  BY <1>1, <1>3, <1>5, MessagesUpdate
<1>7. WorkKept /\ ColumnsTyped
  BY <1>1, <1>5, <1>6 DEF DispatchInvariant, DispatchTyped, WorkKept, ColumnsTyped
<1>. QED  BY <1>1, <1>2, <1>3, <1>6, <1>7, HoldingStep

\* A result that nothing backs is not merged by the nodes that follow.
LEMMA MessageStep ==
    ASSUME DispatchInvariant, ValidateTeamMessage
    PROVE  DispatchInvariant'
<1>1. /\ pc = "validate_team_message" /\ UNCHANGED <<setup, at, run, work, skills, active>>
      /\ \/ Backed /\ errors' = errors /\ output' = output
         \/ ~Backed /\ errors' = Recorded("validate_team_message") /\ output' = NoResult
  BY DEF ValidateTeamMessage, At
<1>2. "validate_team_message" \in ErrorNodes /\ errors \in [ErrorNodes -> ErrorState]
  BY DEF ErrorNodes, TeamNodes, DispatchInvariant, DispatchTyped
<1>3. /\ Recorded("validate_team_message") \in [ErrorNodes -> ErrorState]
      /\ Recorded("validate_team_message")["validate_team_message"] = "open"
  BY <1>2, RecordingAnError
<1>4. pc' \in {"fallback_to_coordinator", "merge_subagent_artifacts"}
      /\ (pc' = "merge_subagent_artifacts" => ~Marked(errors', "validate_team_message"))
  <2>1. CASE Marked(errors', "validate_team_message")
    BY <2>1 DEF ValidateTeamMessage
  <2>2. CASE ~Marked(errors', "validate_team_message")
    BY <2>2 DEF ValidateTeamMessage
  <2>. QED  BY <2>1, <2>2
<1>5. pc' = "merge_subagent_artifacts" => Backed'
  BY <1>1, <1>3, <1>4 DEF Marked, Backed
<1>6. ColumnsTyped
  BY <1>1, <1>2, <1>3 DEF ColumnsTyped, DispatchInvariant, DispatchTyped, Answer
<1>7. pc \notin Between /\ Delegates
  BY <1>1, <1>4 DEF Delegates, Between
<1>8. output'.by = "fallback" => FellBack(work'.calls)
  BY <1>1, <1>7, ResultMessages DEF DispatchInvariant, FallbackAudited
<1>9. pc' \notin Released /\ pc' \notin Unprepared /\ pc' \notin Unassigned
  BY <1>4 DEF Released, Unprepared, Unassigned, Between, SkillNodes
<1>. QED  BY <1>1, <1>4, <1>5, <1>6, <1>7, <1>8, <1>9, SameWork, DelegationStep

LEMMA CoordinatorStep ==
    ASSUME DispatchInvariant, FallbackToCoordinator
    PROVE  DispatchInvariant'
<1>. DEFINE new == IF work.calls = <<>> THEN <<"fallback">> ELSE LastCallFellBack(work.calls)
            i   == IF at \in setup.bad THEN 0 ELSE at
<1>1. /\ pc = "fallback_to_coordinator" /\ UNCHANGED <<setup, at, run, errors, skills, active>>
      /\ pc' = "build_fallback_result_message" /\ output' = [by |-> "fallback", about |-> i]
      /\ work' = WithCalls(work, new)
  BY DEF FallbackToCoordinator, At, WithCalls
<1>2. pc \notin Between /\ pc' \in Holding
  BY <1>1 DEF Between, Holding
<1>3. i \in 0..Requests /\ work \in Channels /\ work.calls \in Seq(Call)
  BY <1>2, TeamDispatchAssumption DEF DispatchInvariant, DispatchTyped, Channels
<1>4. new \in Seq(Call) /\ FellBack(new)
  BY <1>3, LastCall
<1>. HIDE DEF new, i
<1>5. ColumnsTyped
  BY <1>1, <1>3, ResultMessages DEF ColumnsTyped, DispatchInvariant, DispatchTyped
<1>6. /\ work' \in Channels /\ work'.calls = new /\ work'.messages = work.messages
      /\ work'.errors = work.errors /\ work'.applied = work.applied /\ work'.merged = work.merged
  BY <1>1, <1>3, <1>4, CallsUpdate
<1>7. WorkKept
  BY <1>6 DEF DispatchInvariant, DispatchTyped, WorkKept
<1>. QED  BY <1>1, <1>2, <1>4, <1>5, <1>6, <1>7, HoldingStep

LEMMA CoordinatorMessageStep ==
    ASSUME DispatchInvariant, BuildFallbackResultMessage
    PROVE  DispatchInvariant'
<1>. DEFINE new  == Sent(work.messages, ResultMessage(output))
            sent == WithMessages(work, new)
<1>1. /\ pc = "build_fallback_result_message"
      /\ UNCHANGED <<setup, at, run, errors, skills, output, active>>
      /\ pc' = "merge_subagent_artifacts" /\ work' = WithBusy(sent, FALSE)
  BY DEF BuildFallbackResultMessage, At, WithMessages, WithBusy
<1>2. pc \notin Between /\ Delegates
  BY <1>1 DEF Between, Delegates
<1>3. work \in Channels /\ work.messages \in Seq(Message) /\ IsInjective(work.messages)
      /\ output \in Answer /\ (output.by = "fallback" => FellBack(work.calls))
  BY <1>2 DEF DispatchInvariant, DispatchTyped, FallbackAudited, Channels
<1>4. new \in Seq(Message) /\ IsInjective(new)
  BY <1>3, ResultMessages, SendingKeepsOrder
<1>. HIDE DEF new
<1>5. /\ sent \in Channels /\ sent.calls = work.calls /\ sent.messages = new
      /\ sent.errors = work.errors /\ sent.applied = work.applied /\ sent.merged = work.merged
  BY <1>3, <1>4, MessagesUpdate
<1>. HIDE DEF sent
<1>6. /\ work' \in Channels /\ work'.calls = work.calls /\ work'.messages = new /\ ~work'.busy
      /\ work'.errors = work.errors /\ work'.applied = work.applied /\ work'.merged = work.merged
  BY <1>1, <1>5, BusyUpdate
<1>7. WorkKept /\ ColumnsTyped
  BY <1>1, <1>4, <1>6 DEF DispatchInvariant, DispatchTyped, WorkKept, ColumnsTyped
<1>8. pc' \notin Released /\ pc' \notin Unprepared
  BY <1>1 DEF Released, Unprepared, Between, SkillNodes
<1>. QED  BY <1>1, <1>2, <1>3, <1>6, <1>7, <1>8, DelegationStep

LEMMA MergeStep ==
    ASSUME DispatchInvariant, MergeSubagentArtifacts
    PROVE  DispatchInvariant'
<1>1. /\ pc = "merge_subagent_artifacts" /\ UNCHANGED <<setup, at, run, skills, output, active>>
      /\ pc' = "release_task_skills"
  BY DEF MergeSubagentArtifacts, At
<1>2. pc \notin Between /\ Delegates
  BY <1>1 DEF Between, Delegates
<1>3. /\ work \in Channels /\ IsInjective(work.messages) /\ output \in Answer
      /\ errors \in [ErrorNodes -> ErrorState]
      /\ (output.by = "fallback" => FellBack(work.calls)) /\ (work.busy => Backed)
      /\ work.merged \in [Request -> Answer] /\ at \in Request
  BY <1>1, <1>2 DEF DispatchInvariant, DispatchTyped, FallbackAudited, HoldsOnlyWithin, Channels, Request
<1>4. pc' \notin Released /\ pc' \notin Unprepared
  BY <1>1 DEF Released, Unprepared, Between, SkillNodes
<1>5. CASE Backed
  <2>. DEFINE new  == [work.merged EXCEPT ![at] = output]
              idle == WithBusy(work, FALSE)
  <2>1. work' = WithMerged(idle, new) /\ errors' = errors
    BY <1>5 DEF MergeSubagentArtifacts, WithMerged, WithBusy
  <2>2. new \in [Request -> Answer] /\ new[at] # NoResult
        /\ \A d \in Request : d < at => new[d] = work.merged[d]
    <3>1. \A d \in Request : d < at => d # at
      BY DEF Request
    <3>. QED  BY <1>3, <1>5, <3>1 DEF Backed
  <2>. HIDE DEF new
  <2>3. /\ idle \in Channels /\ idle.calls = work.calls /\ idle.messages = work.messages
        /\ ~idle.busy /\ idle.errors = work.errors /\ idle.applied = work.applied
    BY <1>3, BusyUpdate
  <2>. HIDE DEF idle
  <2>4. /\ work' \in Channels /\ work'.calls = work.calls /\ work'.messages = work.messages
        /\ ~work'.busy /\ work'.errors = work.errors /\ work'.applied = work.applied
        /\ work'.merged = new
    BY <2>1, <2>2, <2>3, MergedUpdate
  <2>5. WorkKept /\ ColumnsTyped
    BY <1>1, <1>3, <2>1, <2>2, <2>4 DEF DispatchInvariant, DispatchTyped, WorkKept, ColumnsTyped
  <2>. QED  BY <1>1, <1>2, <1>3, <1>4, <2>2, <2>4, <2>5, DelegationStep
<1>6. CASE ~Backed
  <2>1. work' = work /\ errors' = Recorded("merge_subagent_artifacts")
    BY <1>6 DEF MergeSubagentArtifacts
  <2>2. "merge_subagent_artifacts" \in TeamNodes /\ "merge_subagent_artifacts" \in ErrorNodes
    BY DEF TeamNodes, ErrorNodes
  <2>3. OrchestrationFailed(errors') /\ errors' \in [ErrorNodes -> ErrorState]
    BY <1>3, <2>1, <2>2, RecordingAnError DEF OrchestrationFailed
  <2>4. ColumnsTyped
    BY <1>1, <2>3 DEF DispatchInvariant, DispatchTyped, ColumnsTyped
  <2>. QED  BY <1>1, <1>2, <1>3, <1>4, <1>6, <2>1, <2>3, <2>4, SameWork, DelegationStep
<1>. QED  BY <1>5, <1>6

LEMMA ReleaseStep ==
    ASSUME DispatchInvariant, ReleaseTaskSkills
    PROVE  DispatchInvariant'
<1>1. /\ pc = "release_task_skills" /\ UNCHANGED <<setup, at, run, errors, output, active>>
      /\ pc' = "close_task_worktree" /\ skills' = "available" /\ work' = WithBound(work, FALSE)
  BY DEF ReleaseTaskSkills, At, WithBound
<1>2. pc \notin Between /\ Delegates
  BY <1>1 DEF Between, Delegates
<1>3. /\ work \in Channels /\ ~work.busy /\ (output.by = "fallback" => FellBack(work.calls))
      /\ (OrchestrationFailed(errors) \/ work.merged[at] # NoResult)
  BY <1>1, <1>2 DEF DispatchInvariant, DispatchTyped, FallbackAudited, HoldsOnlyWithin, AnsweredSoFar,
                    Unassigned
<1>4. /\ work' \in Channels /\ work'.calls = work.calls /\ work'.messages = work.messages
      /\ work'.busy = work.busy /\ ~work'.bound /\ work'.errors = work.errors
      /\ work'.applied = work.applied /\ work'.merged = work.merged
  BY <1>1, <1>3, BoundUpdate
<1>5. WorkKept /\ ColumnsTyped
  BY <1>1, <1>4 DEF DispatchInvariant, DispatchTyped, WorkKept, ColumnsTyped
<1>6. pc' \notin Unprepared
  BY <1>1 DEF Unprepared, Between, SkillNodes
<1>. QED  BY <1>1, <1>2, <1>3, <1>4, <1>5, <1>6, DelegationStep

LEMMA CloseStep ==
    ASSUME DispatchInvariant, CloseTaskWorktree
    PROVE  DispatchInvariant'
<1>1. /\ pc = "close_task_worktree" /\ UNCHANGED <<setup, at, run, work, skills, output>>
      /\ pc' = "request_ended" /\ active' = FALSE
      /\ errors' = errors \/ errors' = Recorded("close_task_worktree")
  BY DEF CloseTaskWorktree, At
<1>2. pc \notin Between /\ Delegates
  BY <1>1 DEF Between, Delegates
<1>3. /\ ~work.busy /\ ~work.bound /\ skills = "available"
      /\ (output.by = "fallback" => FellBack(work.calls)) /\ errors \in [ErrorNodes -> ErrorState]
      /\ (OrchestrationFailed(errors) \/ work.merged[at] # NoResult)
  BY <1>1, <1>2 DEF DispatchInvariant, DispatchTyped, FallbackAudited, HoldsOnlyWithin, AnsweredSoFar,
                    Unassigned, Released
<1>4. "close_task_worktree" \in ErrorNodes /\ TeamNodes \subseteq ErrorNodes
  BY DEF ErrorNodes, TeamNodes
<1>5. errors' \in [ErrorNodes -> ErrorState] /\ (OrchestrationFailed(errors) => OrchestrationFailed(errors'))
  BY <1>1, <1>3, <1>4, RecordingAnError DEF OrchestrationFailed
<1>6. ColumnsTyped
  BY <1>1, <1>5 DEF DispatchInvariant, DispatchTyped, ColumnsTyped
<1>. QED  BY <1>1, <1>2, <1>3, <1>5, <1>6, SameWork, DelegationStep

(***************************************************************************)
(* The steps of the batch.                                                 *)
(***************************************************************************)
LEMMA BeginStep ==
    ASSUME DispatchInvariant, BeginRequest
    PROVE  DispatchInvariant'
<1>1. /\ pc = "next_request" /\ at <= Requests /\ UNCHANGED <<setup, at, run, work>>
      /\ pc' = "select_task_skills" /\ skills' = "available" /\ output' = NoResult /\ active' = FALSE
      /\ errors' \in {work.errors, run.errors}
  BY DEF BeginRequest, At, Handed
<1>2. /\ ~work.busy /\ ~work.bound /\ NoResult.by # "fallback"
      /\ run.errors \in [ErrorNodes -> ErrorState] /\ work.errors \in [ErrorNodes -> ErrorState]
  BY <1>1, ResultMessages DEF DispatchInvariant, DispatchTyped, HoldsOnlyWithin, Channels, Released,
                              Unassigned, Between
<1>3. DispatchTyped'
  BY <1>1, <1>2 DEF DispatchInvariant, DispatchTyped, Answer
<1>4. HoldsOnlyWithin'
  BY <1>1, <1>2 DEF DispatchInvariant, HoldsOnlyWithin
<1>5. FallbackAudited'
  BY <1>1, <1>2 DEF DispatchInvariant, FallbackAudited
<1>6. AnsweredSoFar'
  BY <1>1 DEF DispatchInvariant, AnsweredSoFar
<1>. QED  BY <1>3, <1>4, <1>5, <1>6 DEF DispatchInvariant

\* An exception leaves the delegation where nothing was assigned yet; the error
\* it leaves is open, in the working copy or in the run.
LEMMA LeftoverStep ==
    ASSUME DispatchInvariant, LeftoverDirectoryRaises
    PROVE  DispatchInvariant'
<1>1. /\ pc = "prepare_task_worktree" /\ UNCHANGED <<setup, output, active>>
      /\ errors' = NoErrors /\ skills' = "available"
  BY DEF LeftoverDirectoryRaises, At
<1>2. /\ work \in Channels /\ run \in Channels /\ IsInjective(work.messages)
      /\ IsInjective(run.messages) /\ at \in 1..(Requests + 1) /\ at <= Requests
      /\ ~active /\ ~work.busy /\ ~run.busy /\ ~run.bound /\ Requests \in Nat
      /\ \A a \in work.applied : a[2] = "model"
      /\ \A a \in run.applied : a[2] = "model"
  BY <1>1, TeamDispatchAssumption
     DEF DispatchInvariant, DispatchTyped, HoldsOnlyWithin, FallbackAudited, Unprepared, Unassigned,
         Between
<1>3. errors' \in [ErrorNodes -> ErrorState]
  BY <1>1 DEF NoErrors, ErrorState
<1>4. "dispatch_subagent_task" \in ErrorNodes
  BY DEF ErrorNodes
<1>5. CASE setup.role = "version"
  <2>. DEFINE free == WithBound(work, FALSE)
              errs == [free.errors EXCEPT !["dispatch_subagent_task"] = "open"]
  <2>1. /\ work' = WithErrors(free, errs) /\ at' = at + 1 /\ pc' = "next_request" /\ run' = run
    BY <1>5 DEF LeftoverDirectoryRaises, WithBound, WithErrors
  <2>2. /\ free \in Channels /\ ~free.bound /\ free.busy = work.busy /\ free.messages = work.messages
        /\ free.applied = work.applied /\ free.errors \in [ErrorNodes -> ErrorState]
    BY <1>2, BoundUpdate DEF Channels
  <2>. HIDE DEF free
  <2>3. errs \in [ErrorNodes -> ErrorState] /\ errs["dispatch_subagent_task"] = "open"
    BY <1>4, <2>2 DEF ErrorState
  <2>. HIDE DEF errs
  <2>4. /\ work' \in Channels /\ ~work'.bound /\ ~work'.busy /\ work'.messages = work.messages
        /\ work'.applied = work.applied /\ work'.errors = errs
    BY <1>2, <2>1, <2>2, <2>3, ErrorsUpdate
  <2>5. at' \in 1..(Requests + 1)
    BY <1>2, <2>1
  <2>6. DispatchTyped'
    BY <1>1, <1>2, <1>3, <2>1, <2>4, <2>5 DEF DispatchInvariant, DispatchTyped, Between
  <2>7. HoldsOnlyWithin'
    BY <1>1, <1>2, <2>1, <2>4 DEF HoldsOnlyWithin
  <2>8. FallbackAudited'
    BY <1>2, <2>1, <2>4 DEF FallbackAudited, Between
  <2>9. AnsweredSoFar'
    BY <2>1, <2>3, <2>4 DEF AnsweredSoFar, Disturbed
  <2>. QED  BY <2>6, <2>7, <2>8, <2>9 DEF DispatchInvariant
<1>6. CASE setup.role # "version"
  <2>. DEFINE errs == [run.errors EXCEPT !["dispatch_subagent_task"] = "open"]
  <2>1. /\ run' = WithErrors(run, errs) /\ work' = run' /\ at' = at /\ pc' = "batch_ended"
    BY <1>6 DEF LeftoverDirectoryRaises, WithErrors
  <2>2. errs \in [ErrorNodes -> ErrorState] /\ errs["dispatch_subagent_task"] = "open"
    BY <1>2, <1>4 DEF ErrorState, Channels
  <2>. HIDE DEF errs
  <2>3. /\ run' \in Channels /\ ~run'.bound /\ ~run'.busy /\ run'.messages = run.messages
        /\ run'.applied = run.applied /\ run'.errors = errs
    BY <1>2, <2>1, <2>2, ErrorsUpdate
  <2>4. DispatchTyped'
    BY <1>1, <1>2, <1>3, <2>1, <2>3 DEF DispatchInvariant, DispatchTyped, Between
  <2>5. HoldsOnlyWithin'
    BY <1>1, <1>2, <2>1, <2>3 DEF HoldsOnlyWithin
  <2>6. FallbackAudited'
    BY <1>2, <2>1, <2>3 DEF FallbackAudited, Between
  <2>7. AnsweredSoFar'
    BY <2>1, <2>2, <2>3 DEF AnsweredSoFar, Disturbed
  <2>. QED  BY <2>4, <2>5, <2>6, <2>7 DEF DispatchInvariant
<1>. QED  BY <1>5, <1>6

LEMMA ReturnedErrors ==
    ASSUME DispatchTyped
    PROVE  /\ Returned \in [ErrorNodes -> ErrorState]
           /\ OrchestrationFailed(errors) => Disturbed(Returned)
           /\ Disturbed(work.errors) => Disturbed(Returned)
<1>1. errors \in [ErrorNodes -> ErrorState] /\ work.errors \in [ErrorNodes -> ErrorState]
  BY DEF DispatchTyped, Channels
<1>2. Returned \in [ErrorNodes -> ErrorState]
  BY <1>1 DEF Returned, ErrorState
<1>3. \A n \in ErrorNodes : errors[n] = "open" \/ work.errors[n] = "open" => Returned[n] = "open"
  BY DEF Returned
<1>. QED  BY <1>2, <1>3, KnownNodes DEF OrchestrationFailed, Disturbed

\* A request that was not stopped by an open error has its result.
LEMMA RequestIsOver ==
    ASSUME DispatchInvariant, pc = "request_ended"
    PROVE  Disturbed(Returned) \/ \A d \in Request : d < at + 1 => work.merged[d] # NoResult
<1>1. OrchestrationFailed(errors) \/ work.merged[at] # NoResult
  BY DEF DispatchInvariant, AnsweredSoFar
<1>2. Disturbed(work.errors) \/ \A d \in Request : d < at => work.merged[d] # NoResult
  BY DEF DispatchInvariant, AnsweredSoFar
<1>3. \A d \in Request : d < at + 1 => d < at \/ d = at
  BY DEF Request, DispatchInvariant, DispatchTyped
<1>. QED  BY <1>1, <1>2, <1>3, ReturnedErrors DEF DispatchInvariant

LEMMA EndRequestStep ==
    ASSUME DispatchInvariant, EndRequest
    PROVE  DispatchInvariant'
<1>1. /\ pc = "request_ended" /\ pc' = "next_request" /\ work' = WithErrors(work, Returned)
      /\ UNCHANGED <<setup, run, errors, skills, output, active>>
      /\ \/ OrchestrationFailed(errors) /\ at' = Requests + 1
         \/ at' = at + 1
  BY DEF EndRequest, At, WithErrors
<1>2. work \in Channels /\ Returned \in [ErrorNodes -> ErrorState]
  BY ReturnedErrors DEF DispatchInvariant, DispatchTyped
<1>3. /\ work' \in Channels /\ work'.errors = Returned /\ work'.messages = work.messages
      /\ work'.busy = work.busy /\ work'.bound = work.bound /\ work'.merged = work.merged
      /\ work'.applied = work.applied
  BY <1>1, <1>2, ErrorsUpdate
<1>4. at' \in 1..(Requests + 1)
  BY <1>1, TeamDispatchAssumption DEF DispatchInvariant, DispatchTyped, Between
<1>5. DispatchTyped'
  BY <1>1, <1>3, <1>4 DEF DispatchInvariant, DispatchTyped, Between
<1>6. HoldsOnlyWithin'
  BY <1>1, <1>3 DEF DispatchInvariant, HoldsOnlyWithin, Released, Unprepared, Unassigned
<1>7. FallbackAudited'
  BY <1>1, <1>3 DEF DispatchInvariant, FallbackAudited, Between
<1>8. Disturbed(Returned) \/ \A d \in Request : d < at' => work.merged[d] # NoResult
  BY <1>1, RequestIsOver, ReturnedErrors DEF DispatchInvariant
<1>9. AnsweredSoFar'
  BY <1>1, <1>3, <1>8 DEF AnsweredSoFar
<1>. QED  BY <1>5, <1>6, <1>7, <1>9 DEF DispatchInvariant

\* A fallback is not applied: the audit of the task's last call gives it away.
LEMMA EndComparisonStep ==
    ASSUME DispatchInvariant, EndComparison
    PROVE  DispatchInvariant'
<1>. DEFINE all  == IF Applies THEN work.applied \cup {<<at, output.by>>} ELSE work.applied
            told == WithErrors(work, Returned)
<1>1. /\ pc = "request_ended" /\ pc' = "next_request" /\ work' = WithApplied(told, all)
      /\ UNCHANGED <<setup, run, errors, skills, output, active>> /\ at' = at + 1
  BY DEF EndComparison, At, WithErrors, WithApplied
<1>2. work \in Channels /\ Returned \in [ErrorNodes -> ErrorState] /\ output \in Answer
      /\ at \in Request
  BY <1>1, ReturnedErrors DEF DispatchInvariant, DispatchTyped, Request, Between
<1>3. Applies => output.by = "model"
  <2>1. output.by = "fallback" => FellBack(work.calls)
    BY <1>1 DEF DispatchInvariant, FallbackAudited, Between
  <2>2. Applies => output.by # "fallback"
    BY <2>1 DEF Applies, FellBack
  <2>3. Applies => output \in Result
    BY <1>2 DEF Applies, Answer
  <2>. QED  BY <2>2, <2>3 DEF Result
<1>4. all \in SUBSET (Request \X {"model", "fallback"}) /\ \A a \in all : a[2] = "model"
  <2>1. work.applied \in SUBSET (Request \X {"model", "fallback"})
        /\ \A a \in work.applied : a[2] = "model"
    BY <1>2 DEF Channels, DispatchInvariant, FallbackAudited
  <2>2. CASE Applies
    BY <1>2, <1>3, <2>1, <2>2
  <2>3. CASE ~Applies
    BY <2>1, <2>3
  <2>. QED  BY <2>2, <2>3
<1>. HIDE DEF all
<1>5. /\ told \in Channels /\ told.errors = Returned /\ told.messages = work.messages
      /\ told.busy = work.busy /\ told.bound = work.bound /\ told.merged = work.merged
  BY <1>2, ErrorsUpdate
<1>. HIDE DEF told
<1>6. /\ work' \in Channels /\ work'.errors = Returned /\ work'.messages = work.messages
      /\ work'.busy = work.busy /\ work'.bound = work.bound /\ work'.merged = work.merged
      /\ work'.applied = all
  BY <1>1, <1>4, <1>5, AppliedUpdate
<1>7. at' \in 1..(Requests + 1)
  BY <1>1, <1>2, TeamDispatchAssumption DEF Request
<1>8. DispatchTyped'
  BY <1>1, <1>6, <1>7 DEF DispatchInvariant, DispatchTyped, Between
<1>9. HoldsOnlyWithin'
  BY <1>1, <1>6 DEF DispatchInvariant, HoldsOnlyWithin, Released, Unprepared, Unassigned
<1>10. FallbackAudited'
  BY <1>1, <1>4, <1>6 DEF DispatchInvariant, FallbackAudited, Between
<1>11. AnsweredSoFar'
  BY <1>1, <1>6, RequestIsOver DEF AnsweredSoFar
<1>. QED  BY <1>8, <1>9, <1>10, <1>11 DEF DispatchInvariant

LEMMA EndBatchStep ==
    ASSUME DispatchInvariant, EndBatch
    PROVE  DispatchInvariant'
<1>1. /\ pc = "next_request" /\ at > Requests /\ pc' = "batch_ended" /\ run' = work
      /\ UNCHANGED <<setup, at, work, errors, skills, output, active>>
  BY DEF EndBatch, At
<1>2. DispatchTyped'
  BY <1>1 DEF DispatchInvariant, DispatchTyped, Between
<1>3. HoldsOnlyWithin'
  BY <1>1 DEF DispatchInvariant, HoldsOnlyWithin, Released, Unprepared, Unassigned, Between
<1>4. FallbackAudited'
  BY <1>1 DEF DispatchInvariant, FallbackAudited, Between
<1>5. \A d \in Request : d < at
  BY <1>1, TeamDispatchAssumption DEF Request, DispatchInvariant, DispatchTyped
<1>6. AnsweredSoFar'
  BY <1>1, <1>5 DEF DispatchInvariant, AnsweredSoFar
<1>. QED  BY <1>2, <1>3, <1>4, <1>6 DEF DispatchInvariant

LEMMA RepeatStep ==
    ASSUME DispatchInvariant, RepeatBatch
    PROVE  DispatchInvariant'
<1>. DEFINE fresh == [d \in Request |-> NoResult]
<1>1. /\ pc = "batch_ended" /\ pc' = "next_request" /\ work' = run' /\ at' = 1
      /\ UNCHANGED <<setup, errors, skills, output, active>>
  BY DEF RepeatBatch, At
<1>2. run \in Channels /\ run.errors \in [ErrorNodes -> ErrorState] /\ Requests \in Nat
      /\ 1 <= Requests
  BY TeamDispatchAssumption DEF DispatchInvariant, DispatchTyped, Channels
<1>3. PICK closed : run' = [run EXCEPT !.errors = [n \in ErrorNodes |-> IF n \in closed THEN "closed" ELSE @[n]],
                                       !.merged = fresh, !.applied = {}]
  BY DEF RepeatBatch
<1>. DEFINE errs == [n \in ErrorNodes |-> IF n \in closed THEN "closed" ELSE run.errors[n]]
            a    == WithErrors(run, errs)
            b    == WithMerged(a, fresh)
<1>4. run' = WithApplied(b, {})
  BY <1>3 DEF WithErrors, WithMerged, WithApplied
<1>5. errs \in [ErrorNodes -> ErrorState] /\ fresh \in [Request -> Answer]
  BY <1>2 DEF ErrorState, Answer
<1>. HIDE DEF errs, fresh
<1>6. a \in Channels /\ a.messages = run.messages /\ a.busy = run.busy /\ a.bound = run.bound
  BY <1>2, <1>5, ErrorsUpdate
<1>. HIDE DEF a
<1>7. b \in Channels /\ b.messages = run.messages /\ b.busy = run.busy /\ b.bound = run.bound
  BY <1>5, <1>6, MergedUpdate
<1>. HIDE DEF b
<1>8. /\ run' \in Channels /\ run'.messages = run.messages /\ run'.busy = run.busy
      /\ run'.bound = run.bound /\ run'.applied = {}
  <2>1. {} \in SUBSET (Request \X {"model", "fallback"})
    OBVIOUS
  <2>. QED  BY <1>4, <1>7, <2>1, AppliedUpdate
<1>9. at' \in 1..(Requests + 1)
  BY <1>1, <1>2
<1>10. DispatchTyped'
  BY <1>1, <1>8, <1>9 DEF DispatchInvariant, DispatchTyped, Between
<1>11. HoldsOnlyWithin'
  BY <1>1, <1>8 DEF DispatchInvariant, HoldsOnlyWithin, Released, Unprepared, Between
<1>12. FallbackAudited'
  BY <1>1, <1>8 DEF FallbackAudited, Between
<1>13. AnsweredSoFar'
  <2>1. \A d \in Request : ~(d < 1)
    BY DEF Request
  <2>. QED  BY <1>1, <2>1 DEF AnsweredSoFar
<1>. QED  BY <1>10, <1>11, <1>12, <1>13 DEF DispatchInvariant

-----------------------------------------------------------------------------
(***************************************************************************)
(* The theorems.                                                           *)
(***************************************************************************)
LEMMA DispatchStart == Init => DispatchInvariant
<1>. SUFFICES ASSUME Init PROVE DispatchInvariant
  OBVIOUS
<1>1. /\ setup \in [role : Role, fallback : BOOLEAN, bad : SUBSET Request, writes : BOOLEAN]
      /\ pc = "next_request" /\ at = 1 /\ work = run /\ errors = NoErrors
      /\ skills = "available" /\ output = NoResult /\ active = FALSE
      /\ run = [messages |-> <<>>, calls |-> <<>>, busy |-> FALSE, bound |-> FALSE,
                errors |-> NoErrors, merged |-> [d \in Request |-> NoResult], applied |-> {}]
  BY DEF Init
<1>2. NoErrors \in [ErrorNodes -> ErrorState]
  BY DEF NoErrors, ErrorState
<1>3. run \in Channels /\ IsInjective(run.messages) /\ ~run.busy /\ ~run.bound /\ run.applied = {}
  BY <1>1, <1>2 DEF Channels, Answer, IsInjective
<1>4. DispatchTyped
  <2>1. at \in 1..(Requests + 1) /\ pc \in Between
    BY <1>1, TeamDispatchAssumption DEF Between
  <2>2. output \in Answer /\ skills \in {"available", "selected", "loaded", "bound"}
    BY <1>1 DEF Answer
  <2>. QED  BY <1>1, <1>2, <1>3, <2>1, <2>2 DEF DispatchTyped
<1>5. HoldsOnlyWithin
  BY <1>1, <1>3 DEF HoldsOnlyWithin
<1>6. FallbackAudited
  BY <1>1, <1>3 DEF FallbackAudited, Between
<1>7. AnsweredSoFar
  <2>1. \A d \in Request : ~(d < at)
    BY <1>1 DEF Request
  <2>. QED  BY <1>1, <2>1 DEF AnsweredSoFar
<1>. QED  BY <1>4, <1>5, <1>6, <1>7 DEF DispatchInvariant

LEMMA DispatchNext ==
    ASSUME DispatchInvariant, [Next]_vars
    PROVE  DispatchInvariant'
<1>1. CASE AgentStep
  <2>1. PICK role \in Role :
            \/ ValidateInput(role) \/ BuildPrompt(role) \/ InvokeStructuredLLM(role)
            \/ ValidateOutput(role) \/ BuildDeterministicFallback(role) \/ BuildResultMessage(role)
    BY <1>1 DEF AgentStep, Role, ValidateContentInput, BuildContentPrompt, InvokeContentLLM,
       ValidateContentOutput, BuildContentFallback, BuildContentMessage, ValidateVersionInput,
       BuildVersionPrompt, InvokeVersionLLM, ValidateVersionOutput, BuildVersionFallback,
       BuildVersionMessage, ValidateEvidenceInput, BuildEvidencePrompt, InvokeEvidenceLLM,
       ValidateEvidenceOutput, BuildEvidenceFallback, BuildEvidenceMessage, ValidateJudgeInput,
       BuildJudgePrompt, InvokeJudgeLLM, ValidateJudgeOutput, BuildJudgeFallback, BuildJudgeMessage
  <2>. QED  BY <2>1, InputStep, PromptStep, InvokeModelStep, OutputStep, AgentFallbackStep, ResultStep
<1>2. CASE TeamStep
  <2>1. CASE SelectTaskSkills \/ LoadTaskSkills \/ BindTaskSkills
    BY <2>1, SelectStep, LoadStep, BindStep
  <2>2. CASE \/ ValidateSubagentPayload \/ PrepareTaskWorktree \/ LeftoverDirectoryRaises
             \/ CreateAssignmentMessage
    BY <2>2, PayloadStep, PrepareStep, LeftoverStep, AssignmentStep
  <2>3. CASE \E role \in Role : InvokeSubagentGraph(role)
    BY <2>3, InvokeGraphStep
  <2>4. CASE \/ ValidateTeamMessage \/ FallbackToCoordinator \/ BuildFallbackResultMessage
             \/ MergeSubagentArtifacts \/ ReleaseTaskSkills \/ CloseTaskWorktree
    BY <2>4, MessageStep, CoordinatorStep, CoordinatorMessageStep, MergeStep, ReleaseStep, CloseStep
  <2>. QED  BY <1>2, <2>1, <2>2, <2>3, <2>4
            DEF TeamStep, Role, InvokeContentSubagentGraph, InvokeVersionSubagentGraph,
                InvokeEvidenceSubagentGraph, InvokeJudgeSubagentGraph
<1>3. CASE BatchStep
  BY <1>3, BeginStep, EndRequestStep, EndComparisonStep, EndBatchStep, RepeatStep DEF BatchStep
<1>4. CASE UNCHANGED vars
  <2>1. UNCHANGED <<setup, pc, at, run, work, errors, skills, output, active>>
    BY <1>4 DEF vars
  <2>2. DispatchTyped' /\ FallbackAudited'
    BY <2>1 DEF DispatchInvariant, DispatchTyped, FallbackAudited
  <2>3. HoldsOnlyWithin'
    BY <2>1 DEF DispatchInvariant, HoldsOnlyWithin, Backed
  <2>4. AnsweredSoFar'
    BY <2>1 DEF DispatchInvariant, AnsweredSoFar
  <2>. QED  BY <2>2, <2>3, <2>4 DEF DispatchInvariant
<1>. QED  BY <1>1, <1>2, <1>3, <1>4 DEF Next

\* The invariant the theorems below rest on, for any number of requests and of
\* repetitions of the batch.  (team_orchestration.py)
THEOREM DelegationsKeepInvariant == Spec => []DispatchInvariant
BY DispatchStart, DispatchNext, PTL DEF Spec

\* The channels stay what the state models say; no message is there twice.
\* (merge_by_message_id)
THEOREM DispatchTypesAreKept == Spec => []TeamDispatchTypeOK
<1>1. ASSUME NEW c \in Channels, IsInjective(c.messages)
      PROVE  /\ c.errors \in [ErrorNodes -> ErrorState]
             /\ \A i \in DOMAIN c.messages : c.messages[i] \in Message
             /\ IsInjective(c.messages)
             /\ \A i \in DOMAIN c.calls : c.calls[i] \in {"success", "failed", "fallback"}
             /\ c.merged \in [Request -> Result \cup {NoResult}]
  <2>1. c.messages \in Seq(Message) /\ c.calls \in Seq(Call)
    BY DEF Channels
  <2>2. \A i \in DOMAIN c.messages : c.messages[i] \in Message
    BY <2>1
  <2>3. \A i \in DOMAIN c.calls : c.calls[i] \in Call
    BY <2>1
  <2>. QED  BY <1>1, <2>2, <2>3 DEF Channels, Answer, Call
<1>2. DispatchInvariant => TeamDispatchTypeOK
  <2>. SUFFICES ASSUME DispatchInvariant PROVE TeamDispatchTypeOK
    OBVIOUS
  <2>1. /\ run \in Channels /\ IsInjective(run.messages)
        /\ work \in Channels /\ IsInjective(work.messages)
        /\ at \in 1..(Requests + 1) /\ errors \in [ErrorNodes -> ErrorState]
        /\ output \in Result \cup {NoResult}
        /\ skills \in {"available", "selected", "loaded", "bound"}
    BY DEF DispatchInvariant, DispatchTyped, Answer
  <2>2. \A c \in {run, work} : c \in Channels /\ IsInjective(c.messages)
    BY <2>1
  <2>. QED  BY <1>1, <2>1, <2>2 DEF TeamDispatchTypeOK
<1>. QED  BY <1>2, DelegationsKeepInvariant, PTL

\* However a delegation ends, nobody stays busy, no skill stays bound and no
\* worktree stays active.  (release_task_skills, close_task_worktree, the
\* message nodes that end a member's work)
THEOREM NothingStaysHeld == Spec => []NothingHeldBetweenRequests
<1>1. DispatchInvariant => NothingHeldBetweenRequests
  BY DEF DispatchInvariant, HoldsOnlyWithin, NothingHeldBetweenRequests, Released, Unprepared,
         Unassigned, Between
<1>. QED  BY <1>1, DelegationsKeepInvariant, PTL

\* A batch whose end shows no open error of its delegations has a merged
\* result for every request: none is passed over in silence.
\* (dispatch_stage_subagent_requests)
THEOREM RequestsAreAnswered == Spec => []AnsweredUnlessStopped
<1>1. DispatchInvariant => AnsweredUnlessStopped
  BY DEF DispatchInvariant, AnsweredSoFar, AnsweredUnlessStopped, Disturbed
<1>. QED  BY <1>1, DelegationsKeepInvariant, PTL

\* Only what the model answered is applied to a comparison, although the audit
\* it is judged by belongs to the task and not to the request.
\* (has_valid_version_subagent_summary)
THEOREM FallbacksAreNotApplied == Spec => []OnlyAnswersApplied
<1>1. DispatchInvariant => OnlyAnswersApplied
  BY DEF DispatchInvariant, FallbackAudited, OnlyAnswersApplied
<1>. QED  BY <1>1, DelegationsKeepInvariant, PTL
===============================================================================
