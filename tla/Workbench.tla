------------------------------- MODULE Workbench -------------------------------
(***************************************************************************)
(* The incident workbench: one React component that drives the middleware  *)
(* by one HTTP request per step.  Its handlers are asynchronous functions: *)
(* a click sends a request, and what happens when the answer comes uses    *)
(* the values of the click, whatever the user did in the meantime.  No     *)
(* request is ever aborted, and answers come in any order.                 *)
(*                                                                         *)
(* An artefact (the incident query, the bundle, the reports, the record    *)
(* and its readback) is represented by the alert it is about, the alert    *)
(* form by the alert it describes and its graph id, the repository form by *)
(* whether it has a URI.  The repository is always the same.  The save     *)
(* form is left out: nothing but its own fields depends on it, nothing     *)
(* resets it, and a save is sent only when it is confirmed and filled in.  *)
(***************************************************************************)
EXTENDS Naturals

CONSTANTS
    Alerts,   \* what the alert form may describe
    Graphs,   \* graph ids
    Null,     \* an empty field, or an artefact that is not there
    MaxCalls  \* bound: requests in flight at a time

ASSUME WorkbenchAssumption ==
    /\ Null \notin Alerts \cup Graphs
    /\ MaxCalls \in Nat \ {0}

VARIABLES
    form,      \* repoRequest, alertEvent
    status,    \* stepLogs, by step; a failed step is as good as an idle one
    snapshot,  \* graph id of the snapshot on the screen
    shown,     \* the other artefacts on the screen, by the step they come from
    calls,     \* requests in flight
    mixed      \* an answer that a clearing had overtaken is on the screen (history)

vars == <<form, status, snapshot, shown, calls, mixed>>

Artefacts == {"submit", "evidence", "generate", "review", "save", "readback"}
Steps == Artefacts \cup {"health", "index"}

Form == [alert : Alerts \cup {Null}, graph : Graphs \cup {Null}, uri : BOOLEAN]

NoCall == [step |-> "none"]

\* late: the artefacts were cleared while the request was in flight.  A pipeline
\* knows its alert, and the graph id of the form, from the start.
AlertCall ==
    [step : Artefacts, alert : Alerts, graph : Graphs \cup {Null},
     pipeline : {FALSE}, late : BOOLEAN]
    \cup [step : {"index", "submit", "evidence", "generate", "review"}, alert : Alerts,
          graph : Graphs \cup {Null}, pipeline : {TRUE}, late : BOOLEAN]

OtherCall ==
    [step : {"health", "index", "delete"}, alert : {Null}, graph : Graphs \cup {Null},
     pipeline : {FALSE}, late : {FALSE}]

TypeOK ==
    /\ form \in Form
    /\ status \in [Steps -> {"idle", "running", "passed", "skipped"}]
    /\ snapshot \in Graphs \cup {Null}
    /\ shown \in [Artefacts -> Alerts \cup {Null}]
    /\ calls \in [1..MaxCalls -> AlertCall \cup OtherCall \cup {NoCall}]
    /\ mixed \in BOOLEAN

-----------------------------------------------------------------------------
(* Helpers.  A definition that stands just before another one, and is used  *)
(* nowhere, is a seeded bug: the mutant of the other that PROJECT.json names. *)

NewCall(step, alert, graph, pipeline) ==
    [step |-> step, alert |-> alert, graph |-> graph, pipeline |-> pipeline, late |-> FALSE]

Busy == {c \in 1..MaxCalls : calls[c] # NoCall}

\* While a graph is being deleted its dialog covers the page.
UserTurn == \A c \in Busy : calls[c].step # "delete"

\* A request takes the first free place in calls.
FirstFree(c) == c \notin Busy /\ 1..(c - 1) \subseteq Busy

Send(call) ==
    \E c \in 1..MaxCalls : FirstFree(c) /\ calls' = [calls EXCEPT ![c] = call]

\* runStep, up to the request.
Start(step, alert, graph, pipeline) ==
    /\ status[step] # "running"
    /\ status' = [status EXCEPT ![step] = "running"]
    /\ Send(NewCall(step, alert, graph, pipeline))

CanUseApi == UserTurn /\ status["health"] = "passed"
AnySubmit == CanUseApi
CanSubmit == CanUseApi /\ form.alert # Null
IsPipelineRunning == \E k \in Steps \ {"health"} : status[k] = "running"

\* clearPipelineAfter, which is called with "health" and with "index".
DownstreamOfNext(step) ==
    IF step = "health" THEN Artefacts ELSE Artefacts \ {"submit"}
Downstream(step) ==
    IF step = "health" THEN Artefacts \cup {"index"} ELSE Artefacts

Overtaken ==
    [c \in 1..MaxCalls |->
        IF c \in Busy /\ calls[c].alert # Null THEN [calls[c] EXCEPT !.late = TRUE] ELSE calls[c]]

Cleared(keys) == [k \in Artefacts |-> IF k \in keys THEN Null ELSE shown[k]]

ClearShownAfter(step, log) ==
    /\ status' = log
    /\ shown' = Cleared(Downstream(step))
    /\ calls' = Overtaken
    /\ mixed' = FALSE
ClearPipelineAfter(step, log) ==
    /\ status' = [k \in Steps |-> IF k \in Downstream(step) THEN "idle" ELSE log[k]]
    /\ shown' = Cleared(Downstream(step))
    /\ calls' = Overtaken
    /\ mixed' = FALSE

-----------------------------------------------------------------------------
\* On mount the workbench asks for the health of the backend; in development
\* React mounts it twice.
Init ==
    /\ form = [alert |-> Null, graph |-> Null, uri |-> FALSE]
    /\ status = [k \in Steps |-> IF k = "health" THEN "running" ELSE "idle"]
    /\ snapshot = Null
    /\ shown = [k \in Artefacts |-> Null]
    /\ \E n \in {1, 2} :
         calls = [c \in 1..MaxCalls |->
                    IF c <= n THEN NewCall("health", Null, Null, FALSE) ELSE NoCall]
    /\ mixed = FALSE

-----------------------------------------------------------------------------
(* The forms                                                                *)

SetRepoField ==
    /\ UserTurn
    /\ \E uri \in BOOLEAN : form' = [form EXCEPT !.uri = uri]
    /\ snapshot' = Null
    /\ ClearPipelineAfter("health", status)

\* The graph id is a field of the alert; the snapshot stays.
SetAlertField ==
    /\ UserTurn
    /\ \/ \E a \in Alerts \cup {Null} : form' = [form EXCEPT !.alert = a]
       \/ \E g \in Graphs \cup {Null} : form' = [form EXCEPT !.graph = g]
    /\ ClearPipelineAfter("index", status)
    /\ UNCHANGED snapshot

SelectStoredGraph ==
    /\ UserTurn
    /\ \E g \in Graphs : form' = [form EXCEPT !.graph = g]
    /\ snapshot' = Null
    /\ ClearPipelineAfter("index", status)

SkipIndex ==
    /\ CanUseApi
    /\ form.graph # Null
    /\ IsPipelineRunning => form.uri
    /\ snapshot' = Null
    /\ ClearPipelineAfter("index", [status EXCEPT !["index"] = "skipped"])
    /\ UNCHANGED form

\* All is forgotten but the forms, and the health is asked for.
ResetAll ==
    /\ UserTurn
    /\ \E c \in 1..MaxCalls :
         /\ FirstFree(c)
         /\ calls' = [Overtaken EXCEPT ![c] = NewCall("health", Null, Null, FALSE)]
    /\ status' = [k \in Steps |-> IF k = "health" THEN "running" ELSE "idle"]
    /\ snapshot' = Null
    /\ shown' = Cleared(Artefacts)
    /\ mixed' = FALSE
    /\ UNCHANGED form

-----------------------------------------------------------------------------
(* The buttons                                                              *)

RunHealth ==
    /\ UserTurn
    /\ Start("health", Null, Null, FALSE)
    /\ UNCHANGED <<form, snapshot, shown, mixed>>

RunIndex ==
    /\ CanUseApi /\ form.uri
    /\ Start("index", Null, Null, FALSE)
    /\ UNCHANGED <<form, snapshot, shown, mixed>>

RunSubmitAlert ==
    /\ CanSubmit
    /\ Start("submit", form.alert, form.graph, FALSE)
    /\ UNCHANGED <<form, snapshot, shown, mixed>>

\* Build evidence, Generate RCA, Review RCA: the input is the artefact shown.
Input == [evidence |-> "submit", generate |-> "evidence", review |-> "generate"]

RunOnShown(step) ==
    /\ CanUseApi
    /\ shown[Input[step]] # Null
    /\ Start(step, shown[Input[step]], Null, FALSE)
    /\ UNCHANGED <<form, snapshot, shown, mixed>>

RunSaveIncident ==
    /\ CanUseApi
    /\ shown["review"] # Null
    /\ status["readback"] # "running"
    /\ Start("save", shown["review"], Null, FALSE)
    /\ UNCHANGED <<form, snapshot, shown, mixed>>

\* The pipeline begins with the index request when there is a URI and no
\* snapshot, else with the alert and the snapshot's graph, or the form's.
RunFullPipeline ==
    /\ CanSubmit
    /\ form.uri \/ form.graph # Null
    /\ ~ IsPipelineRunning
    /\ IF snapshot = Null /\ form.uri
       THEN Start("index", form.alert, form.graph, TRUE)
       ELSE Start("submit", form.alert, IF snapshot # Null THEN snapshot ELSE form.graph, TRUE)
    /\ UNCHANGED <<form, snapshot, shown, mixed>>

\* Once the graph is deleted, the alert form loses it if it named it.
ConfirmDeleteGraph ==
    /\ UserTurn
    /\ \E g \in Graphs :
         Send(NewCall("delete", Null, IF form.graph = g THEN g ELSE Null, FALSE))
    /\ UNCHANGED <<form, status, snapshot, shown, mixed>>

-----------------------------------------------------------------------------
(* The answers                                                              *)

After == [index |-> "submit", submit |-> "evidence", evidence |-> "generate",
          generate |-> "review", save |-> "readback"]

\* A step has passed.  The pipeline goes on to the next one with what this one
\* returned; a saved incident is read back.
PassedWithShown(c, graph) ==
    LET f == calls[c] IN
    IF (f.pipeline /\ f.step # "review") \/ f.step = "save"
    THEN /\ status' = [status EXCEPT ![f.step] = "passed", ![After[f.step]] = "running"]
         /\ calls' = [calls EXCEPT ![c] = [f EXCEPT !.step = After[f.step], !.graph = graph,
                 !.alert = IF f.step \in Artefacts /\ shown[f.step] # Null THEN shown[f.step] ELSE @]]
    ELSE /\ status' = [status EXCEPT ![f.step] = "passed"]
         /\ calls' = [calls EXCEPT ![c] = NoCall]
Passed(c, graph) ==
    LET f == calls[c] IN
    IF (f.pipeline /\ f.step # "review") \/ f.step = "save"
    THEN /\ status' = [status EXCEPT ![f.step] = "passed", ![After[f.step]] = "running"]
         /\ calls' = [calls EXCEPT ![c] = [f EXCEPT !.step = After[f.step], !.graph = graph]]
    ELSE /\ status' = [status EXCEPT ![f.step] = "passed"]
         /\ calls' = [calls EXCEPT ![c] = NoCall]

HealthKnown(c) ==
    /\ calls[c].step = "health"
    /\ Passed(c, Null)
    /\ UNCHANGED <<form, snapshot, shown, mixed>>

Indexed(c) ==
    /\ calls[c].step = "index"
    /\ \E g \in Graphs :
         /\ snapshot' = g
         /\ form' = [form EXCEPT !.graph = g]
         /\ Passed(c, g)
    /\ UNCHANGED <<shown, mixed>>

\* The artefact is shown, whether or not it still belongs to the form.  The
\* query of an alert brings its graph id back into the form.
Answered(c) ==
    LET f == calls[c] IN
    /\ f.step \in Artefacts
    /\ shown' = [shown EXCEPT ![f.step] = f.alert]
    /\ mixed' = (mixed \/ f.late)
    /\ form' = IF f.step = "submit" /\ f.graph # Null
               THEN [form EXCEPT !.graph = f.graph] ELSE form
    /\ Passed(c, Null)
    /\ UNCHANGED snapshot

Deleted(c) ==
    /\ calls[c].step = "delete"
    /\ form' = IF calls[c].graph # Null THEN [form EXCEPT !.graph = Null] ELSE form
    /\ calls' = [calls EXCEPT ![c] = NoCall]
    /\ UNCHANGED <<status, snapshot, shown, mixed>>

FailedSilently(c) ==
    /\ c \in Busy
    /\ calls' = [calls EXCEPT ![c] = NoCall]
    /\ UNCHANGED <<form, status, snapshot, shown, mixed>>

\* An error response, or none: the step fails, and with it the pipeline.
Failed(c) ==
    /\ c \in Busy
    /\ status' = IF calls[c].step = "delete" THEN status
                 ELSE [status EXCEPT ![calls[c].step] = "idle"]
    /\ calls' = [calls EXCEPT ![c] = NoCall]
    /\ UNCHANGED <<form, snapshot, shown, mixed>>

-----------------------------------------------------------------------------
User ==
    \/ SetRepoField \/ SetAlertField \/ SelectStoredGraph \/ SkipIndex
    \/ ResetAll \/ RunHealth \/ RunIndex \/ RunSubmitAlert
    \/ \E step \in DOMAIN Input : RunOnShown(step)
    \/ RunSaveIncident \/ RunFullPipeline \/ ConfirmDeleteGraph

Response(c) == HealthKnown(c) \/ Indexed(c) \/ Answered(c) \/ Deleted(c) \/ Failed(c)

Next == User \/ \E c \in 1..MaxCalls : Response(c)

Spec == Init /\ [][Next]_vars

-----------------------------------------------------------------------------
(* Properties                                                               *)

\* Unless an answer has come to a request that was sent before the artefacts
\* were last cleared, every artefact on the screen is about the alert in the
\* form: each edit clears all of them, and no button mixes two alerts.
ShownMatchesForm ==
    ~ mixed => \A k \in Artefacts : shown[k] \in {Null, form.alert}

\* A step is logged as passed only while its artefact is on the screen, in
\* whatever order edits, resets and late answers come.
PassedIsShown ==
    \A k \in Artefacts : status[k] = "passed" => shown[k] # Null

\* A pipeline ends with the alert it began with: each of its requests is about
\* that alert, although the artefacts on the screen may have been cleared or
\* replaced by then; and a saved incident is read back as the one it is.
PipelineKeepsItsAlert ==
    [][\A c \in Busy : calls'[c] # NoCall => calls'[c].alert = calls[c].alert]_vars

\* A step is logged as running, and its button disabled, only while a request
\* of it is in flight: no answer is missed, even when answers of the same step
\* overtake each other, so no button stays disabled.
RunningIsInFlight ==
    \A k \in Steps : status[k] = "running" => \E c \in Busy : calls[c].step = k

\* After "Use existing graph" the pipeline is run for the graph of the alert.
SkippedIndexIsNotRun ==
    [][\A c \in 1..MaxCalls :
          c \notin Busy /\ calls'[c] # NoCall /\ calls'[c].pipeline /\ status["index"] = "skipped"
            => calls'[c].step = "submit" /\ calls'[c].graph = form.graph]_vars
=============================================================================
