--------------------------- MODULE WorkbenchProofs ---------------------------
(***************************************************************************)
(* Proofs about the workbench, for every set of alerts and graphs and any  *)
(* number of requests in flight.                                           *)
(***************************************************************************)
EXTENDS Workbench, TLAPS

\* A request that no clearing has overtaken is about the alert in the form.
CallsMatchForm ==
    \A c \in Busy :
        ~ mixed /\ ~ calls[c].late => calls[c].alert \in {Null, form.alert}

IInv ==
    /\ TypeOK
    /\ ShownMatchesForm
    /\ CallsMatchForm
    /\ PassedIsShown
    /\ RunningIsInFlight

\* What the steps of the buttons do: one step is running that was not, and its
\* request takes a free place.
Sends(step, alert, graph, pipeline) ==
    /\ status[step] # "running"
    /\ status' = [status EXCEPT ![step] = "running"]
    /\ \E c \in (1..MaxCalls) \ Busy :
         calls' = [calls EXCEPT ![c] = NewCall(step, alert, graph, pipeline)]

LEMMA StartSends ==
    ASSUME NEW step, NEW alert, NEW graph, NEW pipeline, Start(step, alert, graph, pipeline)
    PROVE  Sends(step, alert, graph, pipeline)
BY DEF Start, Send, FirstFree, Sends

\* A request of a step that has an artefact, and of a pipeline, is about an
\* alert.
Proper(step, alert, pipeline) ==
    /\ pipeline => step \in {"index", "submit"} /\ alert \in Alerts
    /\ ~ pipeline => IF step \in Artefacts THEN alert \in Alerts ELSE alert = Null

LEMMA NewCallType ==
    ASSUME NEW step \in Steps, NEW alert \in Alerts \cup {Null}, NEW graph \in Graphs \cup {Null},
           NEW pipeline \in BOOLEAN, Proper(step, alert, pipeline)
    PROVE  NewCall(step, alert, graph, pipeline) \in AlertCall \cup OtherCall
BY DEF Proper, NewCall, AlertCall, OtherCall, Steps, Artefacts

\* Such a step keeps the invariant when the request is about the form's alert,
\* or about an artefact shown.
LEMMA StartKeeps ==
    ASSUME IInv, NEW step \in Steps, NEW alert \in Alerts \cup {Null},
           NEW graph \in Graphs \cup {Null}, NEW pipeline \in BOOLEAN,
           Proper(step, alert, pipeline),
           ~ mixed => alert \in {Null, form.alert},
           Start(step, alert, graph, pipeline),
           UNCHANGED <<form, snapshot, shown, mixed>>
    PROVE  IInv'
<1>. DEFINE new == NewCall(step, alert, graph, pipeline)
<1>1. PICK c \in (1..MaxCalls) \ Busy : calls' = [calls EXCEPT ![c] = new]
  BY StartSends DEF Sends
<1>2. status' = [status EXCEPT ![step] = "running"]
  BY DEF Start
<1>3. new \in AlertCall \cup OtherCall /\ new # NoCall
  BY NewCallType DEF NewCall, NoCall
<1>4. new.step = step /\ new.alert = alert /\ new.late = FALSE
  BY DEF NewCall
<1>. HIDE DEF new
<1>5. calls'[c] = new /\ \A d \in (1..MaxCalls) \ {c} : calls'[d] = calls[d]
  BY <1>1 DEF IInv, TypeOK
<1>6. Busy' = Busy \cup {c}
  BY <1>1, <1>3, <1>5 DEF Busy
<1>7. TypeOK'
  BY <1>1, <1>2, <1>3 DEF IInv, TypeOK
<1>8. ShownMatchesForm'
  BY DEF IInv, ShownMatchesForm
<1>9. CallsMatchForm'
  BY <1>1, <1>4, <1>5, <1>6 DEF IInv, CallsMatchForm, Busy
<1>10. PassedIsShown'
  BY <1>2 DEF IInv, TypeOK, PassedIsShown
<1>11. RunningIsInFlight'
  BY <1>1, <1>2, <1>4, <1>5, <1>6 DEF IInv, TypeOK, RunningIsInFlight, Busy
<1>. QED
  BY <1>7, <1>8, <1>9, <1>10, <1>11 DEF IInv

-----------------------------------------------------------------------------
(* The clearings.                                                           *)

LEMMA OvertakenCalls ==
    ASSUME TypeOK
    PROVE  /\ Overtaken \in [1..MaxCalls -> AlertCall \cup OtherCall \cup {NoCall}]
           /\ \A c \in 1..MaxCalls : Overtaken[c] = NoCall <=> calls[c] = NoCall
           /\ \A c \in Busy : Overtaken[c].step = calls[c].step
           /\ \A c \in Busy : Overtaken[c].late = TRUE \/ Overtaken[c].alert = Null
<1>. SUFFICES ASSUME NEW c \in 1..MaxCalls
     PROVE  /\ Overtaken[c] \in AlertCall \cup OtherCall \cup {NoCall}
            /\ Overtaken[c] = NoCall <=> calls[c] = NoCall
            /\ calls[c] # NoCall => Overtaken[c].step = calls[c].step
            /\ calls[c] # NoCall => Overtaken[c].late = TRUE \/ Overtaken[c].alert = Null
  BY DEF Overtaken, Busy
<1>. USE DEF TypeOK, Overtaken, Busy, NoCall, AlertCall, OtherCall
<1>1. CASE calls[c] \in AlertCall
  BY <1>1
<1>2. CASE calls[c] \in OtherCall
  BY <1>2
<1>3. CASE calls[c] = NoCall
  BY <1>3
<1>. QED
  BY <1>1, <1>2, <1>3

\* A clearing keeps the invariant whatever becomes of the forms.
LEMMA ClearKeeps ==
    ASSUME IInv, NEW step \in {"health", "index"}, NEW log,
           log \in [Steps -> {"idle", "running", "passed", "skipped"}],
           \A k \in Steps : log[k] \in {status[k], "skipped"},
           ClearPipelineAfter(step, log),
           form' \in Form, snapshot' \in Graphs \cup {Null}
    PROVE  IInv'
<1>. USE DEF ClearPipelineAfter
<1>1. Artefacts \subseteq Downstream(step) /\ Downstream(step) \subseteq Steps
  BY DEF Downstream, Steps, Artefacts
<1>2. shown' = [k \in Artefacts |-> Null]
  BY <1>1 DEF Cleared
<1>3. TypeOK'
  BY <1>2, OvertakenCalls DEF IInv, TypeOK
<1>4. Busy' = Busy
  BY OvertakenCalls DEF IInv, Busy
<1>5. ShownMatchesForm'
  BY <1>2 DEF ShownMatchesForm
<1>6. CallsMatchForm'
  BY <1>4, OvertakenCalls DEF IInv, CallsMatchForm
<1>7. PassedIsShown'
  BY <1>1 DEF PassedIsShown, Steps
<1>8. RunningIsInFlight'
  <2>. SUFFICES ASSUME NEW k \in Steps, status'[k] = "running"
       PROVE  \E c \in Busy : Overtaken[c].step = k
    BY <1>4 DEF RunningIsInFlight
  <2>1. status[k] = "running"
    OBVIOUS
  <2>. QED
    <3>1. PICK c \in Busy : calls[c].step = k
      BY <2>1 DEF IInv, RunningIsInFlight
    <3>. QED
      BY <3>1, OvertakenCalls DEF IInv
<1>. QED
  BY <1>3, <1>5, <1>6, <1>7, <1>8 DEF IInv

\* A reset keeps it: the new health request is in flight.
LEMMA ResetKeeps ==
    ASSUME IInv, ResetAll
    PROVE  IInv'
<1>. DEFINE new == NewCall("health", Null, Null, FALSE)
<1>1. PICK c \in 1..MaxCalls : c \notin Busy /\ calls' = [Overtaken EXCEPT ![c] = new]
  BY DEF ResetAll, FirstFree
<1>2. /\ new \in OtherCall /\ new # NoCall
      /\ new.step = "health" /\ new.alert = Null
  BY DEF NewCall, OtherCall, NoCall
<1>. HIDE DEF new
<1>3. /\ status' = [k \in Steps |-> IF k = "health" THEN "running" ELSE "idle"]
      /\ shown' = [k \in Artefacts |-> Null]
      /\ form' = form /\ snapshot' = Null /\ mixed' = FALSE
  BY DEF ResetAll, Cleared
<1>4. /\ Overtaken \in [1..MaxCalls -> AlertCall \cup OtherCall \cup {NoCall}]
      /\ \A d \in 1..MaxCalls : Overtaken[d] = NoCall <=> calls[d] = NoCall
      /\ \A d \in Busy : Overtaken[d].late = TRUE \/ Overtaken[d].alert = Null
  BY OvertakenCalls DEF IInv
<1>5. calls'[c] = new /\ \A d \in (1..MaxCalls) \ {c} : calls'[d] = Overtaken[d]
  BY <1>1, <1>4
<1>6. Busy' = Busy \cup {c}
  BY <1>2, <1>4, <1>5 DEF Busy
<1>7. TypeOK'
  BY <1>1, <1>2, <1>3, <1>4 DEF IInv, TypeOK
<1>8. ShownMatchesForm' /\ PassedIsShown'
  BY <1>3 DEF ShownMatchesForm, PassedIsShown, Steps, Artefacts
<1>9. CallsMatchForm'
  BY <1>2, <1>4, <1>5, <1>6 DEF CallsMatchForm, Busy
<1>10. RunningIsInFlight'
  BY <1>2, <1>3, <1>5, <1>6 DEF RunningIsInFlight
<1>. QED
  BY <1>7, <1>8, <1>9, <1>10 DEF IInv

\* So does the request that deletes a graph.
LEMMA DeleteKeeps ==
    ASSUME IInv, ConfirmDeleteGraph
    PROVE  IInv'
<1>1. PICK g \in Graphs : Send(NewCall("delete", Null, IF form.graph = g THEN g ELSE Null, FALSE))
  BY DEF ConfirmDeleteGraph
<1>. DEFINE new == NewCall("delete", Null, IF form.graph = g THEN g ELSE Null, FALSE)
<1>2. PICK c \in 1..MaxCalls : c \notin Busy /\ calls' = [calls EXCEPT ![c] = new]
  BY <1>1 DEF Send, FirstFree
<1>3. new \in OtherCall /\ new # NoCall /\ new.alert = Null
  BY DEF NewCall, OtherCall, NoCall
<1>. HIDE DEF new
<1>4. calls'[c] = new /\ \A d \in (1..MaxCalls) \ {c} : calls'[d] = calls[d]
  BY <1>2 DEF IInv, TypeOK
<1>5. Busy' = Busy \cup {c}
  BY <1>2, <1>3, <1>4 DEF Busy
<1>6. UNCHANGED <<form, status, snapshot, shown, mixed>>
  BY DEF ConfirmDeleteGraph
<1>7. TypeOK'
  BY <1>2, <1>3, <1>6 DEF IInv, TypeOK
<1>8. ShownMatchesForm' /\ PassedIsShown'
  BY <1>6 DEF IInv, ShownMatchesForm, PassedIsShown
<1>9. CallsMatchForm'
  BY <1>2, <1>3, <1>4, <1>5, <1>6 DEF IInv, CallsMatchForm, Busy
<1>10. RunningIsInFlight'
  BY <1>2, <1>4, <1>5, <1>6 DEF IInv, RunningIsInFlight, Busy
<1>. QED
  BY <1>7, <1>8, <1>9, <1>10 DEF IInv

-----------------------------------------------------------------------------
(* The answers.                                                             *)

\* A step that passed, with its artefact on the screen if it has one, keeps
\* the invariant.
LEMMA PassedKeeps ==
    ASSUME IInv, NEW c \in Busy, NEW graph \in Graphs \cup {Null},
           Passed(c, graph),
           form' \in Form, form'.alert = form.alert, snapshot' \in Graphs \cup {Null},
           \/ calls[c].step \notin Artefacts /\ UNCHANGED <<shown, mixed>>
           \/ /\ calls[c].step \in Artefacts
              /\ shown' = [shown EXCEPT ![calls[c].step] = calls[c].alert]
              /\ mixed' = (mixed \/ calls[c].late)
    PROVE  IInv'
<1>. DEFINE f == calls[c]
            goes == (f.pipeline /\ f.step # "review") \/ f.step = "save"
            next == [f EXCEPT !.step = After[f.step], !.graph = graph]
<1>1. f \in AlertCall \cup OtherCall
  BY DEF IInv, TypeOK, Busy
<1>2. /\ shown' \in [Artefacts -> Alerts \cup {Null}]
      /\ mixed' \in BOOLEAN
      /\ \A k \in Artefacts : k # f.step => shown'[k] = shown[k]
      /\ f.step \in Artefacts => shown'[f.step] = f.alert /\ f.alert \in Alerts
  <2>1. CASE f.step \in Artefacts
    <3>1. f.alert \in Alerts /\ f.late \in BOOLEAN
      BY <1>1, <2>1 DEF AlertCall, OtherCall, Artefacts
    <3>. QED
      BY <2>1, <3>1 DEF IInv, TypeOK
  <2>2. CASE f.step \notin Artefacts
    BY <2>2 DEF IInv, TypeOK
  <2>. QED
    BY <2>1, <2>2
<1>3. ~ mixed' => ~ mixed
  OBVIOUS
<1>4. ShownMatchesForm'
  BY <1>2, <1>3 DEF IInv, CallsMatchForm, ShownMatchesForm
<1>5. CASE goes
  <2>1. f \in AlertCall /\ f.step \in DOMAIN After
    BY <1>1, <1>5 DEF AlertCall, OtherCall, After, Artefacts
  <2>2. After[f.step] \in Artefacts /\ After[f.step] # f.step
    BY <2>1 DEF After, Artefacts
  <2>3. /\ next \in AlertCall /\ next # NoCall
        /\ next.step = After[f.step] /\ next.alert = f.alert /\ next.late = f.late
    <3>1. CASE f \in [step : Artefacts, alert : Alerts, graph : Graphs \cup {Null},
                      pipeline : {FALSE}, late : BOOLEAN]
      BY <2>2, <3>1 DEF AlertCall, NoCall
    <3>2. CASE f \in [step : {"index", "submit", "evidence", "generate", "review"},
                      alert : Alerts, graph : Graphs \cup {Null}, pipeline : {TRUE}, late : BOOLEAN]
      <4>1. f.step \in {"index", "submit", "evidence", "generate"}
        BY <1>5, <3>2
      <4>2. After[f.step] \in {"submit", "evidence", "generate", "review"}
        BY <4>1 DEF After
      <4>. QED
        BY <2>2, <3>2, <4>2 DEF AlertCall, NoCall
    <3>. QED
      BY <2>1, <3>1, <3>2 DEF AlertCall
  <2>. HIDE DEF next
  <2>4. /\ status' = [status EXCEPT ![f.step] = "passed", ![After[f.step]] = "running"]
        /\ calls' = [calls EXCEPT ![c] = next]
    BY <1>5 DEF Passed, next
  <2>5. calls'[c] = next /\ \A d \in (1..MaxCalls) \ {c} : calls'[d] = calls[d]
    BY <2>4 DEF IInv, TypeOK, Busy
  <2>6. Busy' = Busy
    BY <2>3, <2>4, <2>5 DEF Busy
  <2>7. TypeOK'
    BY <1>2, <2>2, <2>3, <2>4 DEF IInv, TypeOK, Steps
  <2>8. CallsMatchForm'
    BY <1>3, <2>3, <2>5, <2>6 DEF IInv, CallsMatchForm, Busy
  <2>9. PassedIsShown'
    BY <1>1, <1>2, <2>1, <2>2, <2>4, WorkbenchAssumption DEF IInv, TypeOK, PassedIsShown, Steps
  <2>10. RunningIsInFlight'
    BY <2>2, <2>3, <2>4, <2>5, <2>6 DEF IInv, TypeOK, RunningIsInFlight, Busy, Steps
  <2>. QED
    BY <1>4, <2>7, <2>8, <2>9, <2>10 DEF IInv
<1>6. CASE ~ goes
  <2>1. /\ status' = [status EXCEPT ![f.step] = "passed"]
        /\ calls' = [calls EXCEPT ![c] = NoCall]
    BY <1>6 DEF Passed
  <2>2. calls'[c] = NoCall /\ \A d \in (1..MaxCalls) \ {c} : calls'[d] = calls[d]
    BY <2>1 DEF IInv, TypeOK, Busy
  <2>3. Busy' = Busy \ {c}
    BY <2>1, <2>2 DEF Busy
  <2>4. TypeOK'
    BY <1>2, <2>1 DEF IInv, TypeOK
  <2>5. CallsMatchForm'
    BY <1>3, <2>2, <2>3 DEF IInv, CallsMatchForm, Busy
  <2>6. PassedIsShown'
    BY <1>1, <1>2, <2>1, WorkbenchAssumption DEF IInv, TypeOK, PassedIsShown, Steps
  <2>7. RunningIsInFlight'
    BY <2>1, <2>2, <2>3 DEF IInv, TypeOK, RunningIsInFlight, Busy
  <2>. QED
    BY <1>4, <2>4, <2>5, <2>6, <2>7 DEF IInv
<1>. QED
  BY <1>5, <1>6

\* A request that ends, with its step not running any more, keeps the invariant.
LEMMA EndKeeps ==
    ASSUME IInv, NEW c \in Busy,
           calls' = [calls EXCEPT ![c] = NoCall],
           \/ calls[c].step = "delete" /\ status' = status
           \/ status' = [status EXCEPT ![calls[c].step] = "idle"],
           form' \in Form, form'.alert = form.alert, UNCHANGED <<snapshot, shown, mixed>>
    PROVE  IInv'
<1>1. calls'[c] = NoCall /\ \A d \in (1..MaxCalls) \ {c} : calls'[d] = calls[d]
  BY DEF IInv, TypeOK, Busy
<1>2. Busy' = Busy \ {c}
  BY <1>1 DEF Busy
<1>3. /\ status' \in [Steps -> {"idle", "running", "passed", "skipped"}]
      /\ \A k \in Steps : status'[k] \in {status[k], "idle"}
      /\ \A k \in Steps : calls[c].step = k => status'[k] = "idle"
  BY DEF IInv, TypeOK, Steps, Artefacts
<1>4. TypeOK'
  BY <1>3 DEF IInv, TypeOK
<1>5. ShownMatchesForm'
  BY DEF IInv, ShownMatchesForm
<1>6. CallsMatchForm'
  BY <1>1, <1>2 DEF IInv, CallsMatchForm, Busy
<1>7. PassedIsShown'
  BY <1>3 DEF IInv, PassedIsShown, Steps
<1>8. RunningIsInFlight'
  <2>. SUFFICES ASSUME NEW k \in Steps, status'[k] = "running"
       PROVE  \E d \in Busy \ {c} : calls[d].step = k
    BY <1>1, <1>2 DEF RunningIsInFlight, Busy
  <2>. QED
    BY <1>3 DEF IInv, RunningIsInFlight
<1>. QED
  BY <1>4, <1>5, <1>6, <1>7, <1>8 DEF IInv

-----------------------------------------------------------------------------
(* The invariant.                                                           *)

LEMMA InitInvariant == Init => IInv
<1>. SUFFICES ASSUME Init PROVE IInv
  OBVIOUS
<1>. USE DEF Init
<1>1. PICK n \in {1, 2} : calls = [c \in 1..MaxCalls |->
              IF c <= n THEN NewCall("health", Null, Null, FALSE) ELSE NoCall]
  OBVIOUS
<1>2. /\ NewCall("health", Null, Null, FALSE) \in OtherCall
      /\ NewCall("health", Null, Null, FALSE).alert = Null
      /\ NewCall("health", Null, Null, FALSE).step = "health"
      /\ NewCall("health", Null, Null, FALSE) # NoCall
  BY DEF NewCall, OtherCall, NoCall
<1>3. TypeOK
  BY <1>1, <1>2 DEF TypeOK, Form
<1>4. ShownMatchesForm /\ PassedIsShown
  BY DEF ShownMatchesForm, PassedIsShown, Steps, Artefacts
<1>5. CallsMatchForm
  BY <1>1, <1>2 DEF CallsMatchForm, Busy
<1>6. RunningIsInFlight
  <2>1. 1 \in Busy /\ calls[1].step = "health"
    <3>1. 1 \in 1..MaxCalls /\ 1 <= n
      BY WorkbenchAssumption
    <3>2. calls[1] = NewCall("health", Null, Null, FALSE)
      BY <1>1, <3>1
    <3>. QED
      BY <1>2, <3>1, <3>2 DEF Busy
  <2>. QED
    BY <2>1 DEF RunningIsInFlight
<1>. QED
  BY <1>3, <1>4, <1>5, <1>6 DEF IInv

LEMMA NextInvariant == IInv /\ [Next]_vars => IInv'
<1>. SUFFICES ASSUME IInv, [Next]_vars PROVE IInv'
  OBVIOUS
<1>0. /\ form \in Form /\ snapshot \in Graphs \cup {Null}
      /\ status \in [Steps -> {"idle", "running", "passed", "skipped"}]
      /\ form.alert \in Alerts \cup {Null} /\ form.graph \in Graphs \cup {Null}
      /\ \A k \in Artefacts : shown[k] \in Alerts \cup {Null}
      /\ \A k \in Artefacts : ~ mixed => shown[k] \in {Null, form.alert}
      /\ \A c \in Busy : calls[c] \in AlertCall \cup OtherCall
      /\ Null \notin Alerts
  BY WorkbenchAssumption DEF IInv, TypeOK, Form, ShownMatchesForm, Busy
<1>1. CASE SetRepoField
  BY <1>0, <1>1, ClearKeeps DEF SetRepoField, Form
<1>2. CASE SetAlertField
  BY <1>0, <1>2, ClearKeeps DEF SetAlertField, Form
<1>3. CASE SelectStoredGraph
  BY <1>0, <1>3, ClearKeeps DEF SelectStoredGraph, Form
<1>4. CASE SkipIndex
  <2>. DEFINE log == [status EXCEPT !["index"] = "skipped"]
  <2>1. /\ log \in [Steps -> {"idle", "running", "passed", "skipped"}]
        /\ \A k \in Steps : log[k] \in {status[k], "skipped"}
    BY <1>0 DEF Steps
  <2>. QED
    BY <1>0, <1>4, <2>1, ClearKeeps DEF SkipIndex
<1>5. CASE ResetAll
  BY <1>5, ResetKeeps
<1>6. CASE RunHealth
  BY <1>6, StartKeeps DEF RunHealth, Proper, Steps, Artefacts
<1>7. CASE RunIndex
  BY <1>7, StartKeeps DEF RunIndex, Proper, Steps, Artefacts
<1>8. CASE RunSubmitAlert
  BY <1>0, <1>8, StartKeeps DEF RunSubmitAlert, CanSubmit, Proper, Steps, Artefacts
<1>9. ASSUME NEW step \in DOMAIN Input, RunOnShown(step) PROVE IInv'
  <2>1. step \in Artefacts /\ Input[step] \in Artefacts
    BY DEF Input, Artefacts
  <2>. QED
    BY <1>0, <1>9, <2>1, StartKeeps DEF RunOnShown, Proper, Steps
<1>10. CASE RunSaveIncident
  BY <1>0, <1>10, StartKeeps DEF RunSaveIncident, Proper, Steps, Artefacts
<1>11. CASE RunFullPipeline
  BY <1>0, <1>11, StartKeeps DEF RunFullPipeline, CanSubmit, Proper, Steps, Artefacts
<1>12. CASE ConfirmDeleteGraph
  BY <1>12, DeleteKeeps
<1>13. ASSUME NEW c \in 1..MaxCalls, HealthKnown(c) PROVE IInv'
  <2>1. c \in Busy /\ calls[c].step \notin Artefacts
    BY <1>13 DEF HealthKnown, Busy, NoCall, Artefacts
  <2>. QED
    BY <1>0, <1>13, <2>1, PassedKeeps DEF HealthKnown
<1>14. ASSUME NEW c \in 1..MaxCalls, Indexed(c) PROVE IInv'
  <2>1. c \in Busy /\ calls[c].step \notin Artefacts
    BY <1>14 DEF Indexed, Busy, NoCall, Artefacts
  <2>2. PICK g \in Graphs : /\ snapshot' = g
                            /\ form' = [form EXCEPT !.graph = g]
                            /\ Passed(c, g)
    BY <1>14 DEF Indexed
  <2>3. form' \in Form /\ form'.alert = form.alert
    BY <1>0, <2>2 DEF Form
  <2>. QED
    BY <1>14, <2>1, <2>2, <2>3, PassedKeeps DEF Indexed
<1>15. ASSUME NEW c \in 1..MaxCalls, Answered(c) PROVE IInv'
  <2>1. c \in Busy
    BY <1>15 DEF Answered, Busy, NoCall, Artefacts
  <2>2. calls[c].graph \in Graphs \cup {Null}
    BY <1>0, <2>1 DEF AlertCall, OtherCall
  <2>3. form' \in Form /\ form'.alert = form.alert
    BY <1>0, <1>15, <2>2 DEF Answered, Form
  <2>. QED
    BY <1>0, <1>15, <2>1, <2>3, PassedKeeps DEF Answered
<1>16. ASSUME NEW c \in 1..MaxCalls, Deleted(c) PROVE IInv'
  <2>1. c \in Busy
    BY <1>16 DEF Deleted, Busy, NoCall
  <2>2. form' \in Form /\ form'.alert = form.alert
    BY <1>0, <1>16 DEF Deleted, Form
  <2>. QED
    BY <1>16, <2>1, <2>2, EndKeeps DEF Deleted
<1>17. ASSUME NEW c \in 1..MaxCalls, Failed(c) PROVE IInv'
  BY <1>0, <1>17, EndKeeps DEF Failed
<1>18. CASE UNCHANGED vars
  BY <1>18 DEF vars, IInv, TypeOK, ShownMatchesForm, CallsMatchForm, PassedIsShown,
     RunningIsInFlight, Busy
<1>. QED
  BY <1>1, <1>2, <1>3, <1>4, <1>5, <1>6, <1>7, <1>8, <1>9, <1>10, <1>11, <1>12, <1>13, <1>14,
     <1>15, <1>16, <1>17, <1>18 DEF Next, User, Response

-----------------------------------------------------------------------------
(* The theorems.                                                            *)

THEOREM Invariance == Spec => []IInv
  BY InitInvariant, NextInvariant, PTL DEF Spec

\* For any number of requests in flight, the artefacts on the screen are about
\* the alert in the form until an overtaken answer comes.
THEOREM ScreenMatchesForm == Spec => []ShownMatchesForm
  BY Invariance, PTL DEF IInv

\* A step is passed only while its artefact is on the screen.
THEOREM PassedStepsAreShown == Spec => []PassedIsShown
  BY Invariance, PTL DEF IInv

\* A step is running only while a request of it is in flight.
THEOREM RunningStepsAreInFlight == Spec => []RunningIsInFlight
  BY Invariance, PTL DEF IInv

\* The state is well formed.
THEOREM TypeCorrect == Spec => []TypeOK
  BY Invariance, PTL DEF IInv

\* A request that is answered is followed, in its place, by nothing or by the
\* next one about the same alert.
LEMMA PassedAlert ==
    ASSUME TypeOK, NEW c \in Busy, NEW graph, Passed(c, graph), NEW d \in Busy, calls'[d] # NoCall
    PROVE  calls'[d].alert = calls[d].alert
<1>. DEFINE next == [calls[c] EXCEPT !.step = After[calls[c].step], !.graph = graph]
<1>1. calls[c] \in AlertCall \cup OtherCall
  BY DEF TypeOK, Busy
<1>2. next.alert = calls[c].alert
  BY <1>1 DEF AlertCall, OtherCall
<1>. HIDE DEF next
<1>3. calls' \in {[calls EXCEPT ![c] = next], [calls EXCEPT ![c] = NoCall]}
  BY DEF Passed, next
<1>. QED
  BY <1>2, <1>3 DEF TypeOK, Busy

\* A pipeline, and a readback, are about the alert they began with.
THEOREM PipelinesKeepTheirAlert == Spec => PipelineKeepsItsAlert
<1>1. ASSUME TypeOK, [Next]_vars
      PROVE  [\A c \in Busy : calls'[c] # NoCall => calls'[c].alert = calls[c].alert]_vars
  <2>. SUFFICES ASSUME Next, NEW d \in Busy, calls'[d] # NoCall
       PROVE  calls'[d].alert = calls[d].alert
    BY <1>1
  <2>1. CASE calls' = Overtaken
    <3>1. \A c \in 1..MaxCalls : Overtaken[c] # NoCall => Overtaken[c].alert = calls[c].alert
      BY <1>1 DEF Overtaken, TypeOK, Busy, AlertCall, OtherCall
    <3>. QED
      BY <2>1, <3>1 DEF Busy
  <2>2. CASE ResetAll
    <3>1. \A c \in Busy : Overtaken[c].alert = calls[c].alert
      BY <1>1 DEF Overtaken, TypeOK, Busy, AlertCall, OtherCall
    <3>2. PICK c \in 1..MaxCalls :
             /\ c \notin Busy
             /\ calls' = [Overtaken EXCEPT ![c] = NewCall("health", Null, Null, FALSE)]
      BY <2>2 DEF ResetAll, FirstFree
    <3>3. calls'[d] = Overtaken[d]
      BY <3>2 DEF Overtaken, Busy
    <3>. QED
      BY <3>1, <3>3
  <2>3. ASSUME NEW call, Send(call) PROVE calls'[d].alert = calls[d].alert
    BY <1>1, <2>3 DEF Send, FirstFree, TypeOK
  <2>4. ASSUME NEW c \in Busy, NEW graph, Passed(c, graph) PROVE calls'[d].alert = calls[d].alert
    BY <1>1, <2>4, PassedAlert
  <2>5. ASSUME NEW c \in Busy, calls' = [calls EXCEPT ![c] = NoCall]
        PROVE  calls'[d].alert = calls[d].alert
    BY <1>1, <2>5 DEF TypeOK, Busy
  <2>6. ASSUME NEW c \in 1..MaxCalls, Response(c) PROVE calls'[d].alert = calls[d].alert
    <3>1. c \in Busy
      BY <2>6 DEF Response, HealthKnown, Indexed, Answered, Deleted, Failed, Busy, NoCall, Artefacts
    <3>. QED
      BY <2>4, <2>5, <2>6, <3>1 DEF Response, HealthKnown, Indexed, Answered, Deleted, Failed
  <2>7. CASE User
    BY <2>1, <2>2, <2>3, <2>7 DEF User, SetRepoField, SetAlertField, SelectStoredGraph,
       SkipIndex, ClearPipelineAfter, RunHealth, RunIndex, RunSubmitAlert, RunOnShown,
       RunSaveIncident, RunFullPipeline, ConfirmDeleteGraph, Start
  <2>. QED
    BY <2>6, <2>7 DEF Next
<1>. QED
  BY <1>1, TypeCorrect, PTL DEF Spec, PipelineKeepsItsAlert
-----------------------------------------------------------------------------
(* The pipeline after an index step that was skipped.                       *)

\* "Use existing graph" leaves no snapshot on the screen, and none comes while
\* the step is skipped.
SkippedHasNoSnapshot == status["index"] = "skipped" => snapshot = Null

\* A snapshot comes with an index step that has passed; every other step leaves
\* it, or takes it away, and only SkipIndex skips.
LEMMA SkippedStep ==
    ASSUME TypeOK, SkippedHasNoSnapshot, [Next]_vars
    PROVE  SkippedHasNoSnapshot'
<1>. USE DEF TypeOK, SkippedHasNoSnapshot
<1>1. CASE SetRepoField \/ SelectStoredGraph \/ SkipIndex \/ ResetAll
  BY <1>1 DEF SetRepoField, SelectStoredGraph, SkipIndex, ResetAll
<1>2. CASE SetAlertField
  <2>1. snapshot' = snapshot /\ status'["index"] = status["index"]
    BY <1>2 DEF SetAlertField, ClearPipelineAfter, Downstream, Artefacts, Steps
  <2>. QED BY <2>1
<1>3. ASSUME NEW step \in Steps, NEW alert, NEW graph, NEW pipeline,
             Start(step, alert, graph, pipeline), snapshot' = snapshot
      PROVE  SkippedHasNoSnapshot'
  BY <1>3 DEF Start
<1>4. ASSUME NEW c \in 1..MaxCalls, Indexed(c)
      PROVE  SkippedHasNoSnapshot'
  <2>1. status'["index"] # "skipped"
    BY <1>4 DEF Indexed, Passed, Steps, After
  <2>. QED BY <2>1
<1>5. ASSUME NEW c \in Busy, NEW graph, Passed(c, graph), snapshot' = snapshot
      PROVE  SkippedHasNoSnapshot'
  <2>1. status'["index"] = "skipped" => status["index"] = "skipped"
    <3>. DEFINE step == calls[c].step
    <3>1. \/ status' = [[status EXCEPT ![step] = "passed"] EXCEPT ![After[step]] = "running"]
          \/ status' = [status EXCEPT ![step] = "passed"]
      BY <1>5 DEF Passed
    <3>. HIDE DEF step
    <3>2. "index" \in Steps
      BY DEF Steps
    <3>. QED BY <3>1, <3>2
  <2>. QED BY <1>5, <2>1
<1>6. ASSUME NEW c \in 1..MaxCalls, HealthKnown(c) \/ Answered(c)
      PROVE  SkippedHasNoSnapshot'
  <2>1. c \in Busy
    BY <1>6 DEF HealthKnown, Answered, Busy, NoCall, Artefacts
  <2>. QED BY <1>5, <1>6, <2>1 DEF HealthKnown, Answered
<1>7. ASSUME NEW c \in 1..MaxCalls, Deleted(c) \/ Failed(c)
      PROVE  SkippedHasNoSnapshot'
  <2>1. snapshot' = snapshot /\ status' \in {status, [status EXCEPT ![calls[c].step] = "idle"]}
    BY <1>7 DEF Deleted, Failed
  <2>2. "index" \in Steps
    BY DEF Steps
  <2>. QED BY <2>1, <2>2
<1>8. CASE RunHealth \/ RunIndex \/ RunSubmitAlert \/ RunSaveIncident \/ RunFullPipeline
  BY <1>3, <1>8 DEF RunHealth, RunIndex, RunSubmitAlert, RunSaveIncident, RunFullPipeline,
     Steps, Artefacts
<1>9. ASSUME NEW step \in DOMAIN Input, RunOnShown(step)
      PROVE  SkippedHasNoSnapshot'
  BY <1>3, <1>9 DEF RunOnShown, Input, Steps, Artefacts
<1>10. CASE ConfirmDeleteGraph \/ UNCHANGED vars
  BY <1>10 DEF ConfirmDeleteGraph, vars
<1>. QED
  BY <1>1, <1>2, <1>4, <1>6, <1>7, <1>8, <1>9, <1>10 DEF Next, User, Response

\* What a pipeline begins with when the index step was skipped.
SkippedIndexIsRunForURI ==
    [][\A c \in 1..MaxCalls :
          c \notin Busy /\ calls'[c] # NoCall /\ calls'[c].pipeline /\ status["index"] = "skipped"
            => IF form.uri THEN calls'[c].step = "index"
               ELSE calls'[c].step = "submit" /\ calls'[c].graph = form.graph]_vars

\* RunFullPipeline, after SkipIndex: without a URI in the repository form the
\* pipeline is that of the alert's graph, as it is meant to be, and with one it
\* begins with the index step.  So the fifth finding needs a URI in the form, and
\* with one it is met every time.
THEOREM OnlyURIRunsSkippedIndex == Spec => SkippedIndexIsRunForURI
<1>1. Init => SkippedHasNoSnapshot
  BY DEF Init, SkippedHasNoSnapshot
<1>2. TypeOK /\ SkippedHasNoSnapshot /\ [Next]_vars => SkippedHasNoSnapshot'
  BY SkippedStep
<1>3. TypeOK /\ SkippedHasNoSnapshot /\ [Next]_vars =>
        [\A c \in 1..MaxCalls :
            c \notin Busy /\ calls'[c] # NoCall /\ calls'[c].pipeline /\ status["index"] = "skipped"
              => IF form.uri THEN calls'[c].step = "index"
                 ELSE calls'[c].step = "submit" /\ calls'[c].graph = form.graph]_vars
  <2>. SUFFICES ASSUME TypeOK, SkippedHasNoSnapshot, Next, NEW c \in 1..MaxCalls,
                       c \notin Busy, calls'[c] # NoCall, calls'[c].pipeline, status["index"] = "skipped"
       PROVE  IF form.uri THEN calls'[c].step = "index"
              ELSE calls'[c].step = "submit" /\ calls'[c].graph = form.graph
    OBVIOUS
  <2>1. calls[c] = NoCall
    BY DEF Busy
  <2>2. ASSUME NEW d \in Busy, \A e \in (1..MaxCalls) \ {d} : calls'[e] = calls[e]
        PROVE  FALSE
    BY <2>1, <2>2
  <2>3. calls' # calls /\ calls' # Overtaken
    BY <2>1 DEF Overtaken
  <2>4. ASSUME NEW step, NEW alert, NEW graph, NEW pipeline,
               Send(NewCall(step, alert, graph, pipeline))
        PROVE  calls'[c] = NewCall(step, alert, graph, pipeline)
    <3>1. PICK d \in 1..MaxCalls : calls' = [calls EXCEPT ![d] = NewCall(step, alert, graph, pipeline)]
      BY <2>4 DEF Send
    <3>2. d = c
      BY <2>1, <3>1 DEF TypeOK
    <3>. QED BY <3>1, <3>2 DEF TypeOK
  <2>5. ASSUME NEW step, NEW alert, NEW graph, NEW pipeline,
               Send(NewCall(step, alert, graph, pipeline))
        PROVE  pipeline /\ calls'[c].step = step /\ calls'[c].graph = graph
    BY <2>4, <2>5 DEF NewCall
  <2>6. CASE ResetAll
    <3>1. PICK d \in 1..MaxCalls :
             calls' = [Overtaken EXCEPT ![d] = NewCall("health", Null, Null, FALSE)]
      BY <2>6 DEF ResetAll
    <3>2. Overtaken[c] = NoCall /\ c \in DOMAIN Overtaken
      BY <2>1 DEF Overtaken
    <3>3. calls'[c] = NewCall("health", Null, Null, FALSE)
      BY <3>1, <3>2
    <3>. QED BY <3>3 DEF NewCall
  <2>7. CASE RunFullPipeline
    <3>1. snapshot = Null
      BY DEF SkippedHasNoSnapshot
    <3>2. CASE form.uri
      <4>1. Send(NewCall("index", form.alert, form.graph, TRUE))
        BY <2>7, <3>1, <3>2 DEF RunFullPipeline, Start
      <4>. QED BY <2>5, <3>2, <4>1
    <3>3. CASE ~ form.uri
      <4>1. Send(NewCall("submit", form.alert, form.graph, TRUE))
        BY <2>7, <3>1, <3>3 DEF RunFullPipeline, Start
      <4>. QED BY <2>5, <3>3, <4>1
    <3>. QED BY <3>2, <3>3
  <2>8. CASE User /\ ~ ResetAll /\ ~ RunFullPipeline
    BY <2>3, <2>5, <2>8 DEF User, SetRepoField, SetAlertField, SelectStoredGraph, SkipIndex,
       ClearPipelineAfter, RunHealth, RunIndex, RunSubmitAlert, RunOnShown, RunSaveIncident,
       ConfirmDeleteGraph, Start
  <2>9. ASSUME NEW d \in 1..MaxCalls, Response(d) PROVE FALSE
    <3>1. d \in Busy
      BY <2>9 DEF Response, HealthKnown, Indexed, Answered, Deleted, Failed, Busy, NoCall, Artefacts
    <3>2. \A e \in (1..MaxCalls) \ {d} : calls'[e] = calls[e]
      BY <2>9, <3>1 DEF Response, HealthKnown, Indexed, Answered, Deleted, Failed, Passed, TypeOK
    <3>. QED BY <2>2, <3>1, <3>2
  <2>. QED BY <2>6, <2>7, <2>8, <2>9 DEF Next
<1>. QED
  BY <1>1, <1>2, <1>3, TypeCorrect, PTL DEF Spec, SkippedIndexIsRunForURI
=============================================================================
