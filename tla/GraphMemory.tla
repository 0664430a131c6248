----------------------------- MODULE GraphMemory -----------------------------
(***************************************************************************)
(* The life of a graph snapshot and of the incident memory that refers to  *)
(* it.  Structure 1 (code_knowledge_core) builds a snapshot, persists its  *)
(* payload and caches a process-local index of it; Structure 2 answers an  *)
(* alert from it; Structure 3 reasons over the evidence; Structure 4       *)
(* (incident_memory_store) keeps the confirmed result, which from then on  *)
(* blocks the deletion of the snapshot it names.                           *)
(*                                                                         *)
(* A backend process serves one request at a time: the handlers are        *)
(* coroutines that never await, so within a process a request runs to its  *)
(* end.  Its database transactions are separate, so another process on the *)
(* same database, or a crash, may come between two of them: each action    *)
(* below ends where such a transaction does.                               *)
(*                                                                         *)
(* The snapshots are those of one repository: the tables and the local     *)
(* index are keyed by repo_id first, and two repositories meet only in the *)
(* incident of an alert id they share, which the model has anyway.  A      *)
(* piece of evidence is represented by the snapshot whose analysis of the  *)
(* repository it was taken from.                                           *)
(***************************************************************************)
EXTENDS FiniteSets

CONSTANTS
    Procs,       \* backend processes that share the PostgreSQL database
    Sessions,    \* workbench sessions, each with one investigation in hand
    Alerts,      \* alert ids; alert a has trace TRACE-a and incident INC-a
    Graphs,      \* snapshot ids, one per run of index_repo
    NoGraph,     \* a null graph_id
    Persistent,  \* graph store backend: PostgreSQL (TRUE) or disabled
    AckLoss      \* a commit may succeed although its client sees an error

ASSUME ConstantsAssumption ==
    /\ NoGraph \notin Graphs
    /\ Persistent \in BOOLEAN
    /\ AckLoss \in BOOLEAN

VARIABLES
    store,      \* rows of the graph payload table
    deleted,    \* snapshots whose row has been deleted (history)
    issued,     \* snapshot ids generated so far: a timestamp is never reused
    live,       \* the analysis the repository's GitNexus index holds
    local,      \* keys of _local_indexes, per process
    known,      \* snapshot ids some client was given
    incidents,  \* rows of the incident memory table, by alert
    session,    \* what each workbench session holds
    job         \* the request a process is serving

\* The deployment of the README: one uvicorn process.
SingleProcess == \A p, q \in Procs : p = q

vars == <<store, deleted, issued, live, local, known, incidents, session, job>>

GraphIds == Graphs \cup {NoGraph}

Idle == [pc |-> "idle"]
NoRecord == [stage |-> "none"]

\* own: where the evidence of the graph query comes from; past: whether
\* evidence of similar incidents is cited as well.
Record == [graph : Graphs, own : SUBSET Graphs, past : BOOLEAN]

Holding == [stage : {"bundle", "reviewed"}, alert : Alerts,
            graph : GraphIds, own : SUBSET Graphs, past : BOOLEAN]

GraphJob == [pc : {"save", "cache", "delete", "pop"}, graph : Graphs]

EvidenceJob == [pc : {"recall", "similar"}, sess : Sessions, alert : Alerts,
                graph : GraphIds, found : SUBSET Graphs]

TypeOK ==
    /\ store \in SUBSET Graphs
    /\ deleted \in SUBSET Graphs
    /\ issued \in SUBSET Graphs
    /\ live \in GraphIds
    /\ local \in [Procs -> SUBSET Graphs]
    /\ known \in SUBSET Graphs
    /\ incidents \in [Alerts -> Record \cup {NoRecord}]
    /\ session \in [Sessions -> Holding \cup {NoRecord}]
    /\ job \in [Procs -> GraphJob \cup EvidenceJob \cup {Idle}]

Init ==
    /\ store = {} /\ deleted = {} /\ issued = {} /\ known = {}
    /\ live = NoGraph
    /\ local = [p \in Procs |-> {}]
    /\ incidents = [a \in Alerts |-> NoRecord]
    /\ session = [s \in Sessions |-> NoRecord]
    /\ job = [p \in Procs |-> Idle]

-----------------------------------------------------------------------------
(* Helpers.  A definition that stands just before another one, and is used  *)
(* nowhere, is a seeded bug: the mutant of the other that PROJECT.json names. *)

\* count_incidents_for_graph gives more than zero.
NeverReferenced(g) == FALSE
Referenced(g) ==
    \E a \in Alerts : incidents[a] # NoRecord /\ incidents[a].graph = g

\* A snapshot id carries the time it was made, and time is not repeated.
UnstoredId(g) == g \notin store
FreshId(g) == g \notin issued

\* The gates of save_incident on the reviewed report: a graph_id, evidence.
EvidenceOnly(h) == h.own # {} \/ h.past
Savable(h) == h.graph # NoGraph /\ (h.own # {} \/ h.past)

\* Where query_graph takes its answer from: the process-local index, else the
\* persisted payload, else the live GitNexus index (NoGraph: never analyzed,
\* the CLI fails).  A null graph_id becomes GRAPH-<repo>, which is no snapshot.
CachedSource(p, g) == IF g \in local[p] THEN g ELSE live
QuerySource(p, g) == IF g \in local[p] \cup store THEN g ELSE live

\* The restored payload is indexed for the later queries of the process.
LocalAfterQuery(p, g) ==
    [local EXCEPT ![p] = IF g \in store THEN @ \cup {g} ELSE @]

Finish(p) == job' = [job EXCEPT ![p] = Idle]

Goto(p, pc) == job' = [job EXCEPT ![p].pc = pc]

-----------------------------------------------------------------------------
(* index_repo                                                               *)

\* The CLI analyzes the repository under its repo_id and the payload is read
\* back and enriched; a failure after the analysis leaves the live index new.
IndexRepo(p, g) ==
    /\ job[p] = Idle
    /\ FreshId(g)
    /\ issued' = issued \cup {g}
    /\ live' = g
    /\ job' \in {job, [job EXCEPT ![p] = [pc |-> "save", graph |-> g]]}
    /\ UNCHANGED <<store, deleted, local, known, incidents, session>>

SaveErrorIgnored(p) ==
    /\ job[p].pc = "save"
    /\ store' \in {store, store \cup {job[p].graph}}
    /\ Goto(p, "cache")
    /\ UNCHANGED <<deleted, issued, live, local, known, incidents, session>>

\* save_payload commits; a disabled store saves nothing and reports success.
SavePayload(p) ==
    /\ job[p].pc = "save"
    /\ store' = IF Persistent THEN store \cup {job[p].graph} ELSE store
    /\ \/ Goto(p, "cache")
       \/ AckLoss /\ Finish(p)
    /\ UNCHANGED <<deleted, issued, live, local, known, incidents, session>>

\* The local index is set, then the snapshot is mapped and returned: the
\* mapping may fail, or the response be lost, once the index is in place.
CacheIndex(p) ==
    /\ job[p].pc = "cache"
    /\ local' = [local EXCEPT ![p] = @ \cup {job[p].graph}]
    /\ known' \in {known, known \cup {job[p].graph}}
    /\ Finish(p)
    /\ UNCHANGED <<store, deleted, issued, live, incidents, session>>

-----------------------------------------------------------------------------
(* list_graphs, query_graph                                                 *)

ListGraphs(p) ==
    /\ job[p] = Idle
    /\ known' = known \cup store
    /\ UNCHANGED <<store, deleted, issued, live, local, incidents, session, job>>

QueryGraph(p, g) ==
    /\ job[p] = Idle
    /\ g \in known
    /\ local' = LocalAfterQuery(p, g)
    /\ UNCHANGED <<store, deleted, issued, live, known, incidents, session, job>>

-----------------------------------------------------------------------------
(* delete_graph                                                             *)

\* The incidents are counted in a transaction of their own; a count above
\* zero ends the request with RESOURCE_IN_USE and changes nothing.
DeleteGraph(p, g) ==
    /\ job[p] = Idle
    /\ g \in known
    /\ ~ Referenced(g)
    /\ job' = [job EXCEPT ![p] = [pc |-> "delete", graph |-> g]]
    /\ UNCHANGED <<store, deleted, issued, live, local, known, incidents, session>>

\* The row is deleted; on a store error the local index is left in place,
\* whether or not the deletion was committed.
DeletePayload(p) ==
    /\ job[p].pc = "delete"
    /\ store' = store \ {job[p].graph}
    /\ deleted' = deleted \cup (store \cap {job[p].graph})
    /\ \/ Goto(p, "pop")
       \/ AckLoss /\ Finish(p)
    /\ UNCHANGED <<issued, live, local, known, incidents, session>>

PopForgotten(p) ==
    /\ job[p].pc = "pop"
    /\ Finish(p)
    /\ UNCHANGED <<store, deleted, issued, live, local, known, incidents, session>>

PopIndex(p) ==
    /\ job[p].pc = "pop"
    /\ local' = [local EXCEPT ![p] = @ \ {job[p].graph}]
    /\ Finish(p)
    /\ UNCHANGED <<store, deleted, issued, live, known, incidents, session>>

-----------------------------------------------------------------------------
(* submit_alert and build_evidence_bundle                                   *)

\* The first graph query.  Fewer than two references ask for a recall query.
BuildEvidence(p, s, a, g) ==
    /\ job[p] = Idle
    /\ g \in known \cup {NoGraph}
    /\ QuerySource(p, g) # NoGraph
    /\ \E found \in SUBSET {QuerySource(p, g)}, pc \in {"recall", "similar"} :
         /\ found = {} => pc = "recall"
         /\ job' = [job EXCEPT ![p] = [pc |-> pc, sess |-> s, alert |-> a,
                                       graph |-> g, found |-> found]]
    /\ local' = LocalAfterQuery(p, g)
    /\ UNCHANGED <<store, deleted, issued, live, known, incidents, session>>

\* The recall query repeats the lookup; both contexts are merged.
RecallGraph(p) ==
    LET j == job[p] IN
    /\ j.pc = "recall"
    /\ QuerySource(p, j.graph) # NoGraph
    /\ \E found \in SUBSET {QuerySource(p, j.graph)} :
         job' = [job EXCEPT ![p] = [j EXCEPT !.pc = "similar", !.found = @ \cup found]]
    /\ local' = LocalAfterQuery(p, j.graph)
    /\ UNCHANGED <<store, deleted, issued, live, known, incidents, session>>

\* The bundle keeps the graph evidence of a known source type and the evidence
\* of the incidents that score above zero for the alert, if there are any.
FindSimilar(p) ==
    LET j == job[p] IN
    /\ j.pc = "similar"
    /\ \E own \in SUBSET j.found, past \in BOOLEAN :
         /\ past => \E a \in Alerts : incidents[a] # NoRecord
         /\ session' = [session EXCEPT ![j.sess] =
                [stage |-> "bundle", alert |-> j.alert, graph |-> j.graph,
                 own |-> own, past |-> past]]
    /\ Finish(p)
    /\ UNCHANGED <<store, deleted, issued, live, local, known, incidents>>

-----------------------------------------------------------------------------
(* generate_rca and review_rca, save_incident                               *)

\* The reasoning engine keeps no state: a reviewed report cites some, and at
\* least one, of the bundle's references.  It has the graph_id of the incident
\* query, null or not.
ReviewRCA(p, s) ==
    LET h == session[s] IN
    /\ job[p] = Idle
    /\ h.stage = "bundle"
    /\ \E own \in SUBSET h.own, past \in BOOLEAN :
         /\ past => h.past
         /\ own # {} \/ past
         /\ session' = [session EXCEPT ![s] =
                [h EXCEPT !.stage = "reviewed", !.own = own, !.past = past]]
    /\ UNCHANGED <<store, deleted, issued, live, local, known, incidents, job>>

\* The user-confirmed save: the row of the alert's incident is inserted or
\* replaced.  Nothing looks up the graph it names.
SaveIncident(p, s) ==
    LET h == session[s] IN
    /\ job[p] = Idle
    /\ h.stage = "reviewed"
    /\ Savable(h)
    /\ incidents' = [incidents EXCEPT ![h.alert] =
           [graph |-> h.graph, own |-> h.own, past |-> h.past]]
    /\ UNCHANGED <<store, deleted, issued, live, local, known, session, job>>

-----------------------------------------------------------------------------
(* Failures                                                                 *)

\* The step in hand raises: the request ends with an error response.
Fail(p) ==
    /\ job[p] # Idle /\ job[p].pc # "pop"
    /\ Finish(p)
    /\ UNCHANGED <<store, deleted, issued, live, local, known, incidents, session>>

\* The process is restarted; a new one starts with no local index.
Restart(p) ==
    /\ local' = [local EXCEPT ![p] = {}]
    /\ Finish(p)
    /\ UNCHANGED <<store, deleted, issued, live, known, incidents, session>>

-----------------------------------------------------------------------------
StepGraph(p) ==
    \/ \E g \in Graphs : IndexRepo(p, g) \/ DeleteGraph(p, g) \/ QueryGraph(p, g)
    \/ SavePayload(p) \/ CacheIndex(p)
    \/ DeletePayload(p) \/ PopIndex(p)
    \/ ListGraphs(p)

StepIncident(p) ==
    \/ \E s \in Sessions, a \in Alerts, g \in GraphIds : BuildEvidence(p, s, a, g)
    \/ RecallGraph(p) \/ FindSimilar(p)
    \/ \E s \in Sessions : ReviewRCA(p, s) \/ SaveIncident(p, s)

Next ==
    \E p \in Procs : StepGraph(p) \/ StepIncident(p) \/ Fail(p) \/ Restart(p)

Spec == Init /\ [][Next]_vars

-----------------------------------------------------------------------------
(* Properties                                                               *)

\* Who may still be answered from g's index or name it in a report.
Stages == {s \in Sessions : session[s] # NoRecord}
Saved == {a \in Alerts : incidents[a] # NoRecord}

\* A graph id a client was given is durable: its payload is in the graph store
\* unless it was deleted on request.  index_repo persists before it caches and
\* answers, and a failed save is an error, so a restart loses no graph.
KnownIsDurable ==
    Persistent => /\ known \subseteq store \cup deleted
                  /\ \A p \in Procs : local[p] \subseteq store \cup deleted

\* As long as a snapshot is stored, whatever a session or an incident holds as
\* the graph evidence for it was taken from it: neither a restart nor a failed
\* load makes query_graph answer from the live index in its stead.
StoredGraphEvidenceSound ==
    /\ \A s \in Stages : session[s].graph \in store => session[s].own \subseteq {session[s].graph}
    /\ \A a \in Saved : incidents[a].graph \in store => incidents[a].own \subseteq {incidents[a].graph}

\* A graph that an incident refers to is never deleted: delete_graph counts the
\* incidents first and answers RESOURCE_IN_USE.
DeleteProtection ==
    [][\A g \in store \ store', a \in Saved : incidents[a].graph # g]_vars

\* The graph store and the incident memory implement the abstract catalog: a
\* snapshot id is published once, and dropped only while no incident names it.
Catalog == INSTANCE GraphCatalog WITH
    rows <- store, gone <- deleted,
    refs <- [a \in Alerts |-> IF a \in Saved THEN incidents[a].graph ELSE NoGraph]

ImplementsCatalog == Catalog!Spec

\* Graphs whose incidents a request has counted, and found none.
Condemned == {g \in Graphs : \E p \in Procs : job[p].pc = "delete" /\ job[p].graph = g}

Shared == INSTANCE SharedCatalog WITH
    rows <- store, gone <- deleted, doomed <- Condemned,
    refs <- [a \in Alerts |-> IF a \in Saved THEN incidents[a].graph ELSE NoGraph]

\* With several processes, too, a snapshot id is published once, and what is
\* dropped was without an incident when its deletion was decided: a graph that
\* an incident came to name before that is safe.
ImplementsSharedCatalog == Shared!Spec

\* No process serves a snapshot from memory once it is deleted, except while
\* the request that deletes it is still running.
LocalBacked ==
    \A p \in Procs : \A g \in local[p] \ store : job[p].pc = "pop" /\ job[p].graph = g

\* An incident is tied to the snapshot that produced its graph evidence.
IncidentTiedToItsGraph ==
    \A a \in Saved : incidents[a].own \subseteq {incidents[a].graph}
=============================================================================
