-------------------------- MODULE GraphMemoryProofs --------------------------
(***************************************************************************)
(* Proofs about GraphMemory, for every set of processes, sessions, alerts  *)
(* and snapshot ids.  The inductive invariant says that a snapshot id in   *)
(* the hands of index_repo, before it is saved, is known nowhere: so no    *)
(* session, incident or request can already name a graph when its row      *)
(* appears, and a deleted graph never comes back.                          *)
(***************************************************************************)
EXTENDS GraphMemory, TLAPS

\* Ids in use were issued; a row is stored or deleted, not both.
IdsIssued ==
    /\ store \cup deleted \cup known \subseteq issued
    /\ store \cap deleted = {}
    /\ \A p \in Procs : job[p].pc \in {"save", "cache"} => job[p].graph \in issued

\* A snapshot about to be saved is new to everybody else.
SavingIsFresh ==
    \A p \in Procs : job[p].pc = "save" =>
        /\ job[p].graph \notin store \cup deleted \cup known
        /\ \A q \in Procs \ {p} :
              job[q].pc \in {"save", "cache"} => job[q].graph # job[p].graph

\* Only graphs that some client knows are named.
NamesKnown ==
    /\ \A s \in Stages : session[s].graph \in known \cup {NoGraph}
    /\ \A a \in Saved : incidents[a].graph \in known
    /\ \A p \in Procs :
          job[p].pc \in {"recall", "similar"} => job[p].graph \in known \cup {NoGraph}

\* The evidence a running build_evidence_bundle has gathered so far.
FoundSound ==
    \A p \in Procs : job[p].pc \in {"recall", "similar"} /\ job[p].graph \in store
                        => job[p].found \subseteq {job[p].graph}

CacheDurable ==
    Persistent => \A p \in Procs : job[p].pc = "cache" => job[p].graph \in store \cup deleted

IInv ==
    /\ TypeOK
    /\ IdsIssued
    /\ SavingIsFresh
    /\ NamesKnown
    /\ FoundSound
    /\ StoredGraphEvidenceSound
    /\ CacheDurable
    /\ KnownIsDurable

-----------------------------------------------------------------------------
(* The steps, as one disjunction over the actions of a process.             *)

LEMMA NextCases ==
    ASSUME Next
    PROVE  \E p \in Procs :
             \/ \E g \in Graphs : IndexRepo(p, g)
             \/ SavePayload(p)
             \/ CacheIndex(p)
             \/ ListGraphs(p)
             \/ \E g \in Graphs : QueryGraph(p, g)
             \/ \E g \in Graphs : DeleteGraph(p, g)
             \/ DeletePayload(p)
             \/ PopIndex(p)
             \/ \E s \in Sessions, a \in Alerts, g \in GraphIds : BuildEvidence(p, s, a, g)
             \/ RecallGraph(p)
             \/ FindSimilar(p)
             \/ \E s \in Sessions : ReviewRCA(p, s)
             \/ \E s \in Sessions : SaveIncident(p, s)
             \/ Fail(p)
             \/ Restart(p)
  BY DEF Next, StepGraph, StepIncident

\* What the record of a request is, read off its program counter.
LEMMA JobCases ==
    ASSUME TypeOK, NEW p \in Procs
    PROVE  /\ job[p].pc \in {"save", "cache", "delete", "pop"} => job[p] \in GraphJob
           /\ job[p].pc \in {"recall", "similar"} => job[p] \in EvidenceJob
           /\ job[p] = Idle <=> job[p].pc = "idle"
           /\ job[p] \in GraphJob => job[p].graph \in Graphs
           /\ job[p] \in EvidenceJob => /\ job[p].graph \in GraphIds
                                        /\ job[p].sess \in Sessions
                                        /\ job[p].alert \in Alerts
                                        /\ job[p].found \in SUBSET Graphs
  BY DEF TypeOK, GraphJob, EvidenceJob, Idle

LEMMA InitIInv == Init => IInv
  BY ConstantsAssumption
  DEF Init, IInv, TypeOK, IdsIssued, SavingIsFresh, NamesKnown, FoundSound, GraphIds,
      StoredGraphEvidenceSound, CacheDurable, KnownIsDurable, Stages, Saved, Idle

-----------------------------------------------------------------------------
(* Type correctness.                                                        *)

LEMMA StepTypeOK ==
    ASSUME TypeOK, [Next]_vars
    PROVE  TypeOK'
<1>. USE DEF TypeOK, GraphIds
<1>0. CASE UNCHANGED vars
  BY <1>0 DEF vars
<1>1. ASSUME NEW p \in Procs, NEW g \in Graphs, IndexRepo(p, g)
      PROVE  TypeOK'
  BY <1>1 DEF IndexRepo, FreshId, GraphJob
<1>2. ASSUME NEW p \in Procs, SavePayload(p) PROVE TypeOK'
  <2>1. job[p] \in GraphJob /\ job[p].graph \in Graphs
    BY <1>2, JobCases DEF SavePayload
  <2>2. job' \in [Procs -> GraphJob \cup EvidenceJob \cup {Idle}]
    BY <1>2, <2>1 DEF SavePayload, Goto, Finish, GraphJob
  <2>. QED BY <1>2, <2>1, <2>2 DEF SavePayload
<1>3. ASSUME NEW p \in Procs, CacheIndex(p) PROVE TypeOK'
  BY <1>3, JobCases DEF CacheIndex, Finish
<1>4. ASSUME NEW p \in Procs, ListGraphs(p) PROVE TypeOK'
  BY <1>4 DEF ListGraphs
<1>5. ASSUME NEW p \in Procs, NEW g \in Graphs, QueryGraph(p, g) PROVE TypeOK'
  BY <1>5 DEF QueryGraph, LocalAfterQuery
<1>6. ASSUME NEW p \in Procs, NEW g \in Graphs, DeleteGraph(p, g) PROVE TypeOK'
  BY <1>6 DEF DeleteGraph, GraphJob
<1>7. ASSUME NEW p \in Procs, DeletePayload(p) PROVE TypeOK'
  <2>1. job[p] \in GraphJob /\ job[p].graph \in Graphs
    BY <1>7, JobCases DEF DeletePayload
  <2>2. job' \in [Procs -> GraphJob \cup EvidenceJob \cup {Idle}]
    BY <1>7, <2>1 DEF DeletePayload, Goto, Finish, GraphJob
  <2>. QED BY <1>7, <2>1, <2>2 DEF DeletePayload
<1>8. ASSUME NEW p \in Procs, PopIndex(p) PROVE TypeOK'
  BY <1>8, JobCases DEF PopIndex, Finish
<1>9. ASSUME NEW p \in Procs, NEW s \in Sessions, NEW a \in Alerts, NEW g \in GraphIds,
             BuildEvidence(p, s, a, g)
      PROVE  TypeOK'
  <2>1. QuerySource(p, g) \in Graphs
    BY <1>9 DEF BuildEvidence, QuerySource
  <2>2. job' \in [Procs -> GraphJob \cup EvidenceJob \cup {Idle}]
    BY <1>9, <2>1 DEF BuildEvidence, EvidenceJob
  <2>. QED BY <1>9, <2>2 DEF BuildEvidence, LocalAfterQuery
<1>10. ASSUME NEW p \in Procs, RecallGraph(p) PROVE TypeOK'
  <2>1. job[p] \in EvidenceJob /\ job[p].graph \in GraphIds
    BY <1>10, JobCases DEF RecallGraph
  <2>2. QuerySource(p, job[p].graph) \in Graphs
    BY <1>10, <2>1 DEF RecallGraph, QuerySource
  <2>3. PICK found \in SUBSET {QuerySource(p, job[p].graph)} :
          job' = [job EXCEPT ![p] = [job[p] EXCEPT !.pc = "similar",
                                                   !.found = job[p].found \cup found]]
    BY <1>10 DEF RecallGraph
  <2>4. [job[p] EXCEPT !.pc = "similar", !.found = job[p].found \cup found] \in EvidenceJob
    BY <2>1, <2>2 DEF EvidenceJob
  <2>5. job' \in [Procs -> GraphJob \cup EvidenceJob \cup {Idle}]
    BY <2>3, <2>4
  <2>. QED BY <1>10, <2>5 DEF RecallGraph, LocalAfterQuery
<1>11. ASSUME NEW p \in Procs, FindSimilar(p) PROVE TypeOK'
  <2>1. job[p] \in EvidenceJob
    BY <1>11, JobCases DEF FindSimilar
  <2>2. session' \in [Sessions -> Holding \cup {NoRecord}]
    BY <1>11, <2>1 DEF FindSimilar, EvidenceJob, Holding
  <2>. QED BY <1>11, <2>2 DEF FindSimilar, Finish
<1>12. ASSUME NEW p \in Procs, NEW s \in Sessions, ReviewRCA(p, s) PROVE TypeOK'
  <2>1. session[s] \in Holding
    BY <1>12 DEF ReviewRCA, NoRecord
  <2>2. PICK own \in SUBSET session[s].own, past \in BOOLEAN :
          session' = [session EXCEPT ![s] =
            [session[s] EXCEPT !.stage = "reviewed", !.own = own, !.past = past]]
    BY <1>12 DEF ReviewRCA
  <2>3. [session[s] EXCEPT !.stage = "reviewed", !.own = own, !.past = past] \in Holding
    BY <2>1, <2>2 DEF Holding
  <2>4. session' \in [Sessions -> Holding \cup {NoRecord}]
    BY <2>2, <2>3
  <2>. QED BY <1>12, <2>4 DEF ReviewRCA
<1>13. ASSUME NEW p \in Procs, NEW s \in Sessions, SaveIncident(p, s) PROVE TypeOK'
  <2>1. session[s] \in Holding
    BY <1>13 DEF SaveIncident, NoRecord
  <2>2. incidents' \in [Alerts -> Record \cup {NoRecord}]
    BY <1>13, <2>1 DEF SaveIncident, Savable, Holding, Record
  <2>. QED BY <1>13, <2>2 DEF SaveIncident
<1>14. ASSUME NEW p \in Procs, Fail(p) PROVE TypeOK'
  BY <1>14 DEF Fail, Finish
<1>15. ASSUME NEW p \in Procs, Restart(p) PROVE TypeOK'
  BY <1>15 DEF Restart, Finish
<1>. QED
  BY <1>0, <1>1, <1>2, <1>3, <1>4, <1>5, <1>6, <1>7, <1>8, <1>9, <1>10, <1>11,
     <1>12, <1>13, <1>14, <1>15, NextCases

\* The state is well formed in every reachable state.
THEOREM TypeCorrect == Spec => []TypeOK
<1>1. Init => TypeOK
  BY InitIInv DEF IInv
<1>2. TypeOK /\ [Next]_vars => TypeOK'
  BY StepTypeOK
<1>. QED
  BY <1>1, <1>2, PTL DEF Spec

LEMMA StepIInv ==
    ASSUME IInv, [Next]_vars
    PROVE  IInv'
<1>. USE DEF IInv, TypeOK, GraphIds, Idle
<1>1. ASSUME NEW p \in Procs, NEW g \in Graphs, IndexRepo(p, g)
      PROVE  IInv'
  <2>1. IdsIssued' /\ SavingIsFresh' /\ CacheDurable' /\ KnownIsDurable'
    BY <1>1, JobCases DEF IndexRepo, FreshId, IdsIssued, SavingIsFresh, CacheDurable, KnownIsDurable
  <2>2. NamesKnown' /\ FoundSound' /\ StoredGraphEvidenceSound'
    BY <1>1, JobCases
    DEF IndexRepo, FreshId, NamesKnown, FoundSound, StoredGraphEvidenceSound, Stages, Saved
  <2>. QED BY <2>1, <2>2, StepTypeOK
<1>2. ASSUME NEW p \in Procs, SavePayload(p)
      PROVE  IInv'
  <2>1. job[p] \in GraphJob /\ job[p].graph \in Graphs /\ job[p].pc = "save"
    BY <1>2, JobCases DEF SavePayload
  <2>2. /\ \A q \in Procs \ {p} : job'[q] = job[q]
        /\ \/ job'[p].pc = "idle"
           \/ job'[p].pc = "cache" /\ job'[p].graph = job[p].graph
    BY <1>2, <2>1 DEF SavePayload, Goto, Finish, GraphJob
  <2>3. IdsIssued'
    BY <1>2, <2>1, <2>2 DEF SavePayload, IdsIssued, SavingIsFresh
  <2>4. SavingIsFresh'
    BY <1>2, <2>1, <2>2 DEF SavePayload, SavingIsFresh
  <2>5. NamesKnown'
    BY <1>2, <2>1, <2>2 DEF SavePayload, NamesKnown, Stages, Saved
  <2>6. job[p].graph \notin known \cup {NoGraph}
    BY <2>1, ConstantsAssumption DEF SavingIsFresh
  <2>7. FoundSound'
    BY <1>2, <2>1, <2>2, <2>6 DEF SavePayload, FoundSound, NamesKnown
  <2>8. StoredGraphEvidenceSound'
    BY <1>2, <2>1, <2>6 DEF SavePayload, StoredGraphEvidenceSound, NamesKnown, Stages, Saved
  <2>9. CacheDurable'
    BY <1>2, <2>1, <2>2 DEF SavePayload, CacheDurable
  <2>10. KnownIsDurable'
    BY <1>2 DEF SavePayload, KnownIsDurable
  <2>. QED BY <2>3, <2>4, <2>5, <2>7, <2>8, <2>9, <2>10, StepTypeOK
<1>3. ASSUME NEW p \in Procs, CacheIndex(p)
      PROVE  IInv'
  <2>1. IdsIssued' /\ SavingIsFresh' /\ CacheDurable' /\ KnownIsDurable'
    BY <1>3, JobCases DEF CacheIndex, Finish, IdsIssued, SavingIsFresh, CacheDurable, KnownIsDurable
  <2>2. NamesKnown' /\ FoundSound' /\ StoredGraphEvidenceSound'
    BY <1>3, JobCases
    DEF CacheIndex, Finish, NamesKnown, FoundSound, StoredGraphEvidenceSound, Stages, Saved
  <2>. QED BY <2>1, <2>2, StepTypeOK
<1>4. ASSUME NEW p \in Procs, ListGraphs(p)
      PROVE  IInv'
  <2>1. IdsIssued' /\ SavingIsFresh' /\ CacheDurable' /\ KnownIsDurable'
    BY <1>4, JobCases DEF ListGraphs, IdsIssued, SavingIsFresh, CacheDurable, KnownIsDurable
  <2>2. NamesKnown' /\ FoundSound' /\ StoredGraphEvidenceSound'
    BY <1>4, JobCases
    DEF ListGraphs, NamesKnown, FoundSound, StoredGraphEvidenceSound, Stages, Saved
  <2>. QED BY <2>1, <2>2, StepTypeOK
<1>5. ASSUME NEW p \in Procs, NEW g \in Graphs, QueryGraph(p, g)
      PROVE  IInv'
  <2>1. IdsIssued' /\ SavingIsFresh' /\ CacheDurable' /\ KnownIsDurable'
    BY <1>5, JobCases DEF QueryGraph, LocalAfterQuery, IdsIssued, SavingIsFresh, CacheDurable, KnownIsDurable
  <2>2. NamesKnown' /\ FoundSound' /\ StoredGraphEvidenceSound'
    BY <1>5, JobCases
    DEF QueryGraph, LocalAfterQuery, NamesKnown, FoundSound, StoredGraphEvidenceSound, Stages, Saved
  <2>. QED BY <2>1, <2>2, StepTypeOK
<1>6. ASSUME NEW p \in Procs, NEW g \in Graphs, DeleteGraph(p, g)
      PROVE  IInv'
  <2>1. IdsIssued' /\ SavingIsFresh' /\ CacheDurable' /\ KnownIsDurable'
    BY <1>6, JobCases DEF DeleteGraph, IdsIssued, SavingIsFresh, CacheDurable, KnownIsDurable
  <2>2. NamesKnown' /\ FoundSound' /\ StoredGraphEvidenceSound'
    BY <1>6, JobCases
    DEF DeleteGraph, NamesKnown, FoundSound, StoredGraphEvidenceSound, Stages, Saved
  <2>. QED BY <2>1, <2>2, StepTypeOK
<1>7. ASSUME NEW p \in Procs, DeletePayload(p)
      PROVE  IInv'
  <2>1. job[p] \in GraphJob /\ job[p].graph \in Graphs /\ job[p].pc = "delete"
    BY <1>7, JobCases DEF DeletePayload
  <2>2. /\ \A q \in Procs \ {p} : job'[q] = job[q]
        /\ job'[p].pc \in {"idle", "pop"}
    BY <1>7, <2>1 DEF DeletePayload, Goto, Finish, GraphJob
  <2>3. IdsIssued'
    BY <1>7, <2>1, <2>2 DEF DeletePayload, IdsIssued
  <2>4. SavingIsFresh'
    BY <1>7, <2>1, <2>2 DEF DeletePayload, SavingIsFresh
  <2>5. NamesKnown'
    BY <1>7, <2>1, <2>2 DEF DeletePayload, NamesKnown, Stages, Saved
  <2>6. FoundSound'
    BY <1>7, <2>1, <2>2 DEF DeletePayload, FoundSound
  <2>7. StoredGraphEvidenceSound'
    BY <1>7 DEF DeletePayload, StoredGraphEvidenceSound, Stages, Saved
  <2>8. CacheDurable'
    BY <1>7, <2>1, <2>2 DEF DeletePayload, CacheDurable
  <2>9. KnownIsDurable'
    BY <1>7 DEF DeletePayload, KnownIsDurable
  <2>. QED BY <2>3, <2>4, <2>5, <2>6, <2>7, <2>8, <2>9, StepTypeOK
<1>8. ASSUME NEW p \in Procs, PopIndex(p)
      PROVE  IInv'
  <2>1. IdsIssued' /\ SavingIsFresh' /\ CacheDurable' /\ KnownIsDurable'
    BY <1>8, JobCases DEF PopIndex, Finish, IdsIssued, SavingIsFresh, CacheDurable, KnownIsDurable
  <2>2. NamesKnown' /\ FoundSound' /\ StoredGraphEvidenceSound'
    BY <1>8, JobCases
    DEF PopIndex, Finish, NamesKnown, FoundSound, StoredGraphEvidenceSound, Stages, Saved
  <2>. QED BY <2>1, <2>2, StepTypeOK
<1>9. ASSUME NEW p \in Procs, NEW s \in Sessions, NEW a \in Alerts, NEW g \in GraphIds,
             BuildEvidence(p, s, a, g)
      PROVE  IInv'
  <2>1. IdsIssued' /\ SavingIsFresh' /\ CacheDurable' /\ KnownIsDurable'
    BY <1>9, JobCases DEF BuildEvidence, QuerySource, LocalAfterQuery, IdsIssued, SavingIsFresh, CacheDurable, KnownIsDurable
  <2>2. NamesKnown' /\ FoundSound' /\ StoredGraphEvidenceSound'
    BY <1>9, JobCases
    DEF BuildEvidence, QuerySource, LocalAfterQuery, NamesKnown, FoundSound, StoredGraphEvidenceSound, Stages, Saved
  <2>. QED BY <2>1, <2>2, StepTypeOK
<1>10. ASSUME NEW p \in Procs, RecallGraph(p)
      PROVE  IInv'
  <2>1. IdsIssued' /\ SavingIsFresh' /\ CacheDurable' /\ KnownIsDurable'
    BY <1>10, JobCases DEF RecallGraph, QuerySource, LocalAfterQuery, IdsIssued, SavingIsFresh, CacheDurable, KnownIsDurable
  <2>2. NamesKnown' /\ FoundSound' /\ StoredGraphEvidenceSound'
    BY <1>10, JobCases
    DEF RecallGraph, QuerySource, LocalAfterQuery, NamesKnown, FoundSound, StoredGraphEvidenceSound, Stages, Saved
  <2>. QED BY <2>1, <2>2, StepTypeOK
<1>11. ASSUME NEW p \in Procs, FindSimilar(p)
      PROVE  IInv'
  <2>1. IdsIssued' /\ SavingIsFresh' /\ CacheDurable' /\ KnownIsDurable'
    BY <1>11, JobCases DEF FindSimilar, Finish, IdsIssued, SavingIsFresh, CacheDurable, KnownIsDurable
  <2>2. NamesKnown' /\ FoundSound' /\ StoredGraphEvidenceSound'
    BY <1>11, JobCases
    DEF FindSimilar, Finish, NamesKnown, FoundSound, StoredGraphEvidenceSound, Stages, Saved
  <2>. QED BY <2>1, <2>2, StepTypeOK
<1>12. ASSUME NEW p \in Procs, NEW s \in Sessions, ReviewRCA(p, s)
       PROVE  IInv'
  <2>1. session[s] \in Holding
    BY <1>12 DEF ReviewRCA, NoRecord
  <2>2. /\ \A t \in Sessions \ {s} : session'[t] = session[t]
        /\ session'[s].graph = session[s].graph
        /\ session'[s].own \subseteq session[s].own
    BY <1>12, <2>1 DEF ReviewRCA, Holding
  <2>3. session[s] # NoRecord
    BY <2>1 DEF Holding, NoRecord
  <2>4. NamesKnown'
    BY <1>12, <2>2, <2>3 DEF ReviewRCA, NamesKnown, Stages, Saved
  <2>5. StoredGraphEvidenceSound'
    BY <1>12, <2>2, <2>3 DEF ReviewRCA, StoredGraphEvidenceSound, Stages, Saved
  <2>6. UNCHANGED <<store, deleted, issued, known, local, job>>
    BY <1>12 DEF ReviewRCA
  <2>7. IdsIssued' /\ SavingIsFresh' /\ FoundSound' /\ CacheDurable' /\ KnownIsDurable'
    BY <2>6 DEF IdsIssued, SavingIsFresh, FoundSound, CacheDurable, KnownIsDurable
  <2>. QED BY <2>4, <2>5, <2>7, StepTypeOK
<1>13. ASSUME NEW p \in Procs, NEW s \in Sessions, SaveIncident(p, s)
       PROVE  IInv'
  <2>1. session[s] \in Holding /\ session[s] # NoRecord
    BY <1>13 DEF SaveIncident, NoRecord, Holding
  <2>2. PICK a \in Alerts :
          /\ incidents'[a].graph = session[s].graph
          /\ incidents'[a].own = session[s].own
          /\ \A b \in Alerts \ {a} : incidents'[b] = incidents[b]
    BY <1>13, <2>1 DEF SaveIncident, Holding
  <2>3. session[s].graph \in known
    BY <1>13, <2>1 DEF SaveIncident, Savable, NamesKnown, Stages
  <2>4. NamesKnown'
    BY <1>13, <2>2, <2>3 DEF SaveIncident, NamesKnown, Stages, Saved
  <2>5. StoredGraphEvidenceSound'
    BY <1>13, <2>1, <2>2 DEF SaveIncident, StoredGraphEvidenceSound, Stages, Saved
  <2>6. UNCHANGED <<store, deleted, issued, known, local, job>>
    BY <1>13 DEF SaveIncident
  <2>7. IdsIssued' /\ SavingIsFresh' /\ FoundSound' /\ CacheDurable' /\ KnownIsDurable'
    BY <2>6 DEF IdsIssued, SavingIsFresh, FoundSound, CacheDurable, KnownIsDurable
  <2>. QED BY <2>4, <2>5, <2>7, StepTypeOK
<1>14. ASSUME NEW p \in Procs, Fail(p)
      PROVE  IInv'
  <2>1. IdsIssued' /\ SavingIsFresh' /\ CacheDurable' /\ KnownIsDurable'
    BY <1>14, JobCases DEF Fail, Finish, IdsIssued, SavingIsFresh, CacheDurable, KnownIsDurable
  <2>2. NamesKnown' /\ FoundSound' /\ StoredGraphEvidenceSound'
    BY <1>14, JobCases
    DEF Fail, Finish, NamesKnown, FoundSound, StoredGraphEvidenceSound, Stages, Saved
  <2>. QED BY <2>1, <2>2, StepTypeOK
<1>15. ASSUME NEW p \in Procs, Restart(p)
      PROVE  IInv'
  <2>1. IdsIssued' /\ SavingIsFresh' /\ CacheDurable' /\ KnownIsDurable'
    BY <1>15, JobCases DEF Restart, Finish, IdsIssued, SavingIsFresh, CacheDurable, KnownIsDurable
  <2>2. NamesKnown' /\ FoundSound' /\ StoredGraphEvidenceSound'
    BY <1>15, JobCases
    DEF Restart, Finish, NamesKnown, FoundSound, StoredGraphEvidenceSound, Stages, Saved
  <2>. QED BY <2>1, <2>2, StepTypeOK
<1>16. CASE UNCHANGED vars
  BY <1>16, StepTypeOK
  DEF vars, IdsIssued, SavingIsFresh, NamesKnown, FoundSound, StoredGraphEvidenceSound,
      CacheDurable, KnownIsDurable, Stages, Saved
<1>. QED
  BY <1>1, <1>2, <1>3, <1>4, <1>5, <1>6, <1>7, <1>8, <1>9, <1>10, <1>11, <1>12,
     <1>13, <1>14, <1>15, <1>16, NextCases

THEOREM Invariance == Spec => []IInv
  BY InitIInv, StepIInv, PTL DEF Spec

\* Under any number of processes, crashes and failed requests, the graph
\* evidence held for a stored snapshot was taken from that snapshot.
THEOREM EvidenceFromStoredGraph == Spec => []StoredGraphEvidenceSound
<1>1. IInv => StoredGraphEvidenceSound
  BY DEF IInv
<1>. QED
  BY <1>1, Invariance, PTL

\* A graph id that a client was given is stored until it is deleted on request.
THEOREM PublishedGraphsAreDurable == Spec => []KnownIsDurable
<1>1. IInv => KnownIsDurable
  BY DEF IInv
<1>. QED
  BY <1>1, Invariance, PTL

-----------------------------------------------------------------------------
(* One backend process.  No request of the process is served between the    *)
(* count of a delete request and its end, so nothing can come to refer to   *)
(* the graph in between.                                                    *)

\* While a delete request runs past its count, no incident comes to refer to
\* the graph: neither the row nor, where nothing is stored, the only copy of an
\* incident's graph is given up.
DeleteUnreferenced ==
    \A p \in Procs : job[p].pc \in {"delete", "pop"} => ~ Referenced(job[p].graph)

LEMMA StepDeleteUnreferenced ==
    ASSUME SingleProcess, TypeOK, DeleteUnreferenced, [Next]_vars
    PROVE  DeleteUnreferenced'
<1>. USE DEF TypeOK, DeleteUnreferenced, Referenced, Idle
<1>0. CASE UNCHANGED vars
  BY <1>0 DEF vars
<1>1. ASSUME NEW p \in Procs, NEW g \in Graphs,
             IndexRepo(p, g) \/ QueryGraph(p, g) \/ DeleteGraph(p, g)
      PROVE  DeleteUnreferenced'
  BY <1>1 DEF IndexRepo, QueryGraph, DeleteGraph
<1>2. ASSUME NEW p \in Procs, SavePayload(p) \/ DeletePayload(p)
      PROVE  DeleteUnreferenced'
  <2>1. CASE SavePayload(p)
    <3>1. job[p] \in GraphJob
      BY <2>1, JobCases DEF SavePayload
    <3>2. job'[p].pc \in {"idle", "cache"} /\ \A q \in Procs \ {p} : job'[q] = job[q]
      BY <2>1, <3>1 DEF SavePayload, Goto, Finish, GraphJob
    <3>. QED BY <2>1, <3>2 DEF SavePayload
  <2>2. CASE DeletePayload(p)
    <3>1. job[p] \in GraphJob /\ job[p].pc = "delete"
      BY <2>2, JobCases DEF DeletePayload
    <3>2. /\ job'[p].pc = "idle" \/ job'[p].graph = job[p].graph
          /\ \A q \in Procs \ {p} : job'[q] = job[q]
      BY <2>2, <3>1 DEF DeletePayload, Goto, Finish, GraphJob
    <3>. QED BY <2>2, <3>1, <3>2 DEF DeletePayload
  <2>. QED BY <1>2, <2>1, <2>2
<1>3. ASSUME NEW p \in Procs,
             CacheIndex(p) \/ ListGraphs(p) \/ PopIndex(p) \/ FindSimilar(p) \/ Fail(p) \/ Restart(p)
      PROVE  DeleteUnreferenced'
  BY <1>3 DEF CacheIndex, ListGraphs, PopIndex, FindSimilar, Fail, Restart, Finish
<1>4. ASSUME NEW p \in Procs, RecallGraph(p)
      PROVE  DeleteUnreferenced'
  <2>1. job[p] \in EvidenceJob
    BY <1>4, JobCases DEF RecallGraph
  <2>2. job'[p].pc = "similar" /\ (\A q \in Procs \ {p} : job'[q] = job[q]) /\ UNCHANGED incidents
    BY <1>4, <2>1 DEF RecallGraph, EvidenceJob
  <2>. QED BY <2>2
<1>5. ASSUME NEW p \in Procs, NEW s \in Sessions, NEW a \in Alerts, NEW g \in GraphIds,
             BuildEvidence(p, s, a, g)
      PROVE  DeleteUnreferenced'
  BY <1>5 DEF BuildEvidence
<1>6. ASSUME NEW p \in Procs, NEW s \in Sessions, ReviewRCA(p, s) \/ SaveIncident(p, s)
      PROVE  DeleteUnreferenced'
  \* The process is idle, and it is the only one.
  <2>1. job[p] = Idle /\ UNCHANGED job
    BY <1>6 DEF ReviewRCA, SaveIncident
  <2>2. \A q \in Procs : job'[q].pc = "idle"
    BY <2>1 DEF SingleProcess
  <2>. QED BY <2>2
<1>. QED
  BY <1>0, <1>1, <1>2, <1>3, <1>4, <1>5, <1>6, NextCases

THEOREM DeleteStaysUnreferenced ==
    ASSUME SingleProcess PROVE Spec => []DeleteUnreferenced
<1>1. Init => DeleteUnreferenced
  BY DEF Init, DeleteUnreferenced, Idle
<1>2. TypeOK /\ DeleteUnreferenced /\ [Next]_vars => DeleteUnreferenced'
  BY StepDeleteUnreferenced
<1>. QED
  BY <1>1, <1>2, TypeCorrect, PTL DEF Spec

\* The step that removes a row is that of a delete request past its count.
LEMMA OnlyDeleteRemoves ==
    ASSUME TypeOK, [Next]_vars, NEW g \in store \ store'
    PROVE  \E p \in Procs : DeletePayload(p) /\ g = job[p].graph
<1>1. ~ UNCHANGED store
  OBVIOUS
<1>2. PICK p \in Procs : DeletePayload(p) \/ SavePayload(p)
  BY <1>1, NextCases
  DEF vars, IndexRepo, CacheIndex, ListGraphs, QueryGraph, DeleteGraph, PopIndex, BuildEvidence,
      RecallGraph, FindSimilar, ReviewRCA, SaveIncident, Fail, Restart
<1>. QED
  BY <1>2 DEF DeletePayload, SavePayload

\* With one backend process, no step removes the row of a graph that an
\* incident refers to.
THEOREM DeletionIsGuarded ==
    ASSUME SingleProcess PROVE Spec => DeleteProtection
<1>1. ASSUME TypeOK, DeleteUnreferenced, [Next]_vars
      PROVE  [\A g \in store \ store', a \in Saved : incidents[a].graph # g]_vars
  BY <1>1, OnlyDeleteRemoves DEF DeletePayload, DeleteUnreferenced, Referenced, Saved
<1>. QED
  BY <1>1, TypeCorrect, DeleteStaysUnreferenced, PTL DEF Spec, DeleteProtection

-----------------------------------------------------------------------------
(* One backend process on a database that reports every commit: its local   *)
(* index and the graph store agree but for the row being deleted.           *)

CacheStored == \A p \in Procs : job[p].pc = "cache" => job[p].graph \in store

LEMMA StepLocalBacked ==
    ASSUME SingleProcess, Persistent, ~ AckLoss, TypeOK, LocalBacked, CacheStored, [Next]_vars
    PROVE  LocalBacked' /\ CacheStored'
<1>. USE DEF TypeOK, LocalBacked, CacheStored, SingleProcess, Idle
<1>0. CASE UNCHANGED vars
  BY <1>0 DEF vars
<1>1. ASSUME NEW p \in Procs, NEW g \in Graphs,
             IndexRepo(p, g) \/ QueryGraph(p, g) \/ DeleteGraph(p, g)
      PROVE  LocalBacked' /\ CacheStored'
  BY <1>1 DEF IndexRepo, QueryGraph, DeleteGraph, LocalAfterQuery
<1>2. ASSUME NEW p \in Procs, SavePayload(p)
      PROVE  LocalBacked' /\ CacheStored'
  <2>1. job[p] \in GraphJob
    BY <1>2, JobCases DEF SavePayload
  <2>2. job'[p].pc = "cache" /\ job'[p].graph = job[p].graph /\ store' = store \cup {job[p].graph}
    BY <1>2, <2>1 DEF SavePayload, Goto, GraphJob
  <2>. QED BY <1>2, <2>2 DEF SavePayload
<1>3. ASSUME NEW p \in Procs, CacheIndex(p) \/ PopIndex(p)
      PROVE  LocalBacked' /\ CacheStored'
  BY <1>3 DEF CacheIndex, PopIndex, Finish
<1>4. ASSUME NEW p \in Procs, DeletePayload(p)
      PROVE  LocalBacked' /\ CacheStored'
  <2>1. job[p] \in GraphJob /\ job[p].pc = "delete"
    BY <1>4, JobCases DEF DeletePayload
  <2>2. job'[p].pc = "pop" /\ job'[p].graph = job[p].graph /\ store' = store \ {job[p].graph}
    BY <1>4, <2>1 DEF DeletePayload, Goto, GraphJob
  <2>. QED BY <1>4, <2>1, <2>2 DEF DeletePayload
<1>5. ASSUME NEW p \in Procs, ListGraphs(p) \/ FindSimilar(p) \/ Fail(p) \/ Restart(p)
      PROVE  LocalBacked' /\ CacheStored'
  BY <1>5 DEF ListGraphs, FindSimilar, Fail, Restart, Finish
<1>6. ASSUME NEW p \in Procs, RecallGraph(p)
      PROVE  LocalBacked' /\ CacheStored'
  <2>1. job[p] \in EvidenceJob /\ job[p].pc = "recall"
    BY <1>6, JobCases DEF RecallGraph
  <2>2. job'[p].pc = "similar" /\ UNCHANGED store
    BY <1>6, <2>1 DEF RecallGraph, EvidenceJob
  <2>3. local' \in [Procs -> SUBSET Graphs] /\ local'[p] \subseteq local[p] \cup store
    BY <1>6 DEF RecallGraph, LocalAfterQuery
  <2>. QED BY <2>1, <2>2, <2>3
<1>7. ASSUME NEW p \in Procs, NEW s \in Sessions, NEW a \in Alerts, NEW g \in GraphIds,
             BuildEvidence(p, s, a, g)
      PROVE  LocalBacked' /\ CacheStored'
  BY <1>7 DEF BuildEvidence, LocalAfterQuery
<1>8. ASSUME NEW p \in Procs, NEW s \in Sessions, ReviewRCA(p, s) \/ SaveIncident(p, s)
      PROVE  LocalBacked' /\ CacheStored'
  BY <1>8 DEF ReviewRCA, SaveIncident
<1>. QED
  BY <1>0, <1>1, <1>2, <1>3, <1>4, <1>5, <1>6, <1>7, <1>8, NextCases

\* A single backend process never answers from the memory of a deleted graph,
\* provided that no commit succeeds behind an error: delete_graph drops the row
\* before it drops the index, and only then answers.
THEOREM LocalIndexIsBacked ==
    ASSUME SingleProcess, Persistent, ~ AckLoss
    PROVE  Spec => []LocalBacked
<1>1. Init => LocalBacked /\ CacheStored
  BY DEF Init, LocalBacked, CacheStored, Idle
<1>2. TypeOK /\ LocalBacked /\ CacheStored /\ [Next]_vars => LocalBacked' /\ CacheStored'
  BY StepLocalBacked
<1>. QED
  BY <1>1, <1>2, TypeCorrect, PTL DEF Spec

-----------------------------------------------------------------------------
(* The refinement: a save of the graph store publishes, a delete drops, the *)
(* save of an incident refers, and every other step of the backend stutters. *)

Refs == [a \in Alerts |-> IF a \in Saved THEN incidents[a].graph ELSE NoGraph]

\* What the requests change of the tables that the catalog sees.
LEMMA TablesStay ==
    ASSUME NEW p \in Procs,
           \/ \E g \in Graphs : IndexRepo(p, g) \/ QueryGraph(p, g) \/ DeleteGraph(p, g)
           \/ CacheIndex(p) \/ ListGraphs(p) \/ PopIndex(p)
           \/ \E s \in Sessions, a \in Alerts, g \in GraphIds : BuildEvidence(p, s, a, g)
           \/ RecallGraph(p) \/ FindSimilar(p)
           \/ \E s \in Sessions : ReviewRCA(p, s)
           \/ Fail(p) \/ Restart(p)
    PROVE  UNCHANGED <<store, deleted, incidents>>
BY DEF IndexRepo, QueryGraph, DeleteGraph, CacheIndex, ListGraphs, PopIndex, BuildEvidence,
       RecallGraph, FindSimilar, ReviewRCA, Fail, Restart

LEMMA StepCatalog ==
    ASSUME SingleProcess, IInv, DeleteUnreferenced, [Next]_vars
    PROVE  [Catalog!Next]_(Catalog!catalogVars)
<1>. USE DEF IInv, TypeOK, Catalog!catalogVars
<1>1. ASSUME UNCHANGED <<store, deleted, incidents>>
      PROVE  UNCHANGED Catalog!catalogVars
  BY <1>1 DEF Saved
<1>2. ASSUME NEW p \in Procs, SavePayload(p)
      PROVE  [Catalog!Next]_(Catalog!catalogVars)
  <2>1. job[p] \in GraphJob /\ job[p].graph \in Graphs /\ job[p].pc = "save"
    BY <1>2, JobCases DEF SavePayload
  <2>2. UNCHANGED <<deleted, incidents>>
    BY <1>2 DEF SavePayload
  <2>3. CASE store' = store
    BY <2>2, <2>3, <1>1
  <2>4. CASE store' = store \cup {job[p].graph}
    <3>1. Catalog!Publish(job[p].graph)
      BY <2>1, <2>2, <2>4 DEF SavingIsFresh, Catalog!Publish, Saved
    <3>. QED BY <2>1, <3>1 DEF Catalog!Next
  <2>. QED BY <1>2, <2>3, <2>4 DEF SavePayload
<1>3. ASSUME NEW p \in Procs, DeletePayload(p)
      PROVE  [Catalog!Next]_(Catalog!catalogVars)
  <2>1. job[p] \in GraphJob /\ job[p].graph \in Graphs /\ job[p].pc = "delete"
    BY <1>3, JobCases DEF DeletePayload
  <2>2. /\ store' = store \ {job[p].graph}
        /\ deleted' = deleted \cup (store \cap {job[p].graph})
        /\ UNCHANGED incidents
    BY <1>3 DEF DeletePayload
  <2>3. CASE job[p].graph \notin store
    BY <2>2, <2>3, <1>1
  <2>4. CASE job[p].graph \in store
    <3>1. ~ Referenced(job[p].graph) /\ job[p].graph # NoGraph
      BY <2>1, ConstantsAssumption DEF DeleteUnreferenced
    <3>2. \A a \in Alerts : Refs[a] # job[p].graph
      BY <3>1 DEF Refs, Referenced, Saved
    <3>3. Catalog!Drop(job[p].graph)
      BY <2>2, <2>4, <3>2 DEF Refs, Catalog!Drop, Saved
    <3>. QED BY <2>1, <3>3 DEF Catalog!Next
  <2>. QED BY <2>3, <2>4
<1>4. ASSUME NEW p \in Procs, NEW s \in Sessions, SaveIncident(p, s)
      PROVE  [Catalog!Next]_(Catalog!catalogVars)
  <2>1. session[s] \in Holding
    BY <1>4 DEF SaveIncident, NoRecord
  <2>2. session[s].alert \in Alerts /\ session[s].graph \in Graphs
    BY <1>4, <2>1 DEF SaveIncident, Savable, Holding, GraphIds
  <2>3. UNCHANGED <<store, deleted>>
    BY <1>4 DEF SaveIncident
  <2>4. incidents' = [incidents EXCEPT ![session[s].alert] =
           [graph |-> session[s].graph, own |-> session[s].own, past |-> session[s].past]]
    BY <1>4 DEF SaveIncident
  <2>5. \A a \in Alerts : Refs'[a] = IF a = session[s].alert THEN session[s].graph ELSE Refs[a]
    BY <2>2, <2>4 DEF Refs, Saved, NoRecord
  <2>6. Refs' = [Refs EXCEPT ![session[s].alert] = session[s].graph]
    BY <2>2, <2>5 DEF Refs
  <2>7. Catalog!Refer(session[s].alert, session[s].graph)
    BY ONLY <2>3, <2>6 DEF Refs, Saved, Catalog!Refer
  <2>8. Catalog!Next
    BY <2>2, <2>7 DEF Catalog!Next, Catalog!Refer
  <2>. QED BY <2>8
<1>5. CASE UNCHANGED <<store, deleted, incidents>>
  BY <1>1, <1>5
<1>6. \/ UNCHANGED <<store, deleted, incidents>>
      \/ \E p \in Procs : \/ SavePayload(p) \/ DeletePayload(p)
                          \/ \E s \in Sessions : SaveIncident(p, s)
  BY NextCases, TablesStay DEF vars
<1>. QED
  BY <1>2, <1>3, <1>4, <1>5, <1>6

\* The graph store, the incident memory and the handlers over them implement
\* the abstract catalog when one backend process serves the database.
THEOREM Refinement ==
    ASSUME SingleProcess PROVE Spec => ImplementsCatalog
<1>1. Init => Catalog!Init
  BY DEF Init, Catalog!Init, Saved
<1>2. IInv /\ DeleteUnreferenced /\ [Next]_vars => [Catalog!Next]_(Catalog!catalogVars)
  BY StepCatalog
<1>. QED
  BY <1>1, <1>2, Invariance, DeleteStaysUnreferenced, PTL DEF Spec, ImplementsCatalog, Catalog!Spec

-----------------------------------------------------------------------------
(* Any number of processes.  What the count of a delete request decides is  *)
(* carried out a step later, and another process may come in between.       *)

\* A step of a process that neither begins nor ends the deletion of a row.
LEMMA CondemnedSame ==
    ASSUME NEW p \in Procs, \A q \in Procs \ {p} : job'[q] = job[q],
           job[p].pc # "delete", job'[p].pc # "delete"
    PROVE  Condemned' = Condemned
BY DEF Condemned

\* A process that deletes a row, or fails to: others may be about to do so too.
LEMMA CondemnedLess ==
    ASSUME NEW p \in Procs, \A q \in Procs \ {p} : job'[q] = job[q],
           job[p].pc = "delete", job'[p].pc # "delete"
    PROVE  Condemned' \in {Condemned, Condemned \ {job[p].graph}}
<1>1. CASE \E q \in Procs \ {p} : job[q].pc = "delete" /\ job[q].graph = job[p].graph
  <2>1. Condemned' = Condemned
    BY <1>1 DEF Condemned
  <2>. QED BY <2>1
<1>2. CASE ~ \E q \in Procs \ {p} : job[q].pc = "delete" /\ job[q].graph = job[p].graph
  <2>1. Condemned' = Condemned \ {job[p].graph}
    BY <1>2 DEF Condemned
  <2>. QED BY <2>1
<1>. QED BY <1>1, <1>2

\* The recall query of an evidence request.
LEMMA RecallMovesOn ==
    ASSUME TypeOK, NEW p \in Procs, RecallGraph(p)
    PROVE  /\ \A q \in Procs \ {p} : job'[q] = job[q]
           /\ job[p].pc # "delete" /\ job'[p].pc # "delete"
<1>1. job[p] \in EvidenceJob /\ job[p].pc = "recall"
  BY JobCases DEF RecallGraph
<1>2. PICK found \in SUBSET {QuerySource(p, job[p].graph)} :
        job' = [job EXCEPT ![p] = [job[p] EXCEPT !.pc = "similar", !.found = @ \cup found]]
  BY DEF RecallGraph
<1>. DEFINE next == [job[p] EXCEPT !.pc = "similar", !.found = @ \cup found]
<1>3. next.pc = "similar"
  <2>1. next = [[job[p] EXCEPT !.pc = "similar"] EXCEPT !.found = @ \cup found]
    OBVIOUS
  <2>. QED BY <1>1 DEF EvidenceJob
<1>4. job' = [job EXCEPT ![p] = next] /\ job \in [Procs -> GraphJob \cup EvidenceJob \cup {Idle}]
  BY <1>2 DEF TypeOK
<1>. HIDE DEF next
<1>. QED BY <1>1, <1>3, <1>4

\* The handlers that have no part in a deletion leave it alone.
LEMMA OthersCondemnNothing ==
    ASSUME TypeOK, NEW p \in Procs,
           \/ \E g \in Graphs : IndexRepo(p, g) \/ QueryGraph(p, g)
           \/ SavePayload(p) \/ CacheIndex(p) \/ ListGraphs(p) \/ PopIndex(p)
           \/ \E s \in Sessions, a \in Alerts, g \in GraphIds : BuildEvidence(p, s, a, g)
           \/ RecallGraph(p) \/ FindSimilar(p)
           \/ \E s \in Sessions : ReviewRCA(p, s) \/ SaveIncident(p, s)
    PROVE  Condemned' = Condemned
<1>. USE DEF TypeOK
<1>1. CASE \/ \E g \in Graphs : QueryGraph(p, g)
           \/ ListGraphs(p)
           \/ \E s \in Sessions : ReviewRCA(p, s) \/ SaveIncident(p, s)
  BY <1>1 DEF QueryGraph, ListGraphs, ReviewRCA, SaveIncident, Condemned
<1>2. CASE \/ \E g \in Graphs : IndexRepo(p, g)
           \/ \E s \in Sessions, a \in Alerts, g \in GraphIds : BuildEvidence(p, s, a, g)
  <2>1. /\ \A q \in Procs \ {p} : job'[q] = job[q]
        /\ job[p].pc # "delete" /\ job'[p].pc # "delete"
    BY <1>2 DEF IndexRepo, BuildEvidence, Idle
  <2>. QED BY <2>1, CondemnedSame
<1>3. CASE SavePayload(p) \/ CacheIndex(p) \/ PopIndex(p)
  <2>1. job[p] \in GraphJob /\ job[p].pc # "delete"
    BY <1>3, JobCases DEF SavePayload, CacheIndex, PopIndex
  <2>2. (\A q \in Procs \ {p} : job'[q] = job[q]) /\ job'[p].pc # "delete"
    BY <1>3, <2>1 DEF SavePayload, CacheIndex, PopIndex, Goto, Finish, Idle, GraphJob
  <2>. QED BY <2>1, <2>2, CondemnedSame
<1>4. CASE FindSimilar(p)
  <2>1. (\A q \in Procs \ {p} : job'[q] = job[q]) /\ job[p].pc # "delete" /\ job'[p].pc # "delete"
    BY <1>4 DEF FindSimilar, Finish, Idle
  <2>. QED BY <2>1, CondemnedSame
<1>5. CASE RecallGraph(p)
  BY <1>5, RecallMovesOn, CondemnedSame
<1>. QED BY <1>1, <1>2, <1>3, <1>4, <1>5

\* SavePayload: a snapshot that is new to everybody is published.
LEMMA SavePublishes ==
    ASSUME IInv, NEW p \in Procs, SavePayload(p)
    PROVE  [Shared!Next]_(Shared!catalogVars)
<1>. USE DEF IInv, TypeOK, Shared!catalogVars
<1>1. job[p].graph \in Graphs /\ job[p].pc = "save" /\ Condemned' = Condemned
  BY JobCases, OthersCondemnNothing DEF SavePayload
<1>2. UNCHANGED <<deleted, incidents>> /\ UNCHANGED Refs
  BY DEF SavePayload, Refs, Saved
<1>3. CASE store' = store
  BY <1>1, <1>2, <1>3 DEF Refs
<1>4. CASE store' = store \cup {job[p].graph}
  <2>1. Shared!Publish(job[p].graph)
    BY <1>1, <1>2, <1>4 DEF SavingIsFresh, Shared!Publish, Refs
  <2>. QED BY <1>1, <2>1 DEF Shared!Next
<1>. QED BY <1>3, <1>4 DEF SavePayload

\* DeletePayload: the row of a graph that was doomed is dropped.
LEMMA DeleteDrops ==
    ASSUME IInv, NEW p \in Procs, DeletePayload(p)
    PROVE  [Shared!Next]_(Shared!catalogVars)
<1>. USE DEF IInv, TypeOK, Shared!catalogVars
<1>. DEFINE g == job[p].graph
<1>1. job[p] \in GraphJob /\ g \in Graphs /\ job[p].pc = "delete" /\ g \in Condemned
  BY JobCases DEF DeletePayload, Condemned
<1>2. (\A q \in Procs \ {p} : job'[q] = job[q]) /\ job'[p].pc # "delete"
  BY <1>1 DEF DeletePayload, Goto, Finish, Idle, GraphJob
<1>3. Condemned' \in {Condemned, Condemned \ {g}}
  BY <1>1, <1>2, CondemnedLess
<1>4. /\ store' = store \ {g} /\ deleted' = deleted \cup (store \cap {g})
      /\ UNCHANGED incidents /\ UNCHANGED Refs
  BY DEF DeletePayload, Refs, Saved
<1>5. CASE g \in store
  <2>1. Shared!Drop(g)
    BY <1>1, <1>3, <1>4, <1>5 DEF Shared!Drop, Refs
  <2>. QED BY <1>1, <2>1 DEF Shared!Next
<1>6. CASE g \notin store
  <2>1. UNCHANGED <<store, deleted>>
    BY <1>4, <1>6
  <2>2. CASE Condemned' = Condemned
    BY <1>4, <2>1, <2>2 DEF Refs
  <2>3. CASE Condemned' = Condemned \ {g}
    <3>1. Shared!Spare(g)
      BY <1>4, <2>1, <2>3 DEF Shared!Spare, Refs
    <3>. QED BY <1>1, <3>1 DEF Shared!Next
  <2>. QED BY <1>3, <2>2, <2>3
<1>. QED BY <1>5, <1>6

\* DeleteGraph: the count of the incidents dooms a graph.
LEMMA CountDooms ==
    ASSUME TypeOK, NEW p \in Procs, NEW g \in Graphs, DeleteGraph(p, g)
    PROVE  Shared!Next
<1>. USE DEF TypeOK
<1>1. job' = [job EXCEPT ![p] = [pc |-> "delete", graph |-> g]] /\ job[p].pc # "delete"
  BY DEF DeleteGraph, Idle
<1>2. Condemned' = Condemned \cup {g}
  BY <1>1 DEF Condemned
<1>3. UNCHANGED <<store, deleted, incidents>> /\ UNCHANGED Refs
  BY DEF DeleteGraph, Refs, Saved
<1>4. \A a \in Alerts : Refs[a] # g
  BY ConstantsAssumption DEF DeleteGraph, Referenced, Refs, Saved
<1>5. Shared!Doom(g)
  BY <1>2, <1>3, <1>4 DEF Shared!Doom, Refs
<1>. QED BY <1>5 DEF Shared!Next

\* A request that fails, or is lost with its process, may spare a graph.
LEMMA FailureSpares ==
    ASSUME TypeOK, NEW p \in Procs, Fail(p) \/ Restart(p)
    PROVE  [Shared!Next]_(Shared!catalogVars)
<1>. USE DEF TypeOK, Shared!catalogVars
<1>1. UNCHANGED <<store, deleted, incidents>> /\ UNCHANGED Refs
  BY DEF Fail, Restart, Refs, Saved
<1>2. (\A q \in Procs \ {p} : job'[q] = job[q]) /\ job'[p].pc # "delete"
  BY DEF Fail, Restart, Finish, Idle
<1>3. CASE Condemned' = Condemned
  BY <1>1, <1>3 DEF Refs
<1>4. CASE job[p].pc = "delete" /\ Condemned' = Condemned \ {job[p].graph}
  <2>1. Shared!Spare(job[p].graph) /\ job[p].graph \in Graphs
    BY <1>1, <1>4, JobCases DEF Shared!Spare, Refs
  <2>. QED BY <2>1 DEF Shared!Next
<1>. QED BY <1>2, <1>3, <1>4, CondemnedSame, CondemnedLess

\* SaveIncident: an alert comes to name a graph.
LEMMA SaveRefers ==
    ASSUME TypeOK, NEW p \in Procs, NEW s \in Sessions, SaveIncident(p, s)
    PROVE  Shared!Next
<1>. USE DEF TypeOK
<1>1. session[s].alert \in Alerts /\ session[s].graph \in Graphs
  BY DEF SaveIncident, NoRecord, Savable, Holding, GraphIds
<1>2. UNCHANGED <<store, deleted>> /\ Condemned' = Condemned
  BY OthersCondemnNothing DEF SaveIncident
<1>3. incidents' = [incidents EXCEPT ![session[s].alert] =
         [graph |-> session[s].graph, own |-> session[s].own, past |-> session[s].past]]
  BY DEF SaveIncident
<1>4. \A a \in Alerts : Refs'[a] = IF a = session[s].alert THEN session[s].graph ELSE Refs[a]
  BY <1>1, <1>3 DEF Refs, Saved, NoRecord
<1>5. Refs' = [Refs EXCEPT ![session[s].alert] = session[s].graph]
  BY <1>1, <1>4 DEF Refs
<1>6. Shared!Refer(session[s].alert, session[s].graph)
  BY ONLY <1>2, <1>5 DEF Refs, Saved, Condemned, Shared!Refer
<1>. QED BY <1>1, <1>6 DEF Shared!Next, Shared!Refer

LEMMA StepShared ==
    ASSUME IInv, [Next]_vars
    PROVE  [Shared!Next]_(Shared!catalogVars)
<1>1. CASE UNCHANGED vars
  BY <1>1 DEF vars, Shared!catalogVars, Saved, Condemned
<1>2. ASSUME NEW p \in Procs,
             \/ \E g \in Graphs : IndexRepo(p, g) \/ QueryGraph(p, g)
             \/ CacheIndex(p) \/ ListGraphs(p) \/ PopIndex(p)
             \/ \E s \in Sessions, a \in Alerts, g \in GraphIds : BuildEvidence(p, s, a, g)
             \/ RecallGraph(p) \/ FindSimilar(p)
             \/ \E s \in Sessions : ReviewRCA(p, s)
      PROVE  UNCHANGED Shared!catalogVars
  <2>1. UNCHANGED <<store, deleted, incidents>>
    BY <1>2, TablesStay
  <2>2. Condemned' = Condemned
    BY <1>2, OthersCondemnNothing DEF IInv
  <2>. QED BY <2>1, <2>2 DEF Shared!catalogVars, Saved
<1>. QED
  BY <1>1, <1>2, NextCases, SavePublishes, DeleteDrops, CountDooms, FailureSpares, SaveRefers DEF IInv

\* For any number of backend processes on one database, with crashes and lost
\* acknowledgements: the store, the memory and the requests in hand implement
\* the catalog in which a deletion is decided before it is carried out.
THEOREM SharedRefinement == Spec => ImplementsSharedCatalog
<1>1. Init => Shared!Init
  BY DEF Init, Shared!Init, Saved, Condemned, Idle
<1>2. IInv /\ [Next]_vars => [Shared!Next]_(Shared!catalogVars)
  BY StepShared
<1>. QED
  BY <1>1, <1>2, Invariance, PTL DEF Spec, ImplementsSharedCatalog, Shared!Spec

\* A stored graph that an incident names, and that nobody is about to delete.
Protected(g) == g \in store /\ Referenced(g) /\ g \notin Condemned

\* It stays so for as long as an incident names it, whoever deletes what.
ReferencesProtect == [][\A g \in Graphs : Protected(g) =>
                            /\ g \in store'
                            /\ Referenced(g)' => Protected(g)']_vars

\* delete_graph of the middleware, for any number of processes: only a deletion
\* that had counted the incidents before the first of them was saved can take
\* the graph of an incident.  So the first finding needs exactly that overlap.
THEOREM OnlyEarlierDeletions == Spec => ReferencesProtect
<1>1. ASSUME IInv, [Next]_vars, NEW g \in Graphs, Protected(g)
      PROVE  g \in store' /\ (Referenced(g)' => Protected(g)')
  <2>1. g \in store'
    BY <1>1, OnlyDeleteRemoves DEF IInv, Protected, DeletePayload, Condemned
  <2>2. g \notin Condemned'
    <3>1. [Shared!Next]_(Shared!catalogVars)
      BY <1>1, StepShared
    <3>2. \E a \in Alerts : Refs[a] = g
      BY <1>1 DEF Protected, Referenced, Refs, Saved
    <3>3. \A h \in Graphs : Shared!Doom(h) => h # g
      BY <3>2 DEF Shared!Doom, Refs
    <3>4. Condemned' \subseteq Condemned \/ \E h \in Graphs : Shared!Doom(h) /\ Condemned' = Condemned \cup {h}
      BY <3>1 DEF Shared!Next, Shared!catalogVars, Shared!Publish, Shared!Doom, Shared!Spare,
                  Shared!Drop, Shared!Refer
    <3>. QED BY <1>1, <3>3, <3>4 DEF Protected
  <2>. QED BY <2>1, <2>2 DEF Protected
<1>2. IInv /\ [Next]_vars =>
        [\A g \in Graphs : Protected(g) =>
            /\ g \in store'
            /\ Referenced(g)' => Protected(g)']_vars
  BY <1>1
<1>. QED BY <1>2, Invariance, PTL DEF Spec, ReferencesProtect
\* An incident is not tied to its graph only when that graph has been deleted.
UntiedIsDeleted ==
    Persistent => \A a \in Saved : \/ incidents[a].own \subseteq {incidents[a].graph}
                                   \/ incidents[a].graph \in deleted \ store

\* save_incident and query_graph, for any number of processes that share a
\* database: the second finding needs a deletion.  An incident whose evidence is
\* not of the graph it names can only name one that was deleted on request, for
\* a client is given no id that is not stored.
THEOREM OnlyDeletionUnties == Spec => []UntiedIsDeleted
<1>1. IInv => UntiedIsDeleted
  <2>. SUFFICES ASSUME IInv, Persistent, NEW a \in Saved,
                       ~ incidents[a].own \subseteq {incidents[a].graph}
                PROVE  incidents[a].graph \in deleted \ store
    BY DEF UntiedIsDeleted
  <2>1. incidents[a].graph \notin store
    BY DEF IInv, StoredGraphEvidenceSound
  <2>2. incidents[a].graph \in store \cup deleted
    BY DEF IInv, NamesKnown, KnownIsDurable
  <2>. QED BY <2>1, <2>2
<1>. QED BY <1>1, Invariance, PTL
=============================================================================
