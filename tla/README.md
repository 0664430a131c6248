# LegacyPilot in TLA+

A TLA+ model of LegacyPilot: modules that model the program, TLC runs that check
them on small instances, and theorems that TLAPS proves for every instance.
Paths are relative to the repository; `middleware/router.py` and the like are
short for `legacy_pilot/middleware/router.py`.

## The system

LegacyPilot indexes a code repository, answers production alerts from the code
graph, lets a language model reason over the evidence, and remembers what a user
confirmed. A FastAPI middleware is the only entry; a React workbench drives it.

| Part | State it keeps | Operations |
| --- | --- | --- |
| Middleware (`middleware/`) | none of its own; a lazily created memory store | the routes; converts lower failures into `ContractError` envelopes |
| Structure 1, code knowledge core (`code_knowledge_core/`) | `_local_indexes`, one per process; the graph payload table in PostgreSQL; the index GitNexus keeps of a repository | `index_repo`, `query_graph`, `list_graphs`, `delete_graph` |
| Repository importer (`code_knowledge_core/repo_importer.py`) | cached clones on disk | resolve a local path, `file://` or GitHub/GitLab URI; clone once, accept what is there later |
| GitNexus client (`gitnexus_client.py`, `gitnexus_mapper.py`) | none; runs the CLI | analyze, cypher, context; normalisation and mapping to the contracts |
| Enrichment (`enrichment.py`, `extractors/`, `semantic.py`) | none | adds SQL, configuration, exception and semantic facts to a payload |
| Local graph index (`local_graph_index.py`, `query_planner.py`) | one payload | plan a query, search seeds, follow paths |
| Structure 2, context builder (`incident_context_builder/`) | none | parse an alert, query (and recall), partition evidence into a bundle |
| Structure 3, RCA engine (`rca_reasoning_engine/`) | none; a loop per request | `generate_rca` with repairs, `review_rca` |
| Structure 4, incident memory (`incident_memory_store/`) | the incident table in PostgreSQL | save (upsert), load, find similar, count by graph |
| Workbench (`frontend/src/App.tsx`, `api.ts`) | the form, the step log, one artefact per step | the steps, the full pipeline, reset, edit, delete a graph |
| Contracts (`contracts/`) | request-scoped credentials | model validation |

How they interact. The workbench sends one HTTP request per step and passes the
answer of one step as the body of the next. The route handlers are `async def`
functions that never await, so a backend process runs one request at a time, to
its end. What one request does is nevertheless not atomic: each store opens a
transaction of its own, so a crash, or another process on the same database, may
come between two of them; and GitNexus keeps its own index of a repository, which
belongs to no snapshot. The identity that ties things together is `graph_id`, the
id of one snapshot of one analysis: the alert, the query, the bundle, the reports
and the incident carry it.

What is hard here, and what must hold:

- **Snapshots and memory.** A graph id is given out only when its payload is
  durable; a graph an incident refers to is not deleted; evidence for a graph
  comes from that graph. Dangers: the steps of two requests on two processes, a
  crash between two transactions, a commit whose acknowledgement is lost, a local
  index that outlives its row, the live index answering for a graph that is gone.
- **RCA engine.** Whatever the language model answers, a report cites evidence of
  its bundle only; with thin evidence it is hedged; the repairs end; metadata
  tells the truth. Dangers: invented ids, a transport failure between two repairs,
  any number in the environment variable.
- **Workbench.** What the screen shows belongs to what the form says. Dangers:
  answers that arrive after an edit or a reset.
- **Importer, GitNexus client and enrichment.** A payload is that of the repository
  asked for, of the whole of it, and of files no older than the request. Dangers: a
  clone that is cut off, two processes that clone into one directory while it is
  empty, one alias for
  what several repositories were indexed as, an analysis repeated for ever, files
  that are read twice and edited in between.
- **Local index, live queries and context builder.** Paths are paths of the graph,
  answers are closed, evidence is not lost between query and bundle. Dangers: limits
  that cut nodes and relationships independently, cycles, two chains joined and cut,
  three places that apply a filter, a second query merged with the first, an
  answer of the tool in any order.
- **Incident memory.** What was confirmed is found again, the best match first, and
  evidence stays in the repository it was taken from. Dangers: only as many records
  are read as may be returned, a time stamp that is older than its transaction,
  overlapping and repeated saves, one incident id for two repositories.

`PROJECT.json` lists the components with their status and the hazards with their
lines.

## The modules

| Module | What it is | Checked by | Proved in |
| --- | --- | --- | --- |
| `GraphCatalog` | abstract: snapshot rows and the references to them | refinement from `GraphMemory` | `GraphMemoryProofs` |
| `SharedCatalog` | abstract: the same, where a deletion is decided before it is carried out | refinement from `GraphMemory` | `GraphMemoryProofs` |
| `GraphMemory` | middleware, Structures 1, 2 and 4 over the two tables | `MCGraphMemory` | `GraphMemoryProofs` |
| `Investigation` | abstract: one request for a report that cites what is known | refinement from `RCAEngine` | `RCAEngineProofs` |
| `RCAEngine` | Structure 3, and what is saved of its report | `MCRCAEngine` | `RCAEngineProofs` |
| `Workbench` | the React component | `MCWorkbench` | `WorkbenchProofs` |
| `CheckoutCache` | abstract: directories that are claimed while they are empty, and filled | refinement from `RepoIndexing` | `RepoIndexingProofs` |
| `RepoIndexing` | importer, `GitNexusCliClient.index_repo`, the enrichers' reading | `MCRepoIndexing` | `RepoIndexingProofs` |
| `IncidentMemory` | Structure 4: save, upsert, search and ranking, and what is cited of it | `MCIncidentMemory` | `IncidentMemoryProofs` |
| `LocalGraphIndex` | the search of a process-local index | through `ContextBuilder` | `LocalGraphIndexProofs`, `ContextBuilderProofs` |
| `GitNexusContext` | a query that the tool answers itself | through `ContextBuilder` | `GitNexusContextProofs`, `ContextBuilderProofs` |
| `ContextBuilder` | a query answered from either; Structure 2's bundle | `MCContextBuilder` | `ContextBuilderProofs` |

The modules meet in abstractions. `GraphMemory` takes from `RepoIndexing` that
an index request leaves the tool holding an analysis and returns a payload of it,
or fails; from `ContextBuilder` that a query returns some evidence of one
analysis, that little evidence brings a second query, and that a bundle holds a
part of what was found; and from `IncidentMemory` that past incidents may be cited.
`IncidentMemory` in turn takes from it that the evidence of a bundle is that of the
repository of the alert. `RCAEngine` starts from any bundle `ContextBuilder` may
build (`Init`: without matched nodes and paths, something is missing; that the bundles
of `ContextBuilder` are such is the theorem `BundlesAreUnderstood`), and `Workbench` sees of the backend only answers and failures.
`ContextBuilder` extends `GitNexusContext`, which extends `LocalGraphIndex`: one request
is a search or a live query, in one state machine.

A definition that stands just before another and is used nowhere is a seeded bug:
a plausible mistake in that code (a guard dropped, an off-by-one), with which the
property it is paired with in `PROJECT.json` fails.

### GraphMemory

A handler is a sequence of actions, cut where a transaction ends; `job[p]` says
where process `p` is. `index_repo` is `IndexRepo` (analysis, read back, snapshot id),
`SavePayload` (the transaction), `CacheIndex` (`_local_indexes`, response).
`delete_graph` is `DeleteGraph` (count the incidents), `DeletePayload`, `PopIndex`.
`build_evidence_bundle` is `BuildEvidence`, `RecallGraph`, `FindSimilar`; a query
takes its answer from the local index, else the stored payload, else the live
GitNexus index (`QuerySource`). `ReviewRCA` stands for `generate_rca` and
`review_rca`, which keep no state. `Fail` is an exception at any step, `Restart` the
loss of the process with its local indexes. With `AckLoss` a commit may succeed
behind an error.

Two abstract catalogs say what the tables and the requests come to. In `GraphCatalog`
a graph is dropped only while no incident names it; one process implements it. In
`SharedCatalog` a graph is doomed while no incident names it and dropped later, unless
it is spared; any number of processes implement that, where the doomed graphs are those
in a `DeletePayload` to come (`Condemned`). What lies between the two is the first
finding.

A piece of evidence is represented by the analysis it was taken from: this is what
tells an answer from the right graph from one of another. One repository: the
tables and local indexes are keyed by it first. A query and the load of a payload
that it needs are one action (a delete in between gives an answer that it could
have given just before), and so are the generation and the review of a report.

### RCAEngine

`bundle` is any that has nodes and paths of a graph or names something as missing
(`Init`; those of `ContextBuilder` are such), `reply` any answer of the language model: well-formed, with
known and unknown ids, any wording the gate looks at and any confidence of a small
set, or `Garbled`, which stands for whatever raises a `ValueError` or a validation
error, confidences out of range included. `Post`, `PostFails`, `Accept`, `Repair` and
`GiveUp` are the branches of the loop. How the words of a summary are compared with
the evidence is left out: `matched` is any set of references. Evidence of the graph
and that of similar incidents are one set, `known`, as the code mixes them before
it looks at any.

`StepsLeft` is the variant of the loop: two steps for each repair that is left, and
one or two for the request in hand. `Investigation` is what a caller sees of all
this: an answer that is a grounded report or a refusal, once, and an incident made of
the approved conclusions of that report.

### Workbench

`form`, `status`, `snapshot` and `shown` are the React states; an artefact is
represented by the alert it is about. A handler is two actions: the click, which
sends the request with the values of that moment, and the answer. `calls` holds
what is in flight, and answers come in any order. `late` and `mixed` are history: a
clearing overtook the request, and such an answer has arrived. A failed step is
as good as an idle one. The save form, the list of graphs, settings and views are
left out.

### RepoIndexing

`checkout[r]` is the cache directory: absent, bare (no `.git` yet, so empty), partial
or complete; a repository that is named by a path (`Local`) is complete from the
start. `_import_remote_repo` is `AcceptCheckout` or `CloneRepo`, which finds no
directory, then git's steps until `CloneDone`, `CloneFails` (non-zero code) or
`CloneCutOff` (the timeout kills git, or the backend dies). The steps of git are
external: `GitBegins` makes the directory, or takes one that is there and empty,
whoever made it (`Vacant`); `GitWrites` makes `.git` and what else it writes, without
looking again. A clone that fails removes what is in the directory, others' files
included, and the directory too if it made that (`made`, `CleanedUp`); that is one step
here. One whose transfer was complete but which fails to check the files out leaves
them, which is a case of `CloneCutOff`. `shared` is history: two clones were in the
directory since it was new, and then `Cloned` allows more than a complete checkout.
`index_repo` is `Analyze`
and `ReadGraph`, in the order `FirstStage` gives: analysis first when it is forced
(the default), reading first in stable mode, with one retry (`ReadEmpty`). The
adapter then has the files of the checkout read again by the enrichers (`Enrich`,
or `EnrichFails`). A request that is refused changes nothing and is no action, which
is why the model may stop. `payload` is what the last step returned, and nothing
else. The repositories share one `repo_id`, the alias under which the tool keeps its
index.

`Edit` is somebody who changes files of a checkout. One number counts the edits of
all checkouts, and stands for what an analysis or an enricher reads. An analysis
reads at one moment, and so do the enrichers: edits between two extractors, and
git's own writing as a kind of edit, are left out, and so is a git process that
survives a dead backend.

`CheckoutCache` is what the directories come to: `content[r]` is nothing, an empty
directory, a part or the whole, and `makers[r]` are the processes that git writes for.
A directory is claimed only while nothing is in it, and changed only by those that
claimed it: that much git's refusal of a directory that is not empty gives the
importer, which has no lock of its own. It does not keep a second clone out of a
directory that the first has made and not yet written to. Of such a directory
(`shared`) the abstract cache promises nothing until all have left it.

### IncidentMemory

`table` holds one row per alert id, for the incident id is made of nothing else. A
session searches incidents that resemble an alert and gets a report on it that cites
some of their evidence (`FindSimilarIncidents`), and saves the report in two steps:
`BuildRecord` reads the time, `SaveIncident` is the transaction, whose
acknowledgement may be lost. After that, or after `SaveFails`, it may save again, or turn
to another alert (`Abandon`). `Answers` is the search: the rows of the repository
in the order of their times, ties in any order, the first `BoundedLimit` of them,
`Similarity` in percent (45 for the error type, 30 for the location, 25 shared by the
terms), rows without any similarity dropped, sorted. A text is the set of terms that
occur in it; keywords count like the two terms there are; a piece of evidence is the
repository it was taken from. `confirmed` is history: when the save that wrote a row
began and ended.

### LocalGraphIndex, GitNexusContext and ContextBuilder

`Payload` makes the graph as the code does: relationships cut to one limit, nodes
independently to another, so relationships may dangle, then what the enrichers
add. The search takes one level of the queue per step, for all seeds: the code
handles every path by itself, in order of length. Lists are sets, so order is left
out. Nodes and relationships stand for their evidence. What a term finds is chosen
when it is first searched for and then fixed; node filters are part of that choice.
`AnswerIsExact` compares the answer with a definition that knows of no queue, level or
direction: the simple walks through what was found, joined, cut and filtered. The recall
repeats the terms of the first query, of which the planner takes the same
one, so only its depth is new.

A graph that has no index, here or in the store, is asked of the tool
(`QueryGitNexus`, `GitNexusFails`). The tool names one of the symbols found with its
callers and callees, in any order; `ContextOf` normalises them: a dictionary of nodes
that keeps the first of each and is cut, the relationships cut by themselves, one path
through the first caller, the symbol and the first callee. The mapper drops nothing
for want of an end (`gitnexus_mapper.py:95` looks for empty ids only), so a node that a
cut took is missing while a relationship or the path still names it. Hence
`AnswerIsClosed` asks of a cut live answer only that each relationship kept an end: all
of them join the symbol that was asked for, and that one is kept. For this, and for
`AnswerHasCenter`, the node limit is at least 1 (`SearchAssumption`), which is so by
default; the environment variable may set it lower. The commands that make up `context` and `cypher` are
one step: nothing else runs between them that the answer could depend on.

## The runs

| Run | Instance | What it shows |
| --- | --- | --- |
| `GraphMemory_shared` | 2 processes, 1 session, 1 alert, 2 graphs, PostgreSQL, `AckLoss` | `TypeOK`; `KnownIsDurable`: no published graph is lost; `StoredGraphEvidenceSound`: evidence held for a stored graph comes from it; the refinement `ImplementsSharedCatalog` |
| `GraphMemory_single` | 1 process, 2 alerts, 2 graphs | `LocalBacked`, and the refinement `ImplementsCatalog`, of which `DeleteProtection` is a part |
| `RCAEngine_closed` | 2 evidence ids and an unknown one, 2 conclusions, 7 repairs set | `EvidenceClosed`, `ThinEvidenceIsHedged`, `RequestsBounded`, `MetadataTruthful`; the loop can always go on (`NeverStuck`) and ends (`Answered`); the refinement `ImplementsInvestigation` |
| `Workbench_screen` | 2 alerts, 1 graph, 2 requests in flight | `ShownMatchesForm`, `PassedIsShown`, `RunningIsInFlight`, `PipelineKeepsItsAlert` |
| `ContextBuilder_evidence` | all indexed graphs of 3 symbols, up to 2 relationships of 2 types, and their summaries; all live ones of up to 2 relationships | the answer of a search: `AnswerIsExact`, `AnswerIsClosed`, `AnswerHasCenter`, `AnswerMatchesFilter`; the bundle: `MissingTogether`, `EvidenceIsGrounded`, `RecallDeepens`, `MergeAddsPathsOnly` |
| `RepoIndexing_requests` | 2 processes, 2 repositories, one of them local, 1 edit | `PartsAreExplained`, `OwnAnalysis`, `FreshSnapshot`; `NeverStuck` and `Ends`: a request in hand can go on, and ends; the refinement `ImplementsCache`, of which it is a part that a complete checkout stays unless two clones are sharing its directory |
| `IncidentMemory_ranking` | 2 sessions, 3 alerts, 2 repositories, 3 saves, limit 2 | `FoundAgain` and `BestFirst`: only the limit hides an incident; `EvidenceStaysHome`; `OnlyOverlapsGoBack` |
| `GraphMemory_two_deleters` | 2 processes | violation of `DeleteProtection` |
| `GraphMemory_tied` | 1 process | violation of `IncidentTiedToItsGraph` |
| `RCAEngine_unknown`, `RCAEngine_raised` | 1 repair | violations of `UnknownIdsRejected`, `FailuresEnveloped` |
| `Workbench_skip` | 1 alert | violation of `SkippedIndexIsNotRun` |

One run of each module checks its `TypeOK`.

Why the bounds are enough. Two processes are enough for every interleaving of two
requests, and all rules of the code relate one request to one other. Two
graphs give a deleted and a live one, two alerts two incidents that name the same
graph. Two evidence ids reach both sides of `LowRecallMinRefs`; 7 repairs reach the
clamp at 3. Two requests in flight give every pair of answers in either order;
the run of the workbench stops at the first overtaken answer (`UpToFirstMix`),
after which the form and the screen are known to be allowed to differ. Three symbols
have chains as long as the largest depth, cycles, self loops and parallel
relationships; depths are scaled (4 and 6 in the code are 2 and 3) so that a chain
can be longer than one and shorter than the other; a limit of two nodes and two
relationships cuts an indexed graph and a live answer alike (`NodeCap`, `EdgeCap`,
`LiveRows`). Two sessions overlap two saves, three saves to three alerts with a
limit of two put one incident outside of the window (`MaxTime`, `Limit`); one edit
falls between any two steps of a request (`MaxEdits`). One repository that is cloned
and one that is not (`Local`) share the alias; two clones at once meet in one
directory, as those of two directories have nothing to do with each other. What holds for every bound is
in the proofs.

Fairness. `RCAEngine` has `WF_vars(Generate)`: the loop is sequential and every
socket operation has a timeout. `RepoIndexing` has `WF_vars(Work(p))` for each
process (`GoesOn`): git and the tool run under a timeout. Weak fairness is enough for
both, as what is in hand can go on at every moment until it is over (`NeverStuck`).
Nothing else is assumed to happen. Deadlock is not checked where a request ends for
good (`RCAEngine`, `ContextBuilder`) or where every further request may be refused
(`RepoIndexing`).

## Findings

Five claims of the documentation do not hold, each with a run that shows it.

1. With two backend processes an incident saved between the count and the deletion
   loses its graph (`router.py:125`, `README.md:247`). Nothing else does it, by
   `OnlyEarlierDeletions`.
2. A session that still holds the id of a deleted graph is answered from the live
   index, and its incident names a graph its evidence is not from
   (`adapter.py:220`, `README.md:51`). It takes a deletion, by `OnlyDeletionUnties`.
3. Unknown evidence ids are replaced rather than rejected when something matches
   (`rca_reasoning_engine/adapter.py:422`, `README.md:46`).
4. A read timeout or a body that is no JSON leaves the engine unconverted
   (`rca_reasoning_engine/adapter.py:615`, `README.md:56`).
5. The full pipeline runs the index step that the user skipped when the repository
   form holds a URI (`App.tsx:452`, `README.md:386`), and only then
   (`OnlyURIRunsSkippedIndex`).

Weaknesses the models show and no document denies:

- A clone cut off after `.git` exists is accepted for ever after, one cut off before
  blocks the repository until somebody removes the directory; an existing checkout is
  never fetched again.
- Two processes that saw no directory may both clone into it if the second begins
  before the first has written anything. Then a checkout that the first has completed
  and handed on is overwritten, or removed when the second fails, and an analysis of it
  may see any part (the exceptions of `CompleteStays`, `ImplementsCache` and
  `PartsAreExplained`; without the first one the run has the trace).
- In stable mode the graph of another repository under the same alias is returned,
  and an old analysis is merged with new facts (hence the premise
  `force \/ payload.analyzed` of `OwnAnalysis` and `FreshSnapshot`).
- A chain into a seed that is as long as the depth leaves no room for what follows the
  seed (`RecallDeepens` is about parts of paths for that reason).
- A live answer ignores depth and filters, so a recall repeats the question; where its
  nodes were cut its path and relationships name nodes that are not in it.
- The incident of an alert is found as the one most similar to it when the alert is
  investigated again. `dedup_key` is stored and never looked up, although
  `README.md:315-316` says that it serves lookup and upsert. Alerts of two repositories
  with one id share an incident, whose row the later one takes; its evidence goes with
  it (`EvidenceStaysHome`).
- Only the latest records, as many as may be returned, are compared (`FoundAgain` says
  exactly that much).

## The proofs

TLAPS proves, for every value of the constants that meets the named assumptions:

- **GraphMemoryProofs.** `TypeCorrect`, `EvidenceFromStoredGraph` and
  `PublishedGraphsAreDurable` for any number of processes. `KnownIsDurable` is not
  inductive alone: a graph being cached must be stored already, and an id that is
  stored or deleted must have been issued, or a save could bring a deleted graph
  back; evidence in hand in a job must obey what evidence in a session does.
  Under `SingleProcess`: `DeleteStaysUnreferenced` (between the count and the
  deletion no incident comes to name the graph), from which follow `DeletionIsGuarded`
  and `Refinement`: each step is a step of `GraphCatalog` or a stutter. The first
  finding shows that the assumption is needed. Without it, for any number of processes,
  `SharedRefinement`: each step is one of `SharedCatalog` or a stutter. A request that
  counted no incident dooms its graph; the end of one need not spare it, for another may
  have decided the same (`CondemnedLess`). Hence `OnlyEarlierDeletions`: a stored graph
  that an incident names, and that was not doomed by then, stays stored and stays
  undoomed for as long as an incident names it, so the overlap of the first finding, a
  save between a count and its deletion, is the only way to lose it. `OnlyDeletionUnties`
  marks out the second finding in the same way. `LocalIndexIsBacked` needs a
  persistent store and no lost acknowledgement besides.
- **RCAEngineProofs.** `ReportsAreBacked`, `ThinEvidenceHedged`, `RequestsAreBounded`,
  `MetadataIsTruthful`, from one invariant that ties `posts`, `attempt` and `repairs`
  to `pc` and says that an accepted report was acceptable. `LoopComesToItsEnd`: every
  step of the loop lowers its variant. `RequestsAreAnswered` is the liveness property
  itself: at most eight steps are left (`EightSteps`), each that is taken is one less and
  none comes back (`FewerSteps`), and fairness takes one as long as one is possible.
  `GuardsCoverTheLoop`: as long as a request is in hand the conditions of some step hold,
  for what was asked about once had evidence and the bundle does not change, and no
  answer is left out between accepting, repairing and giving up.
  `Refinement`: what the caller sees is an `Investigation`; the evidence of a report is
  among the known because it was acceptable, and that of the incident is that of the
  approved conclusions.
- **WorkbenchProofs.** `ScreenMatchesForm`, `PassedStepsAreShown`,
  `RunningStepsAreInFlight` and, as an action property, `PipelinesKeepTheirAlert`, for
  any number of alerts, graphs and requests in flight. What the invariant adds is
  `CallsMatchForm`: a request that no clearing overtook is about the alert in the
  form, so its answer may be shown. `OnlyURIRunsSkippedIndex` says what the pipeline
  begins with after a skipped step, and so when the fifth finding is met: there is no
  snapshot on the screen while the step is skipped (`SkippedHasNoSnapshot`).
- **RepoIndexingProofs.** `CompleteCheckoutsStay`, `PartsExplained`,
  `OwnAnalysisReturned`, `SnapshotsAreFresh`, for any number of processes, repositories
  and edits. The invariant adds that git writes alone, and finds what it wrote, in a
  directory that is not shared (`LoneWriter`), that an unfinished directory is being
  written, was cut off or was shared (`UnfinishedIsExplained`), the same of an
  incomplete index, and what a request that is about to read knows (`ReaderKnows`): an
  index that it made itself, or that is of its repository, came after it did.
  `Refinement`: the directories are a `CheckoutCache`; the step that matters is that of a
  clone which begins: either nobody is in the directory, or it is shared from then on,
  and in one that is not shared `LoneWriter` gives the content that each step of the
  cache asks for. `RequestsComeToTheirEnd`: every step of a request lowers the number of
  steps it has left, the one retry included, and no step of another raises it, for the
  number depends on nothing but the request itself. From this `EveryRequestEnds`, for
  any number of processes, repositories and edits.
- **IncidentMemoryProofs.** `ConfirmedIncidentsAreFound`, `BestMatchFirst`,
  `EvidenceStaysInItsRepository`, `SavesGoForward`, for any number of sessions,
  alerts, terms and saves, and any limit. `WindowHidesOlder` is the heart of the
  first two: the rows of the window are as many as the limit and none is older than
  a row outside of it, so each was confirmed since. The invariant adds that a row's
  time is that at which its save began, which is not after it ended.
- **LocalGraphIndexProofs, GitNexusContextProofs.** Lemmas about the operators: what a
  cut, a longer chain, two chains joined at a seed and an answer made of walks are;
  that an order lists a set once, what the cut dictionary of nodes keeps, that every
  relationship of a live answer keeps an end, and that an uncut one is closed.
- **ContextBuilderProofs.** From one invariant `PathsLeadAlongRelationships`,
  `LoopsFindAllChains`, `LoopsComeToTheirEnd`, `AnswersAreExact`, `AnswersAreClosed`,
  `AnswersHaveTheirCenter`, `AnswersMatchTheirFilter` and `NodesAndPathsAreMissingTogether`, for any graph, limits,
  depths, filters and terms. It says that every path in the queue is a simple walk of
  the length of the step that ends (or starts) in a seed, and that every chain that is
  to be found is finished already or has its end (its start) in the queue: so an empty
  queue means that all are found, and, with `SameResult`, that the answer is the one
  its definition over the graph gives (`AnswersAreExact`). Every path of the queue is
  longer by one after a round, so each round takes a length off what lies ahead. Two
  invariants are proved on top of it.
  `GroundedInv`: a summary is the target of a relationship from a symbol with a file
  and of nothing else, so it is never found alone; hence `EvidenceStaysGrounded`.
  `DeepInv`: the paths of the first query are remembered as two chains to a smaller
  depth, each finished or cut by it, from nodes that the recall finds again. A chain
  that was cut fills its path, and one that was not is found again, so each path is
  part of one of the recall: `RecallsDeepen`. A first answer is made of its paths and of
  what was found (`MadeOfPaths`), so the merge has nothing that the recall has not but
  its shorter paths: `MergesAddPathsOnly`. `DeeperInto` and `DeeperOutOf` extend a
  chain as far as it goes by taking one that lacks least of the depth.
  `BundlesAreUnderstood` joins the module to `RCAEngine`: a bundle, with any evidence of
  similar incidents added, is in the `Init` of the engine; the engine's sign of a graph,
  nodes or paths, stands for both, so a bundle that names no gap is always judged by the
  number of its references; and such a bundle has some, so it is not refused. It follows
  from `MissingTogether` and `EvidenceIsGrounded`.

`TypeCorrect` is proved of every module. The assumptions are those of the modules, on
the constants: limits and depths are numbers, ids of different kinds differ
(`IdAssumption`), symbols, alerts and terms are finite sets where the code lists them.

The two liveness theorems, `RequestsAreAnswered` and `EveryRequestEnds`, have one
premise besides the specification: that a step whose conditions hold can be taken
(`MayGenerate => ENABLED ...`, `MayWork(p) => ENABLED ...`). It can be read off the
actions, for what they assign is given outright or chosen from a set that is not empty,
but the prover has no rule for `ENABLED`. That the conditions of some step hold as long
as a request is in hand is proved (`GuardsCoverTheLoop`, `GuardsCoverTheStages`). The
rest is from the fairness of the specification, by temporal logic, with the variants for
the steps. The runs `RCAEngine_closed` and `RepoIndexing_requests` check both premise and
conditions as one invariant, `NeverStuck`, and `Answered` and `Ends` as well.

Some theorems are about steps on the way to what the runs check, and have no run of
their own: `PathsLeadAlongRelationships` and `LoopsFindAllChains` (on the way to
`AnswerIsExact`), `CompleteCheckoutsStay` (to `ImplementsCache`), and the variants
`LoopsComeToTheirEnd`, `LoopComesToItsEnd` and `RequestsComeToTheirEnd`.
`DeletionIsGuarded` is the claim that the run `GraphMemory_two_deleters` refutes, for one
process, where it is a part of `ImplementsCatalog`. `GuardsCoverTheLoop` is the part of `NeverStuck` that can be proved,
`OnlyEarlierDeletions`, `OnlyDeletionUnties` and `OnlyURIRunsSkippedIndex` say how far
what the runs of the first, second and fifth finding refute does hold, and
`BundlesAreUnderstood` relates two modules that no run composes.

Only model-checked: the two invariants `NeverStuck`, for the sake of `ENABLED`, and the
five violations.

## What is not modelled

- Text: `signals.py`, what the extractors find, prompts, the comparison of words, SQL
  text, the views of the workbench. They compute values from values; the models
  choose the values.
- The save form and the list of graphs of the workbench. Nothing resets the
  confirmation in the form, and the answers to the list's requests may come in any
  order and bring a deleted graph back (`App.tsx:268`); no document says what either
  must show, and nothing but themselves depends on them: a graph that is selected may
  be any graph, stored or not (`SelectStoredGraph`).
- The plan of kind `impact`: a query with that edge filter is answered live even when
  the graph is stored (`query_planner.py:39`, `adapter.py:60`). Structure 2 sets no
  filters, so no evidence comes from it.
- The inside of GitNexus and git, which are external programs.
- Field validation by pydantic, credentials, the scripts.
- Time: snapshot ids are fresh because they hold a time stamp; timeouts may happen at
  any moment; the sessions of the incident memory share one clock.

## Plan

1. `RCAEngine` started from the bundles of `ContextBuilder`, with the incidents of
   `IncidentMemory`: a composition with an end-to-end statement, from an alert to the
   evidence of its incident. Its parts hold already: the handover of the bundle is
   `BundlesAreUnderstood`, what follows is `EvidenceClosed` and `EvidenceStaysHome`.
2. `RepoIndexing` as a refinement of the index request of `GraphMemory`.
3. The list of graphs and the deletion dialog of the workbench, composed with
   `GraphMemory`, should a document come to say what they show.
4. Commits of the remote, should the importer come to fetch them.
