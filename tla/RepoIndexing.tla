----------------------------- MODULE RepoIndexing -----------------------------
(***************************************************************************)
(* Where the payload of a snapshot comes from: the importer resolves the   *)
(* repository to a checkout on disk, cloning it into a cache directory     *)
(* when there is none, the GitNexus client has the command line tool       *)
(* analyze the checkout and reads the graph back, and the enrichers read   *)
(* the files of the checkout once more.                                    *)
(*                                                                         *)
(* A backend process has one such request in hand at a time.  The cache    *)
(* directory and the index of the tool are shared by all processes of the  *)
(* machine; the repositories of the model are indexed under one repo_id,   *)
(* by which the tool names its index.  Somebody may edit the files of a    *)
(* checkout at any time; what is read of them is represented by the number *)
(* of edits that came before.  git and the tool are external.              *)
(***************************************************************************)
EXTENDS Naturals, FiniteSets

CONSTANTS
    Procs,     \* backend processes
    Repos,     \* repositories, each with its cache directory
    Local,     \* those of them that are named by a path, not cloned
    NoIndex,   \* the tool has not analyzed anything under the repo_id
    MaxEdits   \* bound: edits

VARIABLES
    checkout,  \* the cache directory of a repository
    edits,     \* how often files of a checkout have been edited
    index,     \* what the tool holds under the repo_id
    force,     \* LEGACY_PILOT_GITNEXUS_FORCE_ANALYZE
    job,       \* the request of a process
    payload,   \* the payload the last step returned to the adapter, if it did
    cut,       \* repositories whose clone or analysis once ended half way (history)
    shared     \* those whose directory two clones were in, since it was new (history)

vars == <<checkout, edits, index, force, job, payload, cut, shared>>

Idle == [pc |-> "idle"]
NoPayload == [asked |-> NoIndex]

Versions == 0..MaxEdits

\* version: of the files when they were analyzed; by: the process that had them
\* analyzed; whole: all files were there; unsettled: another process was cloning
\* them then, or two had into one directory; rows: the graph has relationships.
Index == [repo : Repos, by : Procs, version : Versions,
          whole : BOOLEAN, unsettled : BOOLEAN, rows : BOOLEAN]

\* git has not begun in "clone", has the directory in "write", and has made .git
\* in "finish".  since: the version when the request came; made: git has made
\* the directory, and did not find it empty; analyzed: this request has had the
\* repository analyzed; from: what it read.
Job == [pc : {"clone", "write", "finish", "analyze", "read", "enrich"}, repo : Repos,
        since : Versions, made : BOOLEAN, analyzed : BOOLEAN, from : Index \cup {NoIndex}]

\* facts: the version that the enrichers read.
Payload == [asked : Repos, to : Procs, since : Versions, analyzed : BOOLEAN,
            from : Index, facts : Versions]

ASSUME IndexAssumption == NoIndex \notin Index /\ MaxEdits \in Nat /\ Local \subseteq Repos

TypeOK ==
    /\ checkout \in [Repos -> {"absent", "bare", "partial", "complete"}]
    /\ edits \in Versions
    /\ index \in Index \cup {NoIndex}
    /\ force \in BOOLEAN
    /\ job \in [Procs -> Job \cup {Idle}]
    /\ payload \in Payload \cup {NoPayload}
    /\ cut \in SUBSET Repos /\ shared \in SUBSET Repos

\* A local path is a checkout that is complete from the start, and others may be
\* there from before.  The tool may have been used before, too.
Init ==
    /\ checkout \in [Repos -> {"absent", "complete"}]
    /\ \A r \in Local : checkout[r] = "complete"
    /\ edits = 0
    /\ index \in {NoIndex} \cup {i \in Index : i.whole /\ ~ i.unsettled /\ i.version = 0}
    /\ force \in BOOLEAN
    /\ job = [p \in Procs |-> Idle]
    /\ payload = NoPayload
    /\ cut = {} /\ shared = {}

-----------------------------------------------------------------------------
(* Helpers.  A definition that stands just before another one, and is used  *)
(* nowhere, is a seeded bug: the mutant of the other that PROJECT.json names. *)

Writing(p, r) == job[p] # Idle /\ job[p].repo = r /\ job[p].pc \in {"write", "finish"}

\* git clone makes the directory, or takes one that has nothing in it, whoever
\* has made that.
Vacant(r) == checkout[r] \in {"absent", "bare"}

\* A directory that somebody is still writing into is shared from now on, one
\* that is made new is not.
SharedNow(p, r) ==
    IF \E q \in Procs \ {p} : Writing(q, r) THEN shared \cup {r}
    ELSE IF checkout[r] = "absent" THEN shared \ {r} ELSE shared

\* A git clone that ends with an error removes what is in the directory, and the
\* directory if it has made that.
Remains(p) == "partial"
CleanedUp(p) ==
    IF job[p].made \/ checkout[job[p].repo] = "absent" THEN "absent" ELSE "bare"

\* What git leaves when it says that it is done: in a shared directory another
\* one may have removed files, or may be writing them.
Cloned(r) ==
    CASE r \notin shared -> {"complete"}
      [] r \in shared /\ Vacant(r) -> {checkout[r], "partial"}
      [] r \in shared /\ ~ Vacant(r) -> {"partial", "complete"}

\* _has_graph_rows, of the graph the tool answers with; about something it has
\* not analyzed it fails or has an empty table.
AnyTable == TRUE
HasRows == IF index = NoIndex THEN FALSE ELSE index.rows

\* The stages after the checkout is there.  In stable mode the graph is read
\* first.
AnalyzeWhenNew == IF force /\ ~ HasRows THEN "analyze" ELSE "read"
FirstStage == IF force THEN "analyze" ELSE "read"

\* An empty answer of the tool, once, is not the answer of the client.
AlwaysRetries(p) == ~ force /\ ~ HasRows
Retries(p) == ~ force /\ ~ job[p].analyzed /\ ~ HasRows

\* The enrichers read the files when the graph has been read, not before.
FactsAtStart(p) == job[p].since
Facts(p) == edits

NewJob(r, stage) ==
    [pc |-> stage, repo |-> r, since |-> edits,
     made |-> FALSE, analyzed |-> FALSE, from |-> NoIndex]

Goto(p, stage) == job' = [job EXCEPT ![p].pc = stage]
Finish(p) == job' = [job EXCEPT ![p] = Idle]

-----------------------------------------------------------------------------
(* resolve_repo_uri                                                         *)

\* A directory with .git in it is taken as it is.
AcceptCheckout(p, r) ==
    /\ job[p] = Idle
    /\ checkout[r] \in {"partial", "complete"}
    /\ job' = [job EXCEPT ![p] = NewJob(r, FirstStage)]
    /\ payload' = NoPayload
    /\ UNCHANGED <<checkout, edits, index, force, cut, shared>>

\* A directory without .git ends the request: no action for that.
CloneRepo(p, r) ==
    /\ job[p] = Idle
    /\ checkout[r] = "absent"
    /\ job' = [job EXCEPT ![p] = NewJob(r, "clone")]
    /\ payload' = NoPayload
    /\ UNCHANGED <<checkout, edits, index, force, cut, shared>>

GitBegins(p) ==
    /\ job[p] # Idle /\ job[p].pc = "clone"
    /\ Vacant(job[p].repo)
    /\ checkout' = [checkout EXCEPT ![job[p].repo] = "bare"]
    /\ job' = [job EXCEPT ![p].pc = "write", ![p].made = checkout[job[p].repo] = "absent"]
    /\ shared' = SharedNow(p, job[p].repo)
    /\ payload' = NoPayload
    /\ UNCHANGED <<edits, index, force, cut>>

\* git looks whether the directory is empty when it begins, and never again.
GitWrites(p) ==
    /\ job[p] # Idle /\ job[p].pc = "write"
    /\ \E written \in {"partial"} \cup ({checkout[job[p].repo]} \cap {"complete"}) :
          checkout' = [checkout EXCEPT ![job[p].repo] = written]
    /\ Goto(p, "finish")
    /\ payload' = NoPayload
    /\ UNCHANGED <<edits, index, force, cut, shared>>

CloneDone(p) ==
    /\ job[p] # Idle /\ job[p].pc = "finish"
    /\ \E files \in Cloned(job[p].repo) :
          checkout' = [checkout EXCEPT ![job[p].repo] = files]
    /\ job' = [job EXCEPT ![p].pc = FirstStage, ![p].made = FALSE]
    /\ payload' = NoPayload
    /\ UNCHANGED <<edits, index, force, cut, shared>>

CloneFailsAndRemoves(p) ==
    /\ job[p] # Idle /\ job[p].pc \in {"clone", "write", "finish"}
    /\ checkout' = [checkout EXCEPT ![job[p].repo] = CleanedUp(p)]
    /\ Finish(p)
    /\ payload' = NoPayload
    /\ UNCHANGED <<edits, index, force, cut, shared>>

CloneFailsOnceBegun(p) ==
    /\ job[p] # Idle /\ job[p].pc \in {"write", "finish"}
    /\ checkout' = [checkout EXCEPT ![job[p].repo] = CleanedUp(p)]
    /\ Finish(p)
    /\ payload' = NoPayload
    /\ UNCHANGED <<edits, index, force, cut, shared>>

\* A non-zero return code: the directory was not empty, or the clone failed and
\* git has cleaned up, what others wrote into the directory included.
CloneFails(p) ==
    /\ job[p] # Idle /\ job[p].pc \in {"clone", "write", "finish"}
    /\ checkout' = [checkout EXCEPT ![job[p].repo] = IF job[p].pc = "clone" THEN @ ELSE CleanedUp(p)]
    /\ Finish(p)
    /\ payload' = NoPayload
    /\ UNCHANGED <<edits, index, force, cut, shared>>

\* The timeout, which kills git, or the end of the backend process; or git has
\* the repository and fails to check its files out, when it does not clean up.
CloneCutOff(p) ==
    /\ job[p] # Idle /\ Writing(p, job[p].repo)
    /\ cut' = cut \cup {job[p].repo}
    /\ Finish(p)
    /\ payload' = NoPayload
    /\ UNCHANGED <<checkout, edits, index, force, shared>>

-----------------------------------------------------------------------------
(* GitNexusCliClient.index_repo                                             *)

Analysis(p, whole, rows) ==
    [repo |-> job[p].repo, by |-> p, version |-> edits, whole |-> whole, rows |-> rows,
     unsettled |-> job[p].repo \in shared \/ \E q \in Procs : Writing(q, job[p].repo)]

\* The checkout may be gone by now: it was another process that was cloning it.
Analyze(p) ==
    /\ job[p] # Idle /\ job[p].pc = "analyze"
    /\ checkout[job[p].repo] # "absent"
    /\ \E rows \in BOOLEAN :
          index' = Analysis(p, checkout[job[p].repo] = "complete", rows)
    /\ job' = [job EXCEPT ![p].pc = "read", ![p].analyzed = TRUE]
    /\ payload' = NoPayload
    /\ UNCHANGED <<checkout, edits, force, cut, shared>>

\* An error, a timeout or a crash: the tool keeps the former index, or has a
\* part of the new one.
AnalyzeFails(p) ==
    /\ job[p] # Idle /\ job[p].pc = "analyze"
    /\ \/ UNCHANGED <<index, cut>>
       \/ \E rows \in BOOLEAN :
             /\ index' = Analysis(p, FALSE, rows)
             /\ cut' = cut \cup {job[p].repo}
    /\ Finish(p)
    /\ payload' = NoPayload
    /\ UNCHANGED <<checkout, edits, force, shared>>

ReadGraph(p) ==
    /\ job[p] # Idle /\ job[p].pc = "read"
    /\ ~ Retries(p)
    /\ job' = [job EXCEPT ![p].pc = "enrich", ![p].from = index]
    /\ payload' = NoPayload
    /\ UNCHANGED <<checkout, edits, index, force, cut, shared>>

ReadEmpty(p) ==
    /\ job[p] # Idle /\ job[p].pc = "read"
    /\ Retries(p)
    /\ Goto(p, "analyze")
    /\ payload' = NoPayload
    /\ UNCHANGED <<checkout, edits, index, force, cut, shared>>

\* The command fails, as it may when nothing has been analyzed yet.
ReadFails(p) ==
    /\ job[p] # Idle /\ job[p].pc = "read"
    /\ Finish(p)
    /\ payload' = NoPayload
    /\ UNCHANGED <<checkout, edits, index, force, cut, shared>>

-----------------------------------------------------------------------------
(* The rest of index_repo of the adapter, up to the save.                   *)

\* The extractors read the files of the checkout; what they find is merged with
\* the graph, whatever files that was made from.
Enrich(p) ==
    /\ job[p] # Idle /\ job[p].pc = "enrich"
    /\ payload' = [asked |-> job[p].repo, to |-> p, since |-> job[p].since,
                   analyzed |-> job[p].analyzed, from |-> job[p].from, facts |-> Facts(p)]
    /\ Finish(p)
    /\ UNCHANGED <<checkout, edits, index, force, cut, shared>>

\* A file that cannot be read, or a language model that fails.
EnrichFails(p) ==
    /\ job[p] # Idle /\ job[p].pc = "enrich"
    /\ Finish(p)
    /\ payload' = NoPayload
    /\ UNCHANGED <<checkout, edits, index, force, cut, shared>>

\* Somebody works in a checkout, or pulls into it.
Edit ==
    /\ \E r \in Repos : checkout[r] = "complete"
    /\ edits < MaxEdits
    /\ edits' = edits + 1
    /\ payload' = NoPayload
    /\ UNCHANGED <<checkout, index, force, job, cut, shared>>

-----------------------------------------------------------------------------
Work(p) ==
    \/ GitBegins(p) \/ GitWrites(p) \/ CloneDone(p) \/ CloneFails(p) \/ CloneCutOff(p)
    \/ Analyze(p) \/ AnalyzeFails(p)
    \/ ReadGraph(p) \/ ReadEmpty(p) \/ ReadFails(p)
    \/ Enrich(p) \/ EnrichFails(p)

Next ==
    \/ \E p \in Procs :
        \/ \E r \in Repos : AcceptCheckout(p, r) \/ CloneRepo(p, r)
        \/ Work(p)
    \/ Edit

\* Every command runs under a timeout, so a request in hand goes on.
GoesOn(p) == WF_vars(Work(p))

Spec == Init /\ [][Next]_vars /\ \A p \in Procs : GoesOn(p)

-----------------------------------------------------------------------------
(* Properties                                                               *)

\* A complete checkout stays so, although two processes that both saw no
\* directory clone into it, and either may fail or be killed; but one that two
\* clones had shared is safe only when both have left it.
CompleteStays ==
    [][\A r \in Repos :
          /\ checkout[r] = "complete"
          /\ r \in shared => \A p \in Procs : ~ Writing(p, r)
          => checkout'[r] = "complete"]_vars

Content(r) ==
    CASE checkout[r] = "absent" -> "none"
      [] checkout[r] = "bare" -> "empty"
      [] checkout[r] = "partial" -> "part"
      [] checkout[r] = "complete" -> "whole"

Makers(r) == {p \in Procs : Writing(p, r)}

Cache == INSTANCE CheckoutCache WITH
    content <- [r \in Repos |-> Content(r)], makers <- [r \in Repos |-> Makers(r)]

\* A directory with something in it is nobody's to claim: of all processes that
\* saw no directory one has it to itself until it is done, failed or was killed,
\* and those that come too late leave its work alone.  Those that come before
\* anything is in it share it, and then anything may become of it.
ImplementsCache == Cache!Spec

\* A payload of a part of the files is possible only after a clone or an analysis
\* of the repository ended half way, or when it was analyzed while another
\* process was still cloning it, or after two had cloned into one directory: an
\* import that git cleaned up after leaves nothing behind that a later one would
\* accept.  (What the limits of the graph cut off is another matter.)
PartsAreExplained ==
    payload # NoPayload /\ ~ payload.from.whole =>
        payload.from.repo \in cut \/ payload.from.unsettled

\* A request that had its repository analyzed returns the graph of that
\* repository, unless another process analyzed in between; with the analysis
\* forced every request does.
OwnAnalysis ==
    payload # NoPayload /\ payload.from.by = payload.to /\ (force \/ payload.analyzed) =>
        payload.from.repo = payload.asked

\* The graph that a request had made of its repository shows the files as they
\* were when it came, or later, and the facts that are merged with it are not
\* older than the graph: the two differ only when somebody edits meanwhile.
FreshSnapshot ==
    payload # NoPayload /\ payload.from.repo = payload.asked /\ (force \/ payload.analyzed) =>
        payload.since <= payload.from.version /\ payload.from.version <= payload.facts

\* Whatever others do to the directory that a request clones into or reads, the
\* request has a way to go on: it does not wait for them.
NeverStuck == \A p \in Procs : job[p] # Idle => ENABLED <<Work(p)>>_vars

\* A request ends: an empty graph is analyzed once, not for ever.
Ends == \A p \in Procs : job[p] # Idle ~> job[p] = Idle
=============================================================================
