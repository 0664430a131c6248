-------------------------- MODULE RepoIndexingProofs --------------------------
(***************************************************************************)
(* Proofs about the import and analysis of repositories, for every set of  *)
(* backend processes and repositories.                                     *)
(***************************************************************************)
EXTENDS RepoIndexing, TLAPS

\* As long as no two clones are in a directory it holds what the one that is in
\* it has made so far; if that one has not made the directory it has found one
\* that a cut-off clone had left.
LoneWriter ==
    \A p \in Procs, r \in Repos :
        Writing(p, r) /\ r \notin shared =>
            /\ checkout[r] = IF job[p].pc = "write" THEN "bare" ELSE "partial"
            /\ job[p].made \/ r \in cut
            /\ \A q \in Procs : Writing(q, r) => q = p

\* A directory that is not complete is being written, was cut off or was shared.
UnfinishedIsExplained ==
    \A r \in Repos :
        checkout[r] \in {"bare", "partial"} =>
            r \in cut \/ r \in shared \/ \E p \in Procs : Writing(p, r)

Explained(i) ==
    /\ i.version <= edits
    /\ ~ i.whole => i.repo \in cut \/ i.unsettled

IndexIsExplained == index # NoIndex => Explained(index)

\* An index that p had made, or that is of its repository, came after p's request.
Suits(p, i) ==
    /\ i.by = p => i.repo = job[p].repo
    /\ i.repo = job[p].repo => job[p].since <= i.version

\* What a request knows of the graph that it is to read, or has read.
JobKnows(p) ==
    job[p] # Idle =>
        /\ job[p].since <= edits
        /\ job[p].pc \in {"clone", "write", "finish"} => ~ job[p].analyzed
        /\ job[p].pc \in {"read", "enrich"} /\ force => job[p].analyzed
        /\ job[p].pc = "read" /\ job[p].analyzed => index # NoIndex /\ Suits(p, index)
        /\ job[p].pc = "enrich" =>
              /\ job[p].from # NoIndex /\ Explained(job[p].from)
              /\ job[p].analyzed => Suits(p, job[p].from)

ReaderKnows == \A p \in Procs : JobKnows(p)

IInv ==
    /\ TypeOK
    /\ LoneWriter
    /\ UnfinishedIsExplained
    /\ IndexIsExplained
    /\ ReaderKnows
    /\ PartsAreExplained
    /\ OwnAnalysis
    /\ FreshSnapshot

LEMMA InitInv == Init => IInv
BY IndexAssumption DEF Init, IInv, TypeOK, LoneWriter, UnfinishedIsExplained, IndexIsExplained,
       Explained, ReaderKnows, JobKnows, PartsAreExplained, OwnAnalysis, FreshSnapshot, Writing,
       Idle, Versions, Index

\* A request that is not idle has a record of its own kind.
LEMMA JobType ==
    ASSUME TypeOK, NEW p \in Procs, job[p] # Idle
    PROVE  job[p] \in Job
BY DEF TypeOK

\* Every action of a request in hand keeps type correctness.
LEMMA TypeStep ==
    ASSUME IInv, [Next]_vars
    PROVE  TypeOK'
<1>. USE DEF IInv, TypeOK, Idle, NoPayload
<1>1. CASE UNCHANGED vars
  BY <1>1 DEF vars
<1>2. ASSUME NEW p \in Procs, NEW r \in Repos, AcceptCheckout(p, r) \/ CloneRepo(p, r)
      PROVE  TypeOK'
  <2>1. NewJob(r, FirstStage) \in Job
    BY DEF NewJob, Job, FirstStage
  <2>2. NewJob(r, "clone") \in Job
    BY DEF NewJob, Job
  <2>. QED
    BY <1>2, <2>1, <2>2 DEF AcceptCheckout, CloneRepo
<1>3. ASSUME NEW p \in Procs, Work(p)
      PROVE  TypeOK'
  <2>1. job[p] \in Job
    BY <1>3, JobType DEF Work, GitBegins, GitWrites, CloneDone, CloneFails, CloneCutOff,
          Analyze, AnalyzeFails, ReadGraph, ReadEmpty, ReadFails, Enrich, EnrichFails
  <2>2. \A stage \in {"finish", "analyze", "read", "enrich"} : [job[p] EXCEPT !.pc = stage] \in Job
    BY <2>1 DEF Job
  <2>3. \A whole, rows \in BOOLEAN : Analysis(p, whole, rows) \in Index
    BY <2>1 DEF Job, Analysis, Index
  <2>4. CASE GitBegins(p)
    <3>1. \A made \in BOOLEAN : [[job[p] EXCEPT !.pc = "write"] EXCEPT !.made = made] \in Job
      BY <2>1 DEF Job
    <3>2. job[p].repo \in Repos /\ SharedNow(p, job[p].repo) \in SUBSET Repos
      BY <2>1 DEF Job, SharedNow
    <3>. QED
      BY <2>4, <3>1, <3>2 DEF GitBegins
  <2>5. CASE GitWrites(p)
    <3>1. checkout' \in [Repos -> {"absent", "bare", "partial", "complete"}]
      BY <2>1, <2>5 DEF GitWrites, Job
    <3>. QED
      BY <2>2, <2>5, <3>1 DEF GitWrites, Goto
  <2>6. CASE CloneDone(p)
    <3>1. [[job[p] EXCEPT !.pc = FirstStage] EXCEPT !.made = FALSE] \in Job
      BY <2>1 DEF Job, FirstStage
    <3>2. checkout' \in [Repos -> {"absent", "bare", "partial", "complete"}]
      BY <2>1, <2>6 DEF CloneDone, Cloned, Vacant, Job
    <3>. QED
      BY <2>6, <3>1, <3>2 DEF CloneDone
  <2>7. CASE CloneFails(p)
    BY <2>1, <2>7 DEF CloneFails, CleanedUp, Finish, Job
  <2>8. CASE CloneCutOff(p)
    BY <2>1, <2>8 DEF CloneCutOff, Finish, Job
  <2>9. CASE Analyze(p)
    <3>1. [[job[p] EXCEPT !.pc = "read"] EXCEPT !.analyzed = TRUE] \in Job
      BY <2>1 DEF Job
    <3>2. index' \in Index
      BY <2>3, <2>9 DEF Analyze
    <3>. QED
      BY <2>9, <3>1, <3>2 DEF Analyze
  <2>10. CASE AnalyzeFails(p)
    <3>1. index' \in Index \cup {NoIndex}
      BY <2>3, <2>10 DEF AnalyzeFails
    <3>2. cut' \in SUBSET Repos
      BY <2>1, <2>10 DEF AnalyzeFails, Job
    <3>. QED
      BY <2>10, <3>1, <3>2 DEF AnalyzeFails, Finish
  <2>11. CASE ReadGraph(p)
    <3>1. [[job[p] EXCEPT !.pc = "enrich"] EXCEPT !.from = index] \in Job
      BY <2>1 DEF Job
    <3>. QED
      BY <2>11, <3>1 DEF ReadGraph
  <2>12. CASE ReadEmpty(p)
    BY <2>2, <2>12 DEF ReadEmpty, Goto
  <2>13. CASE ReadFails(p) \/ EnrichFails(p)
    BY <2>13 DEF ReadFails, EnrichFails, Finish
  <2>14. CASE Enrich(p)
    <3>1. job[p].from \in Index /\ Facts(p) \in Versions
      BY <2>1, <2>14 DEF ReaderKnows, JobKnows, Enrich, Facts, Job
    <3>2. payload' \in Payload
      BY <2>1, <2>14, <3>1 DEF Enrich, Payload, Job
    <3>. QED
      BY <2>14, <3>2 DEF Enrich, Finish
  <2>. QED
    BY <1>3, <2>4, <2>5, <2>6, <2>7, <2>8, <2>9, <2>10, <2>11, <2>12, <2>13, <2>14 DEF Work
<1>4. CASE Edit
  <2>1. edits' \in Versions
    BY <1>4, IndexAssumption DEF Edit, Versions
  <2>. QED
    BY <1>4, <2>1 DEF Edit
<1>. QED
  BY <1>1, <1>2, <1>3, <1>4 DEF Next

\* Who writes after a step: everyone as before but for p, which has begun, has
\* stopped, or goes on.
LEMMA WritersStep ==
    ASSUME IInv, NEW p \in Procs,
           Work(p) \/ \E r \in Repos : AcceptCheckout(p, r) \/ CloneRepo(p, r)
    PROVE  /\ \A q \in Procs \ {p}, r \in Repos : Writing(q, r)' <=> Writing(q, r)
           /\ (\E r \in Repos : AcceptCheckout(p, r) \/ CloneRepo(p, r))
                 => \A r \in Repos : ~ Writing(p, r) /\ ~ Writing(p, r)'
           /\ GitBegins(p) => \A r \in Repos : ~ Writing(p, r) /\ (Writing(p, r)' <=> r = job[p].repo)
           /\ GitWrites(p) => \A r \in Repos : Writing(p, r)' <=> Writing(p, r)
           /\ CloneDone(p) \/ CloneFails(p) \/ CloneCutOff(p)
                 => \A r \in Repos : ~ Writing(p, r)'
           /\ (\/ Analyze(p) \/ AnalyzeFails(p) \/ ReadGraph(p) \/ ReadEmpty(p) \/ ReadFails(p)
               \/ Enrich(p) \/ EnrichFails(p))
                 => \A r \in Repos : ~ Writing(p, r) /\ ~ Writing(p, r)'
<1>. USE DEF IInv, TypeOK, Writing
<1>1. CASE \E r \in Repos : AcceptCheckout(p, r) \/ CloneRepo(p, r)
  <2>1. job[p] = Idle
    BY <1>1 DEF AcceptCheckout, CloneRepo
  <2>2. ~ GitBegins(p) /\ ~ GitWrites(p) /\ ~ CloneDone(p) /\ ~ CloneFails(p) /\ ~ CloneCutOff(p)
    BY <2>1 DEF GitBegins, GitWrites, CloneDone, CloneFails, CloneCutOff
  <2>3. /\ ~ Analyze(p) /\ ~ AnalyzeFails(p) /\ ~ ReadGraph(p) /\ ~ ReadEmpty(p) /\ ~ ReadFails(p)
        /\ ~ Enrich(p) /\ ~ EnrichFails(p)
    BY <2>1 DEF Analyze, AnalyzeFails, ReadGraph, ReadEmpty, ReadFails, Enrich, EnrichFails
  <2>4. PICK stage \in {"clone", "analyze", "read"}, s \in Repos :
          job' = [job EXCEPT ![p] = NewJob(s, stage)]
    BY <1>1 DEF AcceptCheckout, CloneRepo, FirstStage
  <2>5. job'[p].pc \notin {"write", "finish"} /\ \A q \in Procs \ {p} : job'[q] = job[q]
    BY <2>4 DEF NewJob
  <2>. QED
    BY <2>1, <2>2, <2>3, <2>5
<1>2. CASE Work(p)
  <2>1. job[p] # Idle /\ job[p] \in Job
    BY <1>2, JobType DEF Work, GitBegins, GitWrites, CloneDone, CloneFails, CloneCutOff,
          Analyze, AnalyzeFails, ReadGraph, ReadEmpty, ReadFails, Enrich, EnrichFails
  <2>2. \A q \in Procs \ {p} : job'[q] = job[q]
    BY <1>2 DEF Work, GitBegins, GitWrites, CloneDone, CloneFails, CloneCutOff, Goto, Finish,
          Analyze, AnalyzeFails, ReadGraph, ReadEmpty, ReadFails, Enrich, EnrichFails
  <2>3. ~ \E r \in Repos : AcceptCheckout(p, r) \/ CloneRepo(p, r)
    BY <2>1 DEF AcceptCheckout, CloneRepo
  <2>4. GitBegins(p) => \A r \in Repos : ~ Writing(p, r) /\ (Writing(p, r)' <=> r = job[p].repo)
    <3>1. SUFFICES ASSUME GitBegins(p)
                   PROVE  /\ job[p].pc = "clone"
                          /\ job'[p] # Idle /\ job'[p].pc = "write" /\ job'[p].repo = job[p].repo
      OBVIOUS
    <3>2. /\ job[p].pc = "clone"
          /\ job'[p] = [[job[p] EXCEPT !.pc = "write"] EXCEPT !.made = checkout[job[p].repo] = "absent"]
      BY <3>1 DEF GitBegins
    <3>. QED BY <2>1, <3>2 DEF Job, Idle
  <2>5. GitWrites(p) => \A r \in Repos : Writing(p, r)' <=> Writing(p, r)
    BY <2>1 DEF GitWrites, Goto, Job, Idle
  <2>6. CloneDone(p) \/ CloneFails(p) \/ CloneCutOff(p) => \A r \in Repos : ~ Writing(p, r)'
    BY <2>1 DEF CloneDone, CloneFails, CloneCutOff, Finish, FirstStage, Job
  <2>7. (\/ Analyze(p) \/ AnalyzeFails(p) \/ ReadGraph(p) \/ ReadEmpty(p) \/ ReadFails(p)
         \/ Enrich(p) \/ EnrichFails(p))
          => \A r \in Repos : ~ Writing(p, r) /\ ~ Writing(p, r)'
    <3>1. SUFFICES ASSUME \/ Analyze(p) \/ AnalyzeFails(p) \/ ReadGraph(p) \/ ReadEmpty(p)
                          \/ ReadFails(p) \/ Enrich(p) \/ EnrichFails(p)
                   PROVE  /\ job[p].pc \notin {"write", "finish"}
                          /\ job'[p] # Idle => job'[p].pc \notin {"write", "finish"}
      OBVIOUS
    <3>2. job[p].pc \notin {"write", "finish"}
      BY <3>1 DEF Analyze, AnalyzeFails, ReadGraph, ReadEmpty, ReadFails, Enrich, EnrichFails
    <3>3. CASE Analyze(p)
      BY <2>1, <3>3 DEF Analyze, Job
    <3>4. CASE ReadEmpty(p)
      BY <2>1, <3>4 DEF ReadEmpty, Goto, Job
    <3>5. CASE AnalyzeFails(p) \/ ReadFails(p) \/ Enrich(p) \/ EnrichFails(p)
      BY <3>5 DEF AnalyzeFails, ReadFails, Enrich, EnrichFails, Finish
    <3>6. CASE ReadGraph(p)
      BY <2>1, <3>6 DEF ReadGraph, Job
    <3>. QED
      BY <3>1, <3>2, <3>3, <3>4, <3>5, <3>6
  <2>. QED
    BY <2>2, <2>3, <2>4, <2>5, <2>6, <2>7
<1>. QED
  BY <1>1, <1>2

\* Every step but those of git leaves the directories alone, and those change the
\* one that they are about.
LEMMA CheckoutStep ==
    ASSUME IInv, NEW p \in Procs,
           Work(p) \/ \E r \in Repos : AcceptCheckout(p, r) \/ CloneRepo(p, r)
    PROVE  \A r \in Repos :
              \/ checkout'[r] = checkout[r]
              \/ GitBegins(p) /\ r = job[p].repo /\ checkout[r] = "absent" /\ checkout'[r] = "bare"
              \/ GitWrites(p) /\ Writing(p, r) /\ checkout'[r] = "partial"
              \/ CloneDone(p) /\ Writing(p, r) /\ checkout'[r] \in Cloned(r)
              \/ CloneFails(p) /\ Writing(p, r) /\ checkout'[r] = CleanedUp(p)
<1>. USE DEF IInv, TypeOK
<1>1. CASE \E r \in Repos : AcceptCheckout(p, r) \/ CloneRepo(p, r)
  BY <1>1 DEF AcceptCheckout, CloneRepo
<1>2. CASE Work(p)
  <2>1. job[p] # Idle => job[p] \in Job
    BY JobType
  <2>2. CASE GitBegins(p)
    <3>1. job[p].repo \in Repos
      BY <2>1, <2>2 DEF GitBegins, Job
    <3>. QED
      BY <2>2, <3>1 DEF GitBegins, Vacant
  <2>3. CASE GitWrites(p)
    BY <2>1, <2>3 DEF GitWrites, Writing, Job
  <2>4. CASE CloneDone(p)
    BY <2>1, <2>4 DEF CloneDone, Writing, Job
  <2>5. CASE CloneFails(p)
    BY <2>1, <2>5 DEF CloneFails, Writing, Job
  <2>6. CASE CloneCutOff(p) \/ Analyze(p) \/ AnalyzeFails(p) \/ ReadGraph(p) \/ ReadEmpty(p)
               \/ ReadFails(p) \/ Enrich(p) \/ EnrichFails(p)
    BY <2>6 DEF CloneCutOff, Analyze, AnalyzeFails, ReadGraph, ReadEmpty, ReadFails, Enrich, EnrichFails
  <2>. QED
    BY <1>2, <2>2, <2>3, <2>4, <2>5, <2>6 DEF Work
<1>. QED
  BY <1>1, <1>2

\* Only a git that begins makes a directory shared, or no longer so.
LEMMA SharedStep ==
    ASSUME IInv, NEW p \in Procs,
           Work(p) \/ \E r \in Repos : AcceptCheckout(p, r) \/ CloneRepo(p, r)
    PROVE  \A r \in Repos :
              \/ r \in shared' <=> r \in shared
              \/ /\ GitBegins(p) /\ r = job[p].repo
                 /\ r \in shared' <=> \/ \E q \in Procs \ {p} : Writing(q, r)
                                      \/ checkout[r] # "absent" /\ r \in shared
<1>1. CASE GitBegins(p)
  BY <1>1 DEF GitBegins, SharedNow
<1>2. CASE ~ GitBegins(p)
  <2>1. shared' = shared
    BY <1>2 DEF Work, AcceptCheckout, CloneRepo, GitWrites, CloneDone, CloneFails, CloneCutOff,
          Analyze, AnalyzeFails, ReadGraph, ReadEmpty, ReadFails, Enrich, EnrichFails
  <2>. QED BY <2>1
<1>. QED BY <1>1, <1>2

LEMMA LoneWriterStep ==
    ASSUME IInv, [Next]_vars
    PROVE  LoneWriter'
<1>1. CASE UNCHANGED vars \/ Edit
  BY <1>1 DEF IInv, LoneWriter, Writing, vars, Edit
<1>2. ASSUME NEW p \in Procs,
             Work(p) \/ \E r \in Repos : AcceptCheckout(p, r) \/ CloneRepo(p, r)
      PROVE  LoneWriter'
  <2>. SUFFICES ASSUME NEW q \in Procs, NEW r \in Repos, Writing(q, r)', r \notin shared'
                PROVE  /\ checkout'[r] = IF job'[q].pc = "write" THEN "bare" ELSE "partial"
                       /\ job'[q].made \/ r \in cut'
                       /\ \A o \in Procs : Writing(o, r)' => o = q
    BY DEF LoneWriter
  <2>1. \A o \in Procs \ {p}, s \in Repos : Writing(o, s)' <=> Writing(o, s)
    BY <1>2, WritersStep
  <2>2. cut \subseteq cut'
    BY <1>2 DEF Work, AcceptCheckout, CloneRepo, GitBegins, GitWrites, CloneDone, CloneFails,
          CloneCutOff, Analyze, AnalyzeFails, ReadGraph, ReadEmpty, ReadFails, Enrich, EnrichFails
  <2>3. CASE GitBegins(p) /\ r = job[p].repo
    <3>1. /\ ~ \E o \in Procs \ {p} : Writing(o, r)
          /\ checkout[r] # "absent" => r \notin shared
      BY <2>3 DEF GitBegins, SharedNow
    <3>2. q = p /\ ~ Writing(p, r) /\ \A o \in Procs : Writing(o, r)' => o = q
      BY <1>2, <2>1, <2>3, <3>1, WritersStep
    <3>3. /\ checkout'[r] = "bare" /\ checkout[r] \in {"absent", "bare"}
          /\ job'[p].pc = "write" /\ job'[p].made = (checkout[r] = "absent")
      <4>1. job[p] \in Job /\ checkout \in [Repos -> {"absent", "bare", "partial", "complete"}]
        BY <2>3, JobType DEF GitBegins, IInv, TypeOK
      <4>2. job'[p] = [[job[p] EXCEPT !.pc = "write"] EXCEPT !.made = (checkout[r] = "absent")]
        BY <2>3 DEF GitBegins, IInv, TypeOK
      <4>3. checkout'[r] = "bare" /\ checkout[r] \in {"absent", "bare"}
        BY <2>3, <4>1 DEF GitBegins, Vacant
      <4>. QED BY <4>1, <4>2, <4>3 DEF Job
    <3>4. checkout[r] = "bare" => r \in cut
      BY <3>1, <3>2, <2>1 DEF IInv, UnfinishedIsExplained
    <3>. QED BY <2>2, <3>2, <3>3, <3>4
  <2>4. CASE ~ (GitBegins(p) /\ r = job[p].repo)
    <3>1. r \notin shared
      BY <1>2, <2>4, SharedStep
    <3>2. Writing(p, r)' => Writing(p, r)
      BY <1>2, <2>4, WritersStep DEF Work
    <3>3. Writing(q, r) /\ \A o \in Procs : Writing(o, r)' => Writing(o, r)
      BY <2>1, <3>2
    <3>4. /\ checkout[r] = IF job[q].pc = "write" THEN "bare" ELSE "partial"
          /\ job[q].made \/ r \in cut
          /\ \A o \in Procs : Writing(o, r) => o = q
      BY <3>1, <3>3 DEF IInv, LoneWriter
    <3>5. CASE q = p
      <4>1. GitWrites(p)
        BY <1>2, <3>3, <3>5, WritersStep DEF Work
      <4>2. job[p].pc = "write" /\ job[p].repo = r /\ job[p] \in Job
        BY <3>3, <3>5, <4>1, JobType DEF GitWrites, Writing, IInv
      <4>3. checkout'[r] = "partial"
        BY <3>4, <3>5, <4>1, <4>2 DEF GitWrites, IInv, TypeOK
      <4>4. job'[p] = [job[p] EXCEPT !.pc = "finish"]
        BY <4>1 DEF GitWrites, Goto, IInv, TypeOK
      <4>5. job'[p].pc = "finish" /\ job'[p].made = job[p].made
        BY <4>2, <4>4 DEF Job
      <4>. QED BY <2>2, <3>3, <3>4, <3>5, <4>3, <4>5
    <3>6. CASE q # p
      <4>1. ~ Writing(p, r)
        BY <3>4, <3>6
      <4>2. checkout'[r] = checkout[r]
        BY <1>2, <2>4, <4>1, CheckoutStep
      <4>3. job'[q] = job[q]
        BY <1>2, <3>6 DEF IInv, TypeOK, Work, AcceptCheckout, CloneRepo, GitBegins, GitWrites, CloneDone,
              CloneFails, CloneCutOff, Analyze, AnalyzeFails, ReadGraph, ReadEmpty, ReadFails, Enrich,
              EnrichFails, Goto, Finish
      <4>. QED BY <2>2, <3>3, <3>4, <4>2, <4>3
    <3>. QED BY <3>5, <3>6
  <2>. QED BY <2>3, <2>4
<1>. QED
  BY <1>1, <1>2 DEF Next

LEMMA UnfinishedStep ==
    ASSUME IInv, [Next]_vars
    PROVE  UnfinishedIsExplained'
<1>1. CASE UNCHANGED vars \/ Edit
  BY <1>1 DEF IInv, UnfinishedIsExplained, Writing, vars, Edit
<1>2. ASSUME NEW p \in Procs,
             Work(p) \/ \E r \in Repos : AcceptCheckout(p, r) \/ CloneRepo(p, r)
      PROVE  UnfinishedIsExplained'
  <2>. SUFFICES ASSUME NEW r \in Repos, checkout'[r] \in {"bare", "partial"},
                       \A q \in Procs : ~ Writing(q, r)', r \notin shared'
                PROVE  r \in cut'
    BY DEF UnfinishedIsExplained
  <2>1. cut \subseteq cut'
    BY <1>2 DEF Work, AcceptCheckout, CloneRepo, GitBegins, GitWrites, CloneDone, CloneFails,
          CloneCutOff, Analyze, AnalyzeFails, ReadGraph, ReadEmpty, ReadFails, Enrich, EnrichFails
  <2>2. ~ (GitBegins(p) /\ r = job[p].repo)
    BY <1>2, WritersStep
  <2>3. r \notin shared
    BY <1>2, <2>2, SharedStep
  <2>4. CASE Writing(p, r)
    <3>1. CloneDone(p) \/ CloneFails(p) \/ CloneCutOff(p)
      BY <1>2, <2>2, <2>4, WritersStep DEF Work
    <3>2. CASE CloneCutOff(p)
      BY <2>4, <3>2 DEF CloneCutOff, Writing
    <3>3. CASE CloneDone(p)
      BY <2>3, <2>4, <3>3 DEF IInv, TypeOK, CloneDone, Cloned, Writing
    <3>4. CASE CloneFails(p)
      <4>1. checkout'[r] = CleanedUp(p) /\ job[p].repo = r
        BY <2>4, <3>4 DEF IInv, TypeOK, CloneFails, Writing
      <4>2. ~ job[p].made
        BY <4>1 DEF CleanedUp
      <4>. QED BY <2>1, <2>3, <2>4, <4>2 DEF IInv, LoneWriter
    <3>. QED
      BY <3>1, <3>2, <3>3, <3>4
  <2>5. CASE ~ Writing(p, r)
    <3>1. checkout'[r] = checkout[r]
      BY <1>2, <2>2, <2>5, CheckoutStep
    <3>2. \A q \in Procs : ~ Writing(q, r)
      BY <1>2, <2>5, WritersStep
    <3>. QED
      BY <2>1, <2>3, <3>1, <3>2 DEF IInv, UnfinishedIsExplained
  <2>. QED
    BY <2>4, <2>5
<1>. QED
  BY <1>1, <1>2 DEF Next

\* A cut-off is remembered, edits are never undone, and the setting stays.
LEMMA HistoryStep ==
    ASSUME TypeOK, [Next]_vars
    PROVE  cut \subseteq cut' /\ force' = force /\ edits <= edits' /\ edits \in Nat /\ edits' \in Nat
<1>1. edits \in Nat
  BY IndexAssumption DEF TypeOK, Versions
<1>2. CASE Edit
  BY <1>1, <1>2 DEF Edit
<1>3. CASE ~ Edit
  <2>1. edits' = edits
    BY <1>3 DEF Next, vars, Work, AcceptCheckout, CloneRepo, GitBegins, GitWrites, CloneDone, CloneFails,
          CloneCutOff, Analyze, AnalyzeFails, ReadGraph, ReadEmpty, ReadFails, Enrich, EnrichFails
  <2>2. cut \subseteq cut' /\ force' = force
    BY <1>3 DEF Next, vars, Work, AcceptCheckout, CloneRepo, GitBegins, GitWrites, CloneDone, CloneFails,
          CloneCutOff, Analyze, AnalyzeFails, ReadGraph, ReadEmpty, ReadFails, Enrich, EnrichFails
  <2>. QED
    BY <1>1, <2>1, <2>2
<1>. QED
  BY <1>2, <1>3

\* What the two steps that analyze a repository leave in the index.
LEMMA AnalysisStep ==
    ASSUME IInv, NEW p \in Procs, Analyze(p) \/ AnalyzeFails(p), index' # index
    PROVE  /\ index' \in Index /\ index'.by = p /\ index'.repo = job[p].repo
           /\ ~ index'.whole => index'.repo \in cut' \/ index'.unsettled
           /\ index'.version = edits /\ edits' = edits
<1>1. job[p] # Idle /\ job[p] \in Job /\ job[p].repo \in Repos
  BY JobType DEF IInv, Analyze, AnalyzeFails, Job
<1>2. \A whole, rows \in BOOLEAN :
        /\ Analysis(p, whole, rows) \in Index
        /\ Analysis(p, whole, rows).by = p
        /\ Analysis(p, whole, rows).repo = job[p].repo
        /\ Analysis(p, whole, rows).whole = whole
        /\ Analysis(p, whole, rows).version = edits
        /\ Analysis(p, whole, rows).unsettled <=>
              job[p].repo \in shared \/ \E q \in Procs : Writing(q, job[p].repo)
  BY <1>1 DEF IInv, TypeOK, Analysis, Index
<1>3. CASE Analyze(p)
  <2>1. PICK rows \in BOOLEAN :
          index' = Analysis(p, checkout[job[p].repo] = "complete", rows)
    BY <1>3 DEF Analyze
  <2>2. checkout[job[p].repo] # "absent" /\ cut' = cut /\ edits' = edits
    BY <1>3 DEF Analyze
  <2>3. ~ index'.whole => checkout[job[p].repo] \in {"bare", "partial"}
    BY <1>1, <1>2, <2>1, <2>2 DEF IInv, TypeOK
  <2>. QED
    BY <1>1, <1>2, <2>1, <2>2, <2>3 DEF IInv, UnfinishedIsExplained
<1>4. CASE AnalyzeFails(p)
  <2>1. PICK rows \in BOOLEAN : index' = Analysis(p, FALSE, rows) /\ cut' = cut \cup {job[p].repo}
    BY <1>4 DEF AnalyzeFails
  <2>2. edits' = edits
    BY <1>4 DEF AnalyzeFails
  <2>. QED
    BY <1>1, <1>2, <2>1, <2>2
<1>. QED
  BY <1>3, <1>4

\* An index stays explained.
LEMMA ExplainedStep ==
    ASSUME IInv, [Next]_vars, NEW i \in Index, Explained(i)
    PROVE  Explained(i)'
BY HistoryStep DEF IInv, Explained, Index, Versions

\* The index is as before, or a process has just made it.
LEMMA IndexChange ==
    ASSUME IInv, [Next]_vars
    PROVE  \/ index' = index
           \/ \E p \in Procs : Analyze(p) \/ AnalyzeFails(p)
BY DEF Next, vars, Edit, Work, AcceptCheckout, CloneRepo, GitBegins, GitWrites, CloneDone,
       CloneFails, CloneCutOff, ReadGraph, ReadEmpty, ReadFails, Enrich, EnrichFails

LEMMA IndexStep ==
    ASSUME IInv, [Next]_vars
    PROVE  IndexIsExplained'
<1>1. CASE index' = index
  <2>1. index \in Index \cup {NoIndex} /\ (index # NoIndex => Explained(index))
    BY DEF IInv, TypeOK, IndexIsExplained
  <2>. QED
    BY <1>1, <2>1, ExplainedStep DEF IndexIsExplained, Explained
<1>2. CASE index' # index
  <2>1. PICK p \in Procs : Analyze(p) \/ AnalyzeFails(p)
    BY <1>2, IndexChange
  <2>2. edits \in Nat
    BY HistoryStep DEF IInv
  <2>. QED
    BY <1>2, <2>1, <2>2, AnalysisStep DEF IndexIsExplained, Explained
<1>. QED
  BY <1>1, <1>2

\* What a process knows stays true while it does nothing itself.
LEMMA OthersKnow ==
    ASSUME IInv, [Next]_vars, NEW p \in Procs, job'[p] = job[p],
           index' = index \/ \E q \in Procs \ {p} : Analyze(q) \/ AnalyzeFails(q)
    PROVE  JobKnows(p)'
<1>. SUFFICES ASSUME job[p] # Idle
              PROVE  JobKnows(p)'
  BY DEF JobKnows
<1>1. job[p] \in Job /\ JobKnows(p) /\ job[p].since \in Nat
  BY JobType DEF IInv, ReaderKnows, Job, Versions
<1>2. edits <= edits' /\ edits \in Nat /\ edits' \in Nat /\ force' = force
  BY HistoryStep DEF IInv
<1>3. job'[p].pc = "read" /\ job'[p].analyzed => index' # NoIndex /\ Suits(p, index)'
  <2>1. CASE index' = index
    BY <1>1, <2>1 DEF JobKnows, Suits
  <2>2. CASE index' # index
    <3>1. PICK q \in Procs \ {p} : Analyze(q) \/ AnalyzeFails(q)
      BY <2>2
    <3>2. index' \in Index /\ index'.by = q /\ index'.version = edits
      BY <2>2, <3>1, AnalysisStep
    <3>. QED
      BY <1>1, <3>2, IndexAssumption DEF JobKnows, Suits
  <2>. QED
    BY <2>1, <2>2
<1>4. job'[p].pc = "enrich" =>
          /\ job'[p].from # NoIndex /\ Explained(job[p].from)'
          /\ job'[p].analyzed => Suits(p, job[p].from)'
  <2>. SUFFICES ASSUME job[p].pc = "enrich"
                PROVE  /\ job'[p].from # NoIndex /\ Explained(job[p].from)'
                       /\ job'[p].analyzed => Suits(p, job[p].from)'
    OBVIOUS
  <2>1. job[p].from \in Index /\ Explained(job[p].from) /\ job'[p].from = job[p].from
    BY <1>1 DEF JobKnows, Job
  <2>2. Explained(job[p].from)'
    BY <1>2, <2>1, HistoryStep DEF IInv, Explained, Index, Versions
  <2>. QED
    BY <1>1, <2>1, <2>2 DEF JobKnows, Suits, Job
<1>. QED
  BY <1>1, <1>2, <1>3, <1>4 DEF JobKnows

LEMMA ReaderStep ==
    ASSUME IInv, [Next]_vars
    PROVE  ReaderKnows'
<1>1. CASE UNCHANGED vars \/ Edit
  <2>1. job' = job /\ index' = index
    BY <1>1 DEF vars, Edit
  <2>. QED
    BY <2>1, OthersKnow DEF ReaderKnows
<1>2. ASSUME NEW p \in Procs, Work(p) \/ \E r \in Repos : AcceptCheckout(p, r) \/ CloneRepo(p, r)
      PROVE  ReaderKnows'
  <2>1. \A q \in Procs \ {p} : job'[q] = job[q]
    BY <1>2 DEF IInv, TypeOK, Work, AcceptCheckout, CloneRepo, GitBegins, GitWrites, CloneDone, CloneFails,
          CloneCutOff, Analyze, AnalyzeFails, ReadGraph, ReadEmpty, ReadFails, Enrich, EnrichFails, Goto, Finish
  <2>2. index' = index \/ Analyze(p) \/ AnalyzeFails(p)
    BY <1>2 DEF Work, AcceptCheckout, CloneRepo, GitBegins, GitWrites, CloneDone, CloneFails,
          CloneCutOff, ReadGraph, ReadEmpty, ReadFails, Enrich, EnrichFails
  <2>3. \A q \in Procs \ {p} : JobKnows(q)'
    BY <2>1, <2>2, OthersKnow
  <2>4. /\ force' = force /\ edits' = edits /\ edits \in Nat /\ job' \in [Procs -> Job \cup {Idle}]
        /\ \A q \in Procs : job[q] \in Job \cup {Idle}
    BY <1>2, HistoryStep, TypeStep DEF IInv, TypeOK, Next, Work, AcceptCheckout, CloneRepo, GitBegins,
          GitWrites, CloneDone, CloneFails, CloneCutOff, Analyze, AnalyzeFails, ReadGraph, ReadEmpty,
          ReadFails, Enrich, EnrichFails
  <2>5. SUFFICES ASSUME job'[p] # Idle
                 PROVE  JobKnows(p)'
    BY <2>3 DEF ReaderKnows, JobKnows
  <2>6. CASE \E r \in Repos : AcceptCheckout(p, r) \/ CloneRepo(p, r)
    <3>1. PICK stage \in {"clone", FirstStage}, s \in Repos : job' = [job EXCEPT ![p] = NewJob(s, stage)]
      BY <2>6 DEF AcceptCheckout, CloneRepo
    <3>2. job'[p] = NewJob(s, stage)
      BY <3>1 DEF IInv, TypeOK
    <3>3. /\ job'[p].since = edits /\ ~ job'[p].analyzed
          /\ job'[p].pc # "enrich" /\ (job'[p].pc = "read" => ~ force)
      BY <3>2 DEF NewJob, FirstStage
    <3>. QED
      BY <2>4, <3>3 DEF JobKnows
  <2>7. CASE Work(p)
    <3>1. job[p] # Idle /\ job[p] \in Job /\ job[p].since \in Nat /\ JobKnows(p)
      <4>1. job[p] # Idle
        BY <2>7 DEF Work, GitBegins, GitWrites, CloneDone, CloneFails, CloneCutOff, Analyze,
              AnalyzeFails, ReadGraph, ReadEmpty, ReadFails, Enrich, EnrichFails
      <4>2. job[p] \in Job /\ JobKnows(p)
        BY <4>1, JobType DEF IInv, ReaderKnows
      <4>. QED
        BY <4>1, <4>2 DEF Job, Versions
    <3>2. CASE GitBegins(p) \/ GitWrites(p)
      <4>1. /\ job[p].pc \in {"clone", "write"}
            /\ \/ job'[p] = [[job[p] EXCEPT !.pc = "write"] EXCEPT !.made = checkout[job[p].repo] = "absent"]
               \/ job'[p] = [job[p] EXCEPT !.pc = "finish"]
        BY <2>4, <3>1, <3>2 DEF GitBegins, GitWrites, Goto
      <4>2. /\ job'[p].pc \in {"write", "finish"}
            /\ job'[p].analyzed = job[p].analyzed /\ job'[p].since = job[p].since
        BY <3>1, <4>1 DEF Job
      <4>. QED
        BY <2>4, <3>1, <4>1, <4>2 DEF JobKnows
    <3>3. CASE CloneDone(p)
      <4>1. /\ job[p].pc = "finish"
            /\ job'[p] = [[job[p] EXCEPT !.pc = FirstStage] EXCEPT !.made = FALSE]
        BY <2>4, <3>1, <3>3 DEF CloneDone
      <4>2. /\ job'[p].pc = FirstStage /\ job'[p].analyzed = job[p].analyzed
            /\ job'[p].since = job[p].since
        BY <3>1, <4>1 DEF Job
      <4>. QED
        BY <2>4, <3>1, <4>1, <4>2 DEF JobKnows, FirstStage
    <3>4. CASE Analyze(p)
      <4>1. job'[p] = [[job[p] EXCEPT !.pc = "read"] EXCEPT !.analyzed = TRUE]
        BY <2>4, <3>1, <3>4 DEF Analyze
      <4>2. /\ job'[p].pc = "read" /\ job'[p].analyzed
            /\ job'[p].since = job[p].since /\ job'[p].repo = job[p].repo
        BY <3>1, <4>1 DEF Job
      <4>3. index' # NoIndex /\ index'.repo = job[p].repo /\ index'.version = edits
        <5>1. \A whole, rows \in BOOLEAN :
                /\ Analysis(p, whole, rows) \in Index
                /\ Analysis(p, whole, rows).repo = job[p].repo
                /\ Analysis(p, whole, rows).version = edits
          BY <3>1 DEF IInv, TypeOK, Analysis, Index, Job
        <5>. QED
          BY <3>4, <5>1, IndexAssumption DEF Analyze
      <4>. QED
        BY <2>4, <3>1, <4>2, <4>3 DEF JobKnows, Suits
    <3>5. CASE ReadEmpty(p)
      <4>1. job'[p] = [job[p] EXCEPT !.pc = "analyze"]
        BY <2>4, <3>1, <3>5 DEF ReadEmpty, Goto
      <4>2. job'[p].pc = "analyze" /\ job'[p].since = job[p].since
        BY <3>1, <4>1 DEF Job
      <4>. QED
        BY <2>4, <3>1, <4>2 DEF JobKnows
    <3>6. CASE ReadGraph(p)
      <4>1. /\ job'[p] = [[job[p] EXCEPT !.pc = "enrich"] EXCEPT !.from = index]
            /\ job[p].pc = "read" /\ ~ Retries(p) /\ cut' = cut
        BY <2>4, <3>1, <3>6 DEF ReadGraph
      <4>2. /\ job'[p].pc = "enrich" /\ job'[p].from = index /\ job'[p].since = job[p].since
            /\ job'[p].repo = job[p].repo /\ job'[p].analyzed = job[p].analyzed
        BY <3>1, <4>1 DEF Job
      <4>3. index # NoIndex
        BY <3>1, <4>1 DEF JobKnows, Retries, HasRows, Job
      <4>4. Explained(index) /\ (job[p].analyzed => Suits(p, index))
        BY <3>1, <4>1, <4>3 DEF IInv, IndexIsExplained, JobKnows
      <4>5. Explained(job[p].from)' /\ (job'[p].analyzed => Suits(p, job[p].from)')
        BY <2>4, <4>1, <4>2, <4>4 DEF Explained, Suits
      <4>. QED
        BY <2>4, <3>1, <4>1, <4>2, <4>3, <4>5 DEF JobKnows
    <3>7. CASE CloneFails(p) \/ CloneCutOff(p) \/ AnalyzeFails(p) \/ ReadFails(p)
                   \/ Enrich(p) \/ EnrichFails(p)
      BY <2>4, <2>5, <3>7 DEF CloneFails, CloneCutOff, AnalyzeFails, ReadFails, Enrich, EnrichFails, Finish
    <3>. QED
      BY <2>7, <3>2, <3>3, <3>4, <3>5, <3>6, <3>7 DEF Work
  <2>. QED
    BY <1>2, <2>6, <2>7
<1>. QED
  BY <1>1, <1>2 DEF Next

\* A payload is returned by one action alone; every other step takes it away.
LEMMA PayloadStep ==
    ASSUME IInv, [Next]_vars
    PROVE  PartsAreExplained' /\ OwnAnalysis' /\ FreshSnapshot'
<1>1. CASE UNCHANGED vars
  BY <1>1 DEF IInv, PartsAreExplained, OwnAnalysis, FreshSnapshot, vars
<1>2. CASE payload' = NoPayload
  BY <1>2 DEF PartsAreExplained, OwnAnalysis, FreshSnapshot, NoPayload
<1>3. ASSUME NEW p \in Procs, Enrich(p)
      PROVE  PartsAreExplained' /\ OwnAnalysis' /\ FreshSnapshot'
  <2>1. /\ job[p] # Idle /\ job[p] \in Job /\ job[p].pc = "enrich" /\ JobKnows(p)
    BY <1>3, JobType DEF IInv, ReaderKnows, Enrich
  <2>2. /\ Explained(job[p].from) /\ (force => job[p].analyzed)
        /\ job[p].analyzed => Suits(p, job[p].from)
    BY <2>1 DEF JobKnows
  <2>3. /\ payload'.asked = job[p].repo /\ payload'.to = p /\ payload'.since = job[p].since
        /\ payload'.analyzed = job[p].analyzed /\ payload'.from = job[p].from
        /\ payload'.facts = edits /\ cut' = cut /\ force' = force
    BY <1>3 DEF Enrich, Facts
  <2>4. PartsAreExplained'
    BY <2>2, <2>3 DEF Explained, PartsAreExplained
  <2>5. OwnAnalysis'
    BY <2>2, <2>3 DEF Suits, OwnAnalysis
  <2>6. FreshSnapshot'
    BY <2>2, <2>3 DEF Explained, Suits, FreshSnapshot
  <2>. QED
    BY <2>4, <2>5, <2>6
<1>. QED
  BY <1>1, <1>2, <1>3 DEF Next, Work, Edit, AcceptCheckout, CloneRepo, GitBegins, GitWrites, CloneDone,
     CloneFails, CloneCutOff, Analyze, AnalyzeFails, ReadGraph, ReadEmpty, ReadFails, EnrichFails

\* The inductive invariant holds in every state.
THEOREM Invariance == Spec => []IInv
<1>1. Init => IInv
  BY InitInv
<1>2. IInv /\ [Next]_vars => IInv'
  BY TypeStep, LoneWriterStep, UnfinishedStep, IndexStep, ReaderStep, PayloadStep DEF IInv
<1>. QED
  BY <1>1, <1>2, PTL DEF Spec

\* Every variable keeps its type.
THEOREM TypeCorrect == Spec => []TypeOK
BY Invariance, PTL DEF IInv

\* A payload of a part of a repository is explained by a cut-off, or by an
\* analysis beside another process's clone (_import_remote_repo, index_repo).
THEOREM PartsExplained == Spec => []PartsAreExplained
BY Invariance, PTL DEF IInv

\* A request that had its repository analyzed returns the graph of that
\* repository unless another process analyzed in between (index_repo).
THEOREM OwnAnalysisReturned == Spec => []OwnAnalysis
BY Invariance, PTL DEF IInv

\* The graph that a request had made is not older than the request, nor newer
\* than the facts merged with it (GitNexusCliCodeKnowledgeCoreAdapter.index_repo).
THEOREM SnapshotsAreFresh == Spec => []FreshSnapshot
BY Invariance, PTL DEF IInv

\* A complete checkout stays complete, however many processes clone into it:
\* unless two had found its directory empty, and one of these is still in it.
THEOREM CompleteCheckoutsStay == Spec => CompleteStays
<1>1. ASSUME IInv, [Next]_vars, NEW r \in Repos, checkout[r] = "complete",
             r \in shared => \A p \in Procs : ~ Writing(p, r)
      PROVE  checkout'[r] = "complete"
  <2>1. CASE UNCHANGED vars \/ Edit
    BY <1>1, <2>1 DEF vars, Edit
  <2>2. ASSUME NEW p \in Procs, Work(p) \/ \E s \in Repos : AcceptCheckout(p, s) \/ CloneRepo(p, s)
        PROVE  checkout'[r] = "complete"
    <3>1. ~ Writing(p, r)
      BY <1>1 DEF IInv, LoneWriter
    <3>. QED
      BY <1>1, <2>2, <3>1, CheckoutStep
  <2>. QED
    BY <1>1, <2>1, <2>2 DEF Next
<1>2. IInv /\ [Next]_vars =>
        [\A r \in Repos :
            /\ checkout[r] = "complete"
            /\ r \in shared => \A p \in Procs : ~ Writing(p, r)
            => checkout'[r] = "complete"]_vars
  BY <1>1
<1>. QED
  BY <1>2, Invariance, PTL DEF Spec, CompleteStays

-----------------------------------------------------------------------------
(* The cache directories as what is claimed.                                *)

\* A step that changes what one directory holds, or who makes it, is a step of
\* the cache if it is one for that directory.
LEMMA OneDirectory ==
    ASSUME NEW r \in Repos, \A s \in Repos \ {r} : Content(s)' = Content(s) /\ Makers(s)' = Makers(s)
    PROVE  /\ [s \in Repos |-> Content(s)]' = [[s \in Repos |-> Content(s)] EXCEPT ![r] = Content(r)']
           /\ [s \in Repos |-> Makers(s)]' = [[s \in Repos |-> Makers(s)] EXCEPT ![r] = Makers(r)']
OBVIOUS

LEMMA CacheUnchanged ==
    ASSUME \A r \in Repos : Content(r)' = Content(r) /\ Makers(r)' = Makers(r), shared' = shared
    PROVE  UNCHANGED Cache!cacheVars
BY DEF Cache!cacheVars

LEMMA ContentType ==
    ASSUME checkout \in [Repos -> {"absent", "bare", "partial", "complete"}], NEW r \in Repos
    PROVE  Content(r) \in {"none", "empty", "part", "whole"}
BY DEF Content

LEMMA CacheStep ==
    ASSUME IInv, [Next]_vars
    PROVE  [Cache!Next]_(Cache!cacheVars)
<1>1. CASE UNCHANGED vars \/ Edit
  <2>1. (\A r \in Repos : Content(r)' = Content(r) /\ Makers(r)' = Makers(r)) /\ shared' = shared
    BY <1>1 DEF vars, Edit, Content, Makers, Writing
  <2>. QED
    BY <2>1, CacheUnchanged
<1>2. ASSUME NEW p \in Procs,
             Work(p) \/ \E r \in Repos : AcceptCheckout(p, r) \/ CloneRepo(p, r)
      PROVE  [Cache!Next]_(Cache!cacheVars)
  <2>1. \A q \in Procs \ {p}, r \in Repos : Writing(q, r)' <=> Writing(q, r)
    BY <1>2, WritersStep
  <2>2. \A r \in Repos : (Writing(p, r)' <=> Writing(p, r)) => Makers(r)' = Makers(r)
    BY <2>1 DEF Makers
  <2>3. \A r, s \in Repos : Writing(p, r) /\ Writing(p, s) => r = s
    BY DEF Writing
  <2>4. ~ GitBegins(p) => shared' = shared
    BY <1>2 DEF Work, AcceptCheckout, CloneRepo, GitWrites, CloneDone, CloneFails, CloneCutOff,
          Analyze, AnalyzeFails, ReadGraph, ReadEmpty, ReadFails, Enrich, EnrichFails
  <2>5. CASE GitBegins(p)
    <3>1. job[p] # Idle /\ job[p].repo \in Repos
      BY <2>5, JobType DEF IInv, GitBegins, Job
    <3>2. PICK r \in Repos : r = job[p].repo
      BY <3>1
    <3>3. /\ checkout[r] \in {"absent", "bare"} /\ checkout'[r] = "bare"
          /\ \A s \in Repos \ {r} : checkout'[s] = checkout[s]
      BY <2>5, <3>2 DEF IInv, TypeOK, GitBegins, Vacant
    <3>4. \A s \in Repos : ~ Writing(p, s) /\ (Writing(p, s)' <=> s = r)
      BY <1>2, <2>5, <3>2, WritersStep
    <3>5. \A s \in Repos \ {r} : Content(s)' = Content(s) /\ Makers(s)' = Makers(s)
      BY <2>2, <3>3, <3>4 DEF Content
    <3>6. Makers(r)' = Makers(r) \cup {p}
      BY <2>1, <3>4 DEF Makers
    <3>7. /\ Content(r) \in {"none", "empty"} /\ Content(r)' = "empty"
          /\ Content(r) = "none" <=> checkout[r] = "absent"
      BY <3>3 DEF Content
    <3>8. shared' = CASE Makers(r) # {} -> shared \cup {r}
                      [] Makers(r) = {} /\ Content(r) = "none" -> shared \ {r}
                      [] Makers(r) = {} /\ Content(r) = "empty" -> shared
      <4>1. (\E q \in Procs \ {p} : Writing(q, r)) <=> Makers(r) # {}
        BY <3>4 DEF Makers
      <4>2. shared' = IF \E q \in Procs \ {p} : Writing(q, r) THEN shared \cup {r}
                      ELSE IF checkout[r] = "absent" THEN shared \ {r} ELSE shared
        BY <2>5, <3>2 DEF GitBegins, SharedNow
      <4>. QED BY <3>7, <4>1, <4>2
    <3>9. Cache!Claim(p, r)
      BY <3>5, <3>6, <3>7, <3>8, OneDirectory DEF Cache!Claim
    <3>. QED
      BY <3>9 DEF Cache!Next
  <2>6. CASE GitWrites(p)
    <3>1. PICK r \in Repos : Writing(p, r) /\ r = job[p].repo
      BY <2>6, JobType DEF IInv, GitWrites, Writing, Job
    <3>2. \A s \in Repos : Writing(p, s)' <=> Writing(p, s)
      BY <1>2, <2>6, WritersStep
    <3>3. (\A s \in Repos : Makers(s)' = Makers(s)) /\ shared' = shared
      BY <2>2, <2>4, <2>6, <3>2 DEF GitBegins, GitWrites
    <3>4. \A s \in Repos \ {r} : Content(s)' = Content(s)
      <4>1. \A s \in Repos \ {r} : checkout'[s] = checkout[s]
        BY <2>6, <3>1 DEF IInv, TypeOK, GitWrites
      <4>. QED BY <4>1 DEF Content
    <3>5. CASE checkout'[r] = checkout[r]
      BY <3>3, <3>4, <3>5, CacheUnchanged DEF Content
    <3>6. CASE checkout'[r] # checkout[r]
      <4>1. checkout'[r] = "partial"
        BY <2>6, <3>1, <3>6 DEF IInv, TypeOK, GitWrites
      <4>2. r \notin shared => checkout[r] = "bare"
        BY <2>6, <3>1 DEF IInv, LoneWriter, GitWrites
      <4>3. p \in Makers(r) /\ Content(r)' = "part" /\ (Content(r) = "empty" \/ r \in shared)
        BY <3>1, <4>1, <4>2 DEF Makers, Content
      <4>4. UNCHANGED <<[s \in Repos |-> Makers(s)], shared>>
        BY <3>3
      <4>5. Cache!Fill(r)
        BY <3>3, <3>4, <4>3, <4>4, OneDirectory DEF Cache!Fill
      <4>. QED BY <4>5 DEF Cache!Next
    <3>. QED BY <3>5, <3>6
  <2>7. ASSUME NEW r \in Repos, Writing(p, r), ~ Writing(p, r)', CloneDone(p) \/ CloneFails(p) \/ CloneCutOff(p)
        PROVE  Cache!Next
    <3>1. \A s \in Repos \ {r} : ~ Writing(p, s) /\ ~ Writing(p, s)'
      BY <1>2, <2>3, <2>7, WritersStep
    <3>2. ~ GitBegins(p)
      BY <1>2, <2>7, WritersStep
    <3>3. \A s \in Repos \ {r} : checkout'[s] = checkout[s]
      BY <1>2, <3>1, <3>2, CheckoutStep
    <3>4. \A s \in Repos \ {r} : Content(s)' = Content(s) /\ Makers(s)' = Makers(s)
      BY <2>2, <3>1, <3>3 DEF Content
    <3>5. p \in Makers(r) /\ Makers(r)' = Makers(r) \ {p}
      BY <2>1, <2>7 DEF Makers
    <3>6. Content(r)' \in {"none", "empty", "part", "whole"}
      BY TypeStep, ContentType DEF TypeOK, Content
    <3>7. Cache!Leave(p, r)
      BY <2>4, <3>2, <3>4, <3>5, <3>6, OneDirectory DEF Cache!Leave
    <3>. QED
      BY <3>7 DEF Cache!Next
  <2>8. CASE ~ GitBegins(p) /\ ~ GitWrites(p) /\ \A r \in Repos : Writing(p, r)' <=> Writing(p, r)
    <3>1. \A r \in Repos : checkout'[r] = checkout[r]
      BY <1>2, <2>8, CheckoutStep, WritersStep
    <3>2. \A r \in Repos : Content(r)' = Content(r)
      BY <3>1 DEF Content
    <3>. QED
      BY <2>2, <2>4, <2>8, <3>2, CacheUnchanged
  <2>9. ~ GitBegins(p) => \A r \in Repos : Writing(p, r)' => Writing(p, r)
    BY <1>2, WritersStep DEF Work
  <2>10. ~ GitBegins(p) => \A r \in Repos :
            Writing(p, r) /\ ~ Writing(p, r)' => CloneDone(p) \/ CloneFails(p) \/ CloneCutOff(p)
    BY <1>2, WritersStep DEF Work
  <2>. QED
    BY <2>5, <2>6, <2>7, <2>8, <2>9, <2>10
<1>. QED
  BY <1>1, <1>2 DEF Next

\* For any number of processes and repositories, cloning is claiming a directory:
\* with something in it, it is nobody's to claim, and until another has claimed
\* it empty the process that makes it is the only one to change what is there.
THEOREM Refinement == Spec => ImplementsCache
<1>1. Init => Cache!Init
  <2>. SUFFICES ASSUME Init PROVE Cache!Init
    OBVIOUS
  <2>1. \A r \in Repos : Content(r) \in {"none", "whole"} /\ Makers(r) = {}
    BY DEF Init, Content, Makers, Writing
  <2>2. shared = {}
    BY DEF Init
  <2>. QED
    BY <2>1, <2>2 DEF Cache!Init
<1>2. IInv /\ [Next]_vars => [Cache!Next]_(Cache!cacheVars)
  BY CacheStep
<1>. QED
  BY <1>1, <1>2, Invariance, PTL DEF Spec, ImplementsCache, Cache!Spec

-----------------------------------------------------------------------------
(* Why a request ends.                                                      *)

\* The steps that a request has left at most.
StepsLeft(p) ==
    IF job[p] = Idle THEN 0
    ELSE CASE job[p].pc = "clone" -> 8
           [] job[p].pc = "write" -> 7
           [] job[p].pc = "finish" -> 6
           [] job[p].pc = "read" -> IF job[p].analyzed THEN 3 ELSE 5
           [] job[p].pc = "analyze" -> 4
           [] OTHER -> 2

\* Every step of a request in hand brings it closer to its end, and no other
\* request, failing clone or edit throws it back.
RequestsAdvance ==
    [][\A p \in Procs : job[p] # Idle =>
          /\ StepsLeft(p)' <= StepsLeft(p)
          /\ Work(p) => StepsLeft(p)' < StepsLeft(p)]_vars


\* The steps of a request itself.
LEMMA OwnStepAdvances ==
    ASSUME IInv, NEW p \in Procs, Work(p)
    PROVE  StepsLeft(p)' < StepsLeft(p)
<1>1. job[p] # Idle /\ job[p] \in Job /\ JobKnows(p) /\ job[p].repo \in Repos
  <2>1. job[p] # Idle
    BY DEF Work, GitBegins, GitWrites, CloneDone, CloneFails, CloneCutOff, Analyze,
          AnalyzeFails, ReadGraph, ReadEmpty, ReadFails, Enrich, EnrichFails
  <2>. QED
    BY <2>1, JobType DEF IInv, ReaderKnows, Job
<1>2. Idle \notin Job
  BY DEF Idle, Job
<1>3. StepsLeft(p) \in 2..8
  BY <1>1 DEF StepsLeft, Job
<1>4. CASE GitBegins(p)
  <2>1. /\ job'[p] = [[job[p] EXCEPT !.pc = "write"] EXCEPT !.made = checkout[job[p].repo] = "absent"]
        /\ job[p].pc = "clone"
    BY <1>4 DEF IInv, TypeOK, GitBegins
  <2>2. job'[p] # Idle /\ job'[p].pc = "write"
    BY <1>1, <2>1 DEF Job, Idle
  <2>. QED
    BY <1>1, <2>1, <2>2 DEF StepsLeft
<1>5. CASE GitWrites(p)
  <2>1. job'[p] = [job[p] EXCEPT !.pc = "finish"] /\ job[p].pc = "write"
    BY <1>5 DEF IInv, TypeOK, GitWrites, Goto
  <2>2. job'[p] # Idle /\ job'[p].pc = "finish"
    BY <1>1, <2>1 DEF Job, Idle
  <2>. QED
    BY <1>1, <2>1, <2>2 DEF StepsLeft
<1>6. CASE CloneDone(p)
  <2>1. job'[p] = [[job[p] EXCEPT !.pc = FirstStage] EXCEPT !.made = FALSE] /\ job[p].pc = "finish"
    BY <1>6 DEF IInv, TypeOK, CloneDone
  <2>2. job'[p] # Idle /\ job'[p].pc \in {"analyze", "read"}
    BY <1>1, <2>1 DEF Job, FirstStage, Idle
  <2>. QED
    BY <1>1, <2>1, <2>2 DEF StepsLeft
<1>7. CASE CloneFails(p) \/ CloneCutOff(p) \/ AnalyzeFails(p) \/ ReadFails(p) \/ Enrich(p) \/ EnrichFails(p)
  <2>1. job'[p] = Idle
    BY <1>7 DEF IInv, TypeOK, CloneFails, CloneCutOff, AnalyzeFails, ReadFails, Enrich, EnrichFails, Finish
  <2>. QED
    BY <1>3, <2>1 DEF StepsLeft
<1>8. CASE Analyze(p)
  <2>1. job'[p] = [[job[p] EXCEPT !.pc = "read"] EXCEPT !.analyzed = TRUE] /\ job[p].pc = "analyze"
    BY <1>8 DEF IInv, TypeOK, Analyze
  <2>2. job'[p] \in Job /\ job'[p].pc = "read" /\ job'[p].analyzed
    BY <1>1, <2>1 DEF Job
  <2>. QED
    BY <1>1, <1>2, <2>1, <2>2 DEF StepsLeft
<1>9. CASE ReadGraph(p)
  <2>1. job'[p] = [[job[p] EXCEPT !.pc = "enrich"] EXCEPT !.from = index] /\ job[p].pc = "read"
    BY <1>9 DEF IInv, TypeOK, ReadGraph
  <2>2. job'[p] # Idle /\ job'[p].pc = "enrich"
    BY <1>1, <2>1 DEF Job, Idle
  <2>. QED
    BY <1>1, <2>1, <2>2 DEF StepsLeft
<1>10. CASE ReadEmpty(p)
  <2>1. job'[p] = [job[p] EXCEPT !.pc = "analyze"] /\ job[p].pc = "read" /\ ~ job[p].analyzed
    BY <1>10 DEF IInv, TypeOK, ReadEmpty, Goto, Retries
  <2>2. job'[p] # Idle /\ job'[p].pc = "analyze"
    BY <1>1, <2>1 DEF Job, Idle
  <2>. QED
    BY <1>1, <2>1, <2>2 DEF StepsLeft
<1>. QED
  BY <1>4, <1>5, <1>6, <1>7, <1>8, <1>9, <1>10 DEF Work

\* A request is where it was while others do their steps, whatever they do to the
\* directory that it writes or reads.
LEMMA OthersKeepPace ==
    ASSUME IInv, [Next]_vars, NEW p \in Procs, job[p] # Idle, ~ Work(p)
    PROVE  StepsLeft(p)' = StepsLeft(p)
<1>1. CASE UNCHANGED vars \/ Edit
  BY <1>1 DEF vars, Edit, StepsLeft
<1>2. ASSUME NEW q \in Procs, Work(q) \/ \E r \in Repos : AcceptCheckout(q, r) \/ CloneRepo(q, r)
      PROVE  StepsLeft(p)' = StepsLeft(p)
  <2>1. q # p
    BY <1>2 DEF AcceptCheckout, CloneRepo
  <2>2. job'[p] = job[p]
    BY <1>2, <2>1 DEF IInv, TypeOK, Work, AcceptCheckout, CloneRepo, GitBegins, GitWrites, CloneDone, CloneFails,
          CloneCutOff, Analyze, AnalyzeFails, ReadGraph, ReadEmpty, ReadFails, Enrich, EnrichFails, Goto, Finish
  <2>. QED
    BY <2>2 DEF StepsLeft
<1>. QED
  BY <1>1, <1>2 DEF Next

\* A request in hand has two to eight steps left.
LEMMA StepsInHand ==
    ASSUME IInv, NEW p \in Procs, job[p] # Idle
    PROVE  StepsLeft(p) \in 2..8
<1>1. job[p] \in Job
  BY JobType DEF IInv
<1>. QED BY <1>1 DEF StepsLeft, Job

LEMMA StepsGoDown ==
    ASSUME IInv, [Next]_vars, NEW p \in Procs, job[p] # Idle
    PROVE  /\ StepsLeft(p)' \in Nat
           /\ StepsLeft(p)' <= StepsLeft(p)
           /\ Work(p) => StepsLeft(p)' < StepsLeft(p)
<1>1. StepsLeft(p) \in Nat
  BY StepsInHand
<1>2. job'[p] \in Job \cup {Idle}
  BY TypeStep DEF TypeOK
<1>3. StepsLeft(p)' \in Nat
  BY <1>2 DEF StepsLeft, Job
<1>. QED BY <1>1, <1>3, OwnStepAdvances, OthersKeepPace

\* The variant of a request, the retry after an empty graph included.
THEOREM RequestsComeToTheirEnd == Spec => RequestsAdvance
<1>1. IInv /\ [Next]_vars =>
        [\A p \in Procs : job[p] # Idle =>
            /\ StepsLeft(p)' <= StepsLeft(p)
            /\ Work(p) => StepsLeft(p)' < StepsLeft(p)]_vars
  BY StepsGoDown
<1>. QED BY <1>1, Invariance, PTL DEF Spec, RequestsAdvance

\* Request p is in hand, and has at most n steps left.
Within(p, n) == job[p] # Idle /\ StepsLeft(p) <= n

LEMMA WithinFewer ==
    ASSUME NEW p \in Procs, NEW n \in 2..8, IInv, [Next]_vars, Within(p, n)
    PROVE  /\ Within(p, n)' \/ job'[p] = Idle
           /\ Work(p) => Within(p, n - 1)' \/ job'[p] = Idle
<1>1. job[p] # Idle /\ StepsLeft(p) <= n /\ StepsLeft(p) \in Nat
  BY StepsInHand DEF Within
<1>2. /\ StepsLeft(p)' \in Nat /\ StepsLeft(p)' <= n
      /\ Work(p) => StepsLeft(p)' <= n - 1
  BY <1>1, StepsGoDown
<1>. QED BY <1>2 DEF Within

\* The conditions under which a request has a step to take that is its own to
\* take: each of its commands may fail, whatever others have done to the
\* directory and the index, and reading and enriching may.
MayWork(p) ==
    /\ job[p] # Idle
    /\ job[p].pc \in {"clone", "write", "finish", "analyze", "read", "enrich"}

\* There is such a step in every stage of a request.
LEMMA GuardsCoverTheStages == IInv => \A p \in Procs : job[p] # Idle => MayWork(p)
  BY JobType DEF MayWork, Job, IInv

\* Every index request ends, for any number of processes and repositories: the
\* fairness of its own steps keeps it going as long as it can go on, no step of
\* another throws it back, and at most seven are left.  That it can go on follows
\* from its conditions; that a step whose conditions hold can be taken is the
\* premise, as ENABLED is beyond the prover: it can be read off CloneFails,
\* AnalyzeFails, ReadFails and EnrichFails, and the run of NeverStuck checks it.
THEOREM EveryRequestEnds ==
    Spec /\ [](\A p \in Procs : MayWork(p) => ENABLED <<Work(p)>>_vars) => Ends
<1>. DEFINE Premise == \A p \in Procs : MayWork(p) => ENABLED <<Work(p)>>_vars
<1>1. ASSUME NEW p \in Procs
      PROVE  Spec /\ []Premise => (job[p] # Idle ~> job[p] = Idle)
  <2>1. Spec => GoesOn(p)
    BY DEF Spec
  <2>2. IInv /\ Premise => (job[p] # Idle => ENABLED <<Work(p)>>_vars)
    BY GuardsCoverTheStages
  <2>3. IInv => (job[p] # Idle => Within(p, 8)) /\ ~ Within(p, 1)
    BY StepsInHand DEF Within
  <2>4. IInv /\ [Next]_vars =>
          /\ Within(p, 8) => Within(p, 8)' \/ (job[p] = Idle)'
          /\ Within(p, 7) => Within(p, 7)' \/ (job[p] = Idle)'
          /\ Within(p, 6) => Within(p, 6)' \/ (job[p] = Idle)'
          /\ Within(p, 5) => Within(p, 5)' \/ (job[p] = Idle)'
          /\ Within(p, 4) => Within(p, 4)' \/ (job[p] = Idle)'
          /\ Within(p, 3) => Within(p, 3)' \/ (job[p] = Idle)'
          /\ Within(p, 2) => Within(p, 2)' \/ (job[p] = Idle)'
    <3>1. ASSUME IInv, [Next]_vars
          PROVE  \A n \in 2..8 : Within(p, n) => Within(p, n)' \/ (job[p] = Idle)'
      BY <3>1, WithinFewer
    <3>. QED BY <3>1
  <2>5. IInv /\ <<Work(p)>>_vars =>
          /\ Within(p, 8) => Within(p, 7)' \/ (job[p] = Idle)'
          /\ Within(p, 7) => Within(p, 6)' \/ (job[p] = Idle)'
          /\ Within(p, 6) => Within(p, 5)' \/ (job[p] = Idle)'
          /\ Within(p, 5) => Within(p, 4)' \/ (job[p] = Idle)'
          /\ Within(p, 4) => Within(p, 3)' \/ (job[p] = Idle)'
          /\ Within(p, 3) => Within(p, 2)' \/ (job[p] = Idle)'
          /\ Within(p, 2) => Within(p, 1)' \/ (job[p] = Idle)'
    <3>1. ASSUME IInv, Work(p)
          PROVE  \A n \in 2..8 : Within(p, n) => Within(p, n - 1)' \/ (job[p] = Idle)'
      BY <3>1, WithinFewer DEF Next
    <3>2. /\ 8 - 1 = 7 /\ 7 - 1 = 6 /\ 6 - 1 = 5 /\ 5 - 1 = 4
          /\ 4 - 1 = 3 /\ 3 - 1 = 2 /\ 2 - 1 = 1
      OBVIOUS
    <3>. QED BY <3>1, <3>2
  <2>6. Within(p, 8) \/ Within(p, 7) \/ Within(p, 6) \/ Within(p, 5) \/ Within(p, 4) \/ Within(p, 3)
        \/ Within(p, 2) => job[p] # Idle
    BY DEF Within
  <2>. QED BY <2>1, <2>2, <2>3, <2>4, <2>5, <2>6, Invariance, PTL DEF Spec, GoesOn
<1>. QED BY <1>1 DEF Ends
=============================================================================
