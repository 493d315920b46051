------------------------------ MODULE Delivery ------------------------------
(***************************************************************************)
(* How a change reaches a repository (src/internal/tools: propose, verify, *)
(* deliver, publish; src/internal/edit; the decision of src/internal/api/  *)
(* effects.go): proposed against a span, checked, applied on a branch of   *)
(* its own, committed, and looked at again.                                *)
(*                                                                         *)
(* Every delivery works in the one working tree of its repository: the     *)
(* tasks of the improvement runs, the changes people approve in the        *)
(* console, and the refresh of a cached clone (src/internal/intake).  Each *)
(* git command and each read or write of a file is a step.                 *)
(*                                                                         *)
(* The content of a file is the set of changes applied to it.  A change    *)
(* can be applied as long as nothing has replaced its span: Rivals[c] are  *)
(* the changes, c among them, that replace text c is anchored in.          *)
(***************************************************************************)
EXTENDS Naturals, Sequences, FiniteSets

CONSTANTS
  Change, Path, PathOf, Rivals,
  Sound,        \* changes that leave a file that parses and whose names resolve
  Asked,        \* deliveries a person decides in the console
  Tasked,       \* deliveries of an improvement run, after its approval
  Published,    \* publications of an evaluation set
  ChangeOf,     \* ChangeOf[j]: what delivery j delivers
  CasesOf,      \* CasesOf[j]: how many cases publication j holds
  Crews,        \* bound: the deliveries a behaviour may draw from
  MaxAttempts,  \* attempts the worker's ladder gives a task
  MaxFailures,    \* bound: steps that fail
  MaxCrashes,   \* bound: restarts of the process
  MaxRefreshes  \* bound: refreshes of the clone

Job == Asked \cup Tasked

ASSUME DeliveryAssumption ==
  /\ PathOf \in [Change -> Path]
  /\ Rivals \in [Change -> SUBSET Change]
  /\ \A c, d \in Change :
       c \in Rivals[c] /\ (d \in Rivals[c] => PathOf[d] = PathOf[c] /\ c \in Rivals[d])
  /\ Sound \subseteq Change
  /\ Asked \cap Tasked = {} /\ Published \cap Job = {} /\ "upstream" \notin Job
  /\ ChangeOf \in [Job -> Change]
  /\ CasesOf \in [Published -> Nat]
  /\ MaxAttempts \in Nat /\ MaxFailures \in Nat /\ MaxCrashes \in Nat /\ MaxRefreshes \in Nat

VARIABLES
  file,     \* the working tree: path |-> changes applied
  staged,   \* the index
  commits,  \* every commit: [parent, files, by]
  branch,   \* branches: name |-> commit
  head,     \* [name, at]: the branch checked out, or a commit
  job,      \* the deliveries under way
  evalset,  \* the publication whose file is in the tree, or none
  failures, crashes, refreshes,
  answers,  \* ghost: a person's answers to a delivery, in order
  crossed   \* ghost: deliveries that shared the tree with another

gitVars == <<file, staged, commits, branch, head>>
bounds == <<failures, crashes, refreshes>>
deliveryVars == <<gitVars, job, evalset, bounds, answers, crossed>>

Main == <<"main">>
Detached == <<"detached">>
Clean == [p \in Path |-> {}]
HeadCommit == IF head.name = Detached THEN head.at ELSE branch[head.name]
Root == 1

Doing(j, s) == job[j].step = s
MoveTo(j, s) == job' = [job EXCEPT ![j].step = s]
InTree == {j \in Job : job[j].step \in
             {"validate", "read", "write", "reread", "add", "commit", "sha", "show", "head"}}

\* Validate: the text is there and occurs once, in the file as it is now.
Anchored(c) == file[PathOf[c]] \cap Rivals[c] = {}

-----------------------------------------------------------------------------
\* Proposing and verifying, the tasks before the delivery

\* ProposeSpanChange, for a span the index still has: validated before it is shown.
Propose(j) ==
  /\ Doing(j, "propose")
  /\ MoveTo(j, IF ~Anchored(ChangeOf[j]) THEN "failed" ELSE IF j \in Asked THEN "pending" ELSE "verify")
  /\ UNCHANGED <<gitVars, evalset, bounds, answers, crossed>>

\* VerifyProposal: it applies, parses, resolves its names, and a model fails to refute it.
Verify(j) ==
  /\ Doing(j, "verify")
  /\ \E refuted \in BOOLEAN :
       MoveTo(j, IF Anchored(ChangeOf[j]) /\ ChangeOf[j] \in Sound /\ ~refuted THEN "start" ELSE "failed")
  /\ UNCHANGED <<gitVars, evalset, bounds, answers, crossed>>

\* mutant: a decision is not remembered
DecideAgain(j) == \E yes \in BOOLEAN :
  /\ job[j].step \in {"pending", "declined"}
  /\ answers' = [answers EXCEPT ![j] = Append(@, yes)]
  /\ MoveTo(j, IF yes THEN "branch" ELSE "declined")
  /\ UNCHANGED <<gitVars, evalset, bounds, crossed>>

\* handleDecide: take lets one answer through, and only an approval goes on.
DecideChange(j) == \E yes \in BOOLEAN :
  /\ Doing(j, "pending")
  /\ answers' = [answers EXCEPT ![j] = Append(@, yes)]
  /\ MoveTo(j, IF yes THEN "branch" ELSE "declined")
  /\ UNCHANGED <<gitVars, evalset, bounds, crossed>>

\* A task is run, and run again after an error or a restart, while its ladder lasts.
Attempt(j) ==
  /\ j \in Tasked
  /\ job[j].step \in {"start", "error"} /\ job[j].attempts < MaxAttempts
  /\ job' = [job EXCEPT ![j].step = "branch", ![j].attempts = @ + 1]
  /\ UNCHANGED <<gitVars, evalset, bounds, answers, crossed>>

-----------------------------------------------------------------------------
\* CommitChange

\* mutant: a branch for every attempt
BranchPerAttempt(j) == IF j \in Asked THEN <<"asked", j>> ELSE <<"heros", ChangeOf[j], job[j].attempts>>

\* The branch is named for the proposal that was approved, or for the change itself.
BranchOf(j) == IF j \in Asked THEN <<"asked", j>> ELSE <<"heros", ChangeOf[j]>>

\* git checkout -b: refuses a branch that exists, and takes the tree along as it is.
Branch(j) ==
  /\ Doing(j, "branch")
  /\ crossed' = IF InTree = {} THEN crossed ELSE crossed \cup InTree \cup {j}
  /\ IF BranchOf(j) \in DOMAIN branch
     THEN MoveTo(j, "error") /\ UNCHANGED <<branch, head>>
     ELSE /\ branch' = [b \in DOMAIN branch \cup {BranchOf(j)} |->
                         IF b = BranchOf(j) THEN HeadCommit ELSE branch[b]]
          /\ head' = [name |-> BranchOf(j), at |-> HeadCommit]
          /\ MoveTo(j, "validate")
  /\ UNCHANGED <<file, staged, commits, evalset, bounds, answers>>

\* Apply reads the file twice, to validate and to rewrite.
Validate(j) ==
  /\ Doing(j, "validate")
  /\ MoveTo(j, IF Anchored(ChangeOf[j]) THEN "read" ELSE "error")
  /\ UNCHANGED <<gitVars, evalset, bounds, answers, crossed>>

\* What is not there any more is replaced by nothing, and is no error.
Read(j) ==
  LET c == ChangeOf[j]  body == file[PathOf[c]] IN
  /\ Doing(j, "read")
  /\ job' = [job EXCEPT ![j].step = "write",
                        ![j].updated = IF Anchored(c) THEN body \cup {c} ELSE body]
  /\ UNCHANGED <<gitVars, evalset, bounds, answers, crossed>>

WriteFile(j) ==
  /\ Doing(j, "write")
  /\ file' = [file EXCEPT ![PathOf[ChangeOf[j]]] = job[j].updated]
  /\ MoveTo(j, "reread")
  /\ UNCHANGED <<staged, commits, branch, head, evalset, bounds, answers, crossed>>

Reread(j) ==
  /\ Doing(j, "reread")
  /\ MoveTo(j, IF file[PathOf[ChangeOf[j]]] = job[j].updated THEN "add" ELSE "error")
  /\ UNCHANGED <<gitVars, evalset, bounds, answers, crossed>>

\* git add stages the file, whoever wrote what is in it.
Add(j) ==
  LET p == PathOf[ChangeOf[j]] IN
  /\ Doing(j, "add")
  /\ staged' = [staged EXCEPT ![p] = file[p]]
  /\ MoveTo(j, "commit")
  /\ UNCHANGED <<file, commits, branch, head, evalset, bounds, answers, crossed>>

\* git commit takes the whole index to whatever is checked out, and refuses an empty commit.
Commit(j) ==
  LET n == Len(commits) + 1 IN
  /\ Doing(j, "commit")
  /\ IF staged = commits[HeadCommit].files
     THEN MoveTo(j, "error") /\ UNCHANGED <<commits, branch, head>>
     ELSE /\ commits' = Append(commits, [parent |-> HeadCommit, files |-> staged, by |-> j])
          /\ branch' = IF head.name = Detached THEN branch ELSE [branch EXCEPT ![head.name] = n]
          /\ head' = [head EXCEPT !.at = n]
          /\ MoveTo(j, "sha")
  /\ UNCHANGED <<file, staged, evalset, bounds, answers, crossed>>

\* rev-parse HEAD, a command of its own.
Sha(j) ==
  /\ Doing(j, "sha")
  /\ job' = [job EXCEPT ![j].step = IF j \in Asked THEN "applied" ELSE "show", ![j].commit = HeadCommit]
  /\ UNCHANGED <<gitVars, evalset, bounds, answers, crossed>>

\* deliveryVerifier, for a task: the commit touches the file (the first commit of a shallow
\* clone touches every file) ...
Touches(n, p) == n = Root \/ commits[n].files[p] # commits[commits[n].parent].files[p]

Show(j) ==
  /\ Doing(j, "show")
  /\ MoveTo(j, IF Touches(job[j].commit, PathOf[ChangeOf[j]]) THEN "head" ELSE "unmet")
  /\ UNCHANGED <<gitVars, evalset, bounds, answers, crossed>>

\* mutant: where the repository is does not matter
AnyHead(j) == TRUE

\* ... and the repository is on the branch it should be on.
OnBranch(j) == head.name = BranchOf(j)

Look(j) ==
  /\ Doing(j, "head")
  /\ MoveTo(j, IF OnBranch(j) THEN "met" ELSE "unmet")
  /\ UNCHANGED <<gitVars, evalset, bounds, answers, crossed>>

-----------------------------------------------------------------------------
\* PublishEvalSet: one file, replaced whole, and counted afterwards.
Publish(j) ==
  /\ Doing(j, "publish")
  /\ evalset' = j
  /\ MoveTo(j, "count")
  /\ UNCHANGED <<gitVars, bounds, answers, crossed>>

Count(j) ==
  /\ Doing(j, "count")
  /\ MoveTo(j, IF CasesOf[evalset] = CasesOf[j] THEN "met" ELSE "unmet")
  /\ UNCHANGED <<gitVars, evalset, bounds, answers, crossed>>

-----------------------------------------------------------------------------
\* The world

\* A command or a call of the file system fails.
StepFails(j) ==
  /\ failures < MaxFailures
  /\ job[j].step \in {"branch", "read", "write", "add", "commit"}
  /\ failures' = failures + 1
  /\ MoveTo(j, "error")
  /\ UNCHANGED <<gitVars, evalset, crashes, refreshes, answers, crossed>>

\* The process dies: what is pending is forgotten, the tree stays as it is, a task is retried.
Crash ==
  /\ crashes < MaxCrashes
  /\ crashes' = crashes + 1
  /\ job' = [j \in DOMAIN job |->
       IF j \in InTree \cup {i \in Job : Doing(i, "branch") \/ Doing(i, "pending")}
       THEN [job[j] EXCEPT !.step = IF j \in Asked THEN "lost" ELSE "error"]
       ELSE job[j]]
  /\ UNCHANGED <<gitVars, evalset, failures, refreshes, answers, crossed>>

\* resolveGitHub, when somebody loads the repository again: checkout --force of what was fetched.
Refresh ==
  /\ refreshes < MaxRefreshes
  /\ refreshes' = refreshes + 1
  /\ file' = commits[Root].files /\ staged' = commits[Root].files
  /\ head' = [name |-> Detached, at |-> Root]
  /\ UNCHANGED <<commits, branch, job, evalset, failures, crashes, answers, crossed>>

DeliveryInit ==
  /\ file = Clean /\ staged = Clean
  /\ commits = <<[parent |-> 0, files |-> Clean, by |-> "upstream"]>>
  /\ branch = [b \in {Main} |-> Root]
  /\ head = [name |-> Main, at |-> Root]
  /\ \E crew \in Crews : job = [j \in Job \cup Published |->
       [step |-> IF j \notin crew THEN "absent" ELSE IF j \in Published THEN "publish" ELSE "propose",
        attempts |-> 0, updated |-> {}, commit |-> 0]]
  /\ evalset = "none"
  /\ failures = 0 /\ crashes = 0 /\ refreshes = 0
  /\ answers = [j \in Asked |-> << >>]
  /\ crossed = {}

DeliveryNext ==
  \/ \E j \in Job :
       \/ Propose(j) \/ Branch(j) \/ Validate(j) \/ Read(j) \/ WriteFile(j) \/ Reread(j)
       \/ Add(j) \/ Commit(j) \/ Sha(j) \/ StepFails(j)
  \/ \E j \in Asked : DecideChange(j)
  \/ \E j \in Tasked : Verify(j) \/ Attempt(j) \/ Show(j) \/ Look(j)
  \/ \E j \in Published : Publish(j) \/ Count(j)
  \/ Crash \/ Refresh

DeliverySpec == DeliveryInit /\ [][DeliveryNext]_deliveryVars

-----------------------------------------------------------------------------
\* Properties

\* Nothing is committed that nobody agreed to: a change in any commit passed its verification
\* or was approved by the first answer its proposal got ("an approval is consent to apply a
\* change ONCE", src/internal/api/effects.go), whatever another delivery left in the tree.
CommitsWereAgreed ==
  \A n \in DOMAIN commits : \A p \in Path : \A c \in commits[n].files[p] :
    \E j \in Job : /\ ChangeOf[j] = c
                   /\ IF j \in Asked THEN answers[j] # << >> /\ answers[j][1] ELSE c \in Sound

\* A delivery commits once, however often it is tried, whatever died or was reset between two
\* attempts (the branch name of OpenPullRequest is derived from the change).
DeliveredOnce ==
  \A j \in Job : Cardinality({n \in DOMAIN commits : commits[n].by = j}) <= 1

\* A delivery that verified is where it says it is: its commit is the head of its branch and
\* contains the change -- as long as no other delivery used the tree meanwhile.
VerifiedMeansDelivered ==
  \A j \in Tasked \ crossed :
    Doing(j, "met") => /\ BranchOf(j) \in DOMAIN branch
                    /\ branch[BranchOf(j)] = job[j].commit
                    /\ ChangeOf[j] \in commits[job[j].commit].files[PathOf[ChangeOf[j]]]
=============================================================================
