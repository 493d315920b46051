------------------------------ MODULE Findings ------------------------------
(***************************************************************************)
(* What a run finds and what it makes of it: the tools of                  *)
(* src/internal/tools that call a model (assess.go, evalset.go,            *)
(* synthesise.go) and the two that only compute (the quality gate of       *)
(* evalset.go and compare.go).                                             *)
(*                                                                         *)
(* Goals are numbered in the order they were created.  A task here is one  *)
(* the worker has leased: what it may be attempted is the worker's ladder, *)
(* and which tasks it waits for is its plan (planner/plans.go): the        *)
(* synthesis and the comparison need every assessment, the gate takes the  *)
(* generators that delivered.  A paragraph is the set of the axis names it *)
(* has as words, or the empty text.                                        *)
(***************************************************************************)
EXTENDS Naturals, Sequences, FiniteSets

CONSTANTS
  Axis,          \* intent.Axes
  Weakness,
  Origin,        \* the generators, Before their order by name
  Earlier,       \* Earlier[o]: the generators whose task name sorts before that of o
  Traces,        \* the generator that has no source
  Case,          \* inputs, as their contents: caseID is one to one
  TooShort,      \* those shorter than minInputLength
  Batches,       \* bound: the case lists a generator may return
  MinCases, MinOrigins,
  Histories,     \* bound: what is asked for, in turn: sequences of [intent, repo, axes, tries]
  MaxGoals,      \* bound
  Lengths        \* bound: lengths of a reply, in multiples of the first budget

ASSUME FindingsAssumption ==
  /\ Earlier \in [Origin -> SUBSET Origin]
  /\ \A o, q \in Origin : o # q => (o \in Earlier[q] <=> q \notin Earlier[o])
  /\ IsFiniteSet(Origin) /\ IsFiniteSet(Case) /\ Batches \subseteq SUBSET Case
  /\ MinCases \in Nat /\ MinOrigins \in Nat /\ MaxGoals \in Nat
  /\ \A w \in Histories : /\ \E n \in 0..MaxGoals : DOMAIN w = 1..n
                          /\ \A g \in DOMAIN w : w[g].intent # "none" /\ w[g].axes \subseteq Axis

VARIABLES
  goals,     \* what was asked, in the order it was
  finding,   \* goal |-> axis |-> finding, or what became of the task
  cases,     \* goal |-> generator |-> the contents it returned, or what became of the task
  tries,     \* goal |-> attempts of the task in hand, by its name
  join,      \* goal |-> the last task of the goal: [step, ...]
  report,    \* goal |-> what it published
  wishes     \* the history of this behaviour

findingVars == <<goals, finding, cases, tries, join, report, wishes>>

Goal == 1..MaxGoals
StartedGoals == {g \in Goal : goals[g].intent # "none"}
Undone == [state |-> "pending"]
Failed == [state |-> "failed"]
NotYet == [step |-> "idle"]
Nothing == [kind |-> "none"]

Found(g) == {a \in Axis : finding[g][a].state = "found"}
Scope(g) == goals[g].axes
maxBudgetEscalations == 2

\* budgetFor: a retry is given twice the tokens, two times.
budgetFor(attempt) == 2 ^ (IF attempt - 1 > maxBudgetEscalations THEN maxBudgetEscalations ELSE attempt - 1)

-----------------------------------------------------------------------------
FindingsInit ==
  /\ goals = [g \in Goal |-> [intent |-> "none", repo |-> "none", axes |-> {}, tries |-> 0]]
  /\ finding = [g \in Goal |-> [a \in Axis |-> Undone]]
  /\ cases = [g \in Goal |-> [o \in Origin |-> Undone]]
  /\ tries = [g \in Goal |-> [t \in Axis \cup Origin \cup {"join"} |-> 0]]
  /\ join = [g \in Goal |-> NotYet]
  /\ report = [g \in Goal |-> Nothing]
  /\ wishes \in Histories

\* startGoal, as far as these tools see it.
StartWish == \E g \in DOMAIN wishes :
  /\ StartedGoals = 1..(g - 1)
  /\ goals' = [goals EXCEPT ![g] = wishes[g]]
  /\ UNCHANGED <<finding, cases, tries, join, report, wishes>>

Try(g, t) ==
  /\ tries[g][t] < goals[g].tries
  /\ tries' = [tries EXCEPT ![g][t] = @ + 1]

\* The last attempt fails the task; an earlier one leaves it to be tried again.
Ladder(g, t) == IF tries[g][t] + 1 = goals[g].tries THEN Failed ELSE Undone

\* AssessAxis: the axis is the task's, whatever the model wrote.
Assess(g, a) ==
  /\ goals[g].intent \in {"assess", "compare"} /\ a \in Scope(g)
  /\ finding[g][a] = Undone /\ Try(g, a)
  /\ \/ \E w \in Weakness, act \in BOOLEAN, n \in Lengths :
          /\ n <= budgetFor(tries[g][a] + 1)
          /\ finding' = [finding EXCEPT ![g][a] = [state |-> "found", weakness |-> w, actionable |-> act]]
     \/ \* no excerpt, a call that failed, cut off, not the object asked for, no weakness in it
        finding' = [finding EXCEPT ![g][a] = Ladder(g, a)]
  /\ UNCHANGED <<goals, cases, join, report, wishes>>

-----------------------------------------------------------------------------
\* SynthesiseAssessment

CanJoin(g) ==
  /\ join[g] = NotYet /\ report[g] = Nothing /\ Scope(g) # {}
  /\ Found(g) = Scope(g)

\* rankFindings: actionable first, in the order of the axes within each part.
rankFindings(g) ==
  [actionable |-> {a \in Found(g) : finding[g][a].actionable},
   noted      |-> {a \in Found(g) : ~finding[g][a].actionable}]
unmeasured(g) == Axis \ Found(g)

\* validate: prose, and no word that is an axis without a finding.
validate(g, overall) == overall.text /\ overall.axes \cap unmeasured(g) = {}

Overall == [text : {TRUE}, axes : SUBSET Axis] \cup {[text |-> FALSE, axes |-> {}]}

Publishes(g, overall) ==
  /\ report' = [report EXCEPT ![g] = [kind |-> "synthesis", overall |-> overall,
                  ranked |-> rankFindings(g), assessed |-> Found(g), unmeasured |-> unmeasured(g)]]
  /\ join' = [join EXCEPT ![g] = [step |-> "done"]]

\* used: attempts of the last task with this one.
GivesUp(g, used) ==
  /\ join' = [join EXCEPT ![g] = IF used = goals[g].tries THEN [step |-> "failed"] ELSE NotYet]
  /\ UNCHANGED report

\* The first call: refused, cut off or garbled; published; or sent back once with the complaint.
Synthesise(g) ==
  /\ goals[g].intent = "assess" /\ CanJoin(g) /\ Try(g, "join")
  /\ \/ \E o \in Overall :
          IF validate(g, o) THEN Publishes(g, o)
          ELSE join' = [join EXCEPT ![g] = [step |-> "repair", complaint |-> o]] /\ UNCHANGED report
     \/ GivesUp(g, tries[g]["join"] + 1)
  /\ UNCHANGED <<goals, finding, cases, wishes>>

\* mutant: the rewrite is taken as it comes
acceptRepaired(g, overall) == overall.text

acceptable(g, overall) == validate(g, overall)

\* repair: one more call, and the fence is the same.
repair(g) ==
  /\ join[g].step = "repair"
  /\ \/ \E o \in Overall : acceptable(g, o) /\ Publishes(g, o)
     \/ GivesUp(g, tries[g]["join"])
  /\ UNCHANGED <<goals, finding, cases, tries, wishes>>

-----------------------------------------------------------------------------
\* GenerateCases and QualityGate

\* A case without input or expectation is dropped, and no case at all is a failure.
Generate(g, o) ==
  /\ goals[g].intent = "evalset" /\ cases[g][o] = Undone /\ Try(g, o)
  /\ \/ \E batch \in Batches :
          /\ o # Traces
          /\ cases' = [cases EXCEPT ![g][o] = [state |-> "found", contents |-> batch]]
     \/ cases' = [cases EXCEPT ![g][o] = Ladder(g, o)]
  /\ UNCHANGED <<goals, finding, join, report, wishes>>

Delivered(g) == {o \in Origin : cases[g][o].state = "found"}

\* mutant: a case is looked for only among those of its own generator
keptOfEach(g) ==
  {k \in Delivered(g) \X (Case \ TooShort) : k[2] \in cases[g][k[1]].contents}

\* Long enough, and not already taken from a generator whose task comes first.
kept(g) ==
  {k \in Delivered(g) \X (Case \ TooShort) :
     /\ k[2] \in cases[g][k[1]].contents
     /\ \A q \in Earlier[k[1]] \cap Delivered(g) : k[2] \notin cases[g][q].contents}

QualityGate(g) ==
  LET set == kept(g)  origins == {k[1] : k \in set} IN
  /\ goals[g].intent = "evalset" /\ join[g] = NotYet
  /\ \A o \in Origin : cases[g][o] # Undone
  /\ Try(g, "join")
  /\ IF Cardinality(set) >= MinCases /\ Cardinality(origins) >= MinOrigins
     THEN /\ report' = [report EXCEPT ![g] =
               [kind |-> "evalset", set |-> set, missing |-> Origin \ origins]]
          /\ join' = [join EXCEPT ![g] = [step |-> "done"]]
     ELSE GivesUp(g, tries[g]["join"] + 1)
  /\ UNCHANGED <<goals, finding, cases, wishes>>

-----------------------------------------------------------------------------
\* CompareAssessments

SameRepo(g) == {h \in StartedGoals \ {g} : goals[h].repo = goals[g].repo}

\* mutant: a run created after this one is looked at too
candidatesOfAnyTime(g) == SameRepo(g)

\* Earlier runs of the repository: of any intent, finished or not, of whatever organization.
candidates(g) == {h \in SameRepo(g) : h < g}

\* baseline, up to the list of goals.
ChooseBaseline(g) ==
  LET earlier == candidates(g) IN
  /\ goals[g].intent = "compare" /\ CanJoin(g) /\ Try(g, "join")
  /\ join' = [join EXCEPT ![g] =
       IF earlier # {} THEN [step |-> "load", base |-> CHOOSE h \in earlier : \A i \in earlier : i <= h]
       ELSE IF tries[g]["join"] + 1 = goals[g].tries THEN [step |-> "failed"] ELSE NotYet]
  /\ UNCHANGED <<goals, finding, cases, report, wishes>>

change(g, b, a) ==
  CASE a \in Found(b) \ Found(g) -> "unmeasured_now"
    [] a \in Found(g) \ Found(b) -> "unmeasured_then"
    [] a \in Found(g) \cap Found(b) ->
         IF finding[g][a].weakness = finding[b][a].weakness THEN "unchanged" ELSE "changed"

\* The findings the earlier run has by now, and one row for each axis either of them has.
CompareAssessments(g) ==
  LET b == join[g].base IN
  /\ join[g].step = "load"
  /\ IF Found(b) # {}
     THEN /\ report' = [report EXCEPT ![g] =
               [kind |-> "comparison", base |-> b,
                was |-> [a \in Found(b) |-> finding[b][a].weakness],
                changes |-> [a \in Found(g) \cup Found(b) |-> change(g, b, a)]]]
          /\ join' = [join EXCEPT ![g] = [step |-> "done"]]
     ELSE GivesUp(g, tries[g]["join"])
  /\ UNCHANGED <<goals, finding, cases, tries, wishes>>

FindingsNext ==
  \/ StartWish
  \/ \E g \in StartedGoals :
       \/ \E a \in Axis : Assess(g, a)
       \/ Synthesise(g) \/ repair(g)
       \/ \E o \in Origin : Generate(g, o)
       \/ QualityGate(g)
       \/ ChooseBaseline(g) \/ CompareAssessments(g)

FindingsSpec == FindingsInit /\ [][FindingsNext]_findingVars

-----------------------------------------------------------------------------
\* Properties

\* A synthesis that is published names no axis the run has no finding on, also when it was
\* rewritten ("it widens what can succeed, never what is accepted"); it ranks every finding of
\* the run, and what is not ranked it calls unmeasured.
SynthesisIsGrounded ==
  \A g \in Goal : report[g].kind = "synthesis" =>
    LET r == report[g] IN
    /\ r.overall.axes \subseteq {a \in Axis : finding[g][a].state = "found"}
    /\ r.ranked.actionable \cup r.ranked.noted = r.assessed
    /\ r.assessed = Scope(g) /\ r.unmeasured = Axis \ Scope(g)

\* A published set holds every input once, has its floor of cases and of generators, every case
\* of it was returned by the generator it is credited to, and a generator is called missing
\* exactly when nothing of it is in the set.
EvalSetIsVaried ==
  \A g \in Goal : report[g].kind = "evalset" =>
    LET r == report[g] IN
    /\ \A k, l \in r.set : k[2] = l[2] => k = l
    /\ Cardinality({k[2] : k \in r.set}) >= MinCases
    /\ Cardinality({k[1] : k \in r.set}) >= MinOrigins
    /\ \A k \in r.set : k[2] \in cases[g][k[1]].contents \ TooShort
    /\ r.missing = {o \in Origin : \A k \in r.set : k[1] # o}

\* A comparison is with the last run of the repository before this one, and says of an axis that
\* it changed, or did not, only when both runs have a finding on it.
ComparisonIsHonest ==
  \A g \in Goal : report[g].kind = "comparison" =>
    LET r == report[g]  now == {a \in Axis : finding[g][a].state = "found"} IN
    /\ r.base < g /\ goals[r.base].repo = goals[g].repo
    /\ \A h \in (r.base + 1)..(g - 1) : goals[h].repo # goals[g].repo
    /\ \A a \in DOMAIN r.was : finding[r.base][a].weakness = r.was[a]
    /\ DOMAIN r.changes = now \cup DOMAIN r.was
    /\ \A a \in DOMAIN r.changes :
         r.changes[a] \in {"changed", "unchanged"} <=> a \in now \cap DOMAIN r.was
    /\ \A a \in now \cap DOMAIN r.was :
         r.changes[a] = "unchanged" <=> finding[g][a].weakness = r.was[a]
=============================================================================
