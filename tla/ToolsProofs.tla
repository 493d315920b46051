----------------------------- MODULE ToolsProofs -----------------------------
(***************************************************************************)
(* What the tools publish was found, and what they deliver was agreed to and *)
(* is delivered once: for any histories of goals, any working tree, and any *)
(* interleaving of the git commands of any deliveries.                     *)
(*                                                                         *)
(* First the findings.  A goal that joins has the findings of every axis in *)
(* its scope, and its baseline is the run before it on the same repository *)
(* (LastBefore), which the goals that start later cannot change.           *)
(***************************************************************************)
EXTENDS Findings, Delivery, FiniteSetTheorems, SequenceTheorems, NaturalsInduction, WellFoundedInduction, TLAPS

AxisFinding == {Undone, Failed} \cup [state : {"found"}, weakness : Weakness, actionable : BOOLEAN]
CaseList == {Undone, Failed} \cup [state : {"found"}, contents : SUBSET Case]

FindingsTypes ==
  /\ DOMAIN goals = Goal /\ DOMAIN join = Goal /\ DOMAIN report = Goal
  /\ finding \in [Goal -> [Axis -> AxisFinding]]
  /\ cases \in [Goal -> [Origin -> CaseList]]
  /\ wishes \in Histories

\* Goals start in turn, and what has not started has nothing.
GoalsInTurn ==
  /\ \A g \in StartedGoals : 1..g \subseteq StartedGoals
  /\ \A g \in Goal \ StartedGoals : /\ join[g] = NotYet /\ report[g] = Nothing
                                   /\ Found(g) = {} /\ Scope(g) = {}

\* The run before goal g on the same repository.
LastBefore(g, b) ==
  /\ b \in Goal /\ b < g /\ goals[b].repo = goals[g].repo
  /\ \A h \in (b + 1)..(g - 1) : goals[h].repo # goals[g].repo

JoinsWhatWasFound ==
  \A g \in Goal : /\ Found(g) \subseteq Scope(g) /\ Scope(g) \subseteq Axis
                  /\ join[g].step \in {"repair", "load"} => Found(g) = Scope(g)
                  /\ join[g].step = "load" => LastBefore(g, join[g].base)

Synthesis(g, r) ==
  /\ r.overall.axes \subseteq Found(g) /\ Found(g) = Scope(g)
  /\ r.ranked.actionable \cup r.ranked.noted = r.assessed
  /\ r.assessed = Scope(g) /\ r.unmeasured = Axis \ Scope(g)
EvalSet(g, r) ==
  /\ \A k, l \in r.set : k[2] = l[2] => k = l
  /\ Cardinality({k[2] : k \in r.set}) >= MinCases
  /\ Cardinality({k[1] : k \in r.set}) >= MinOrigins
  /\ \A k \in r.set : k[1] \in Delivered(g) /\ k[2] \in cases[g][k[1]].contents \ TooShort
  /\ r.missing = {o \in Origin : \A k \in r.set : k[1] # o}
Comparison(g, r) ==
  /\ LastBefore(g, r.base) /\ Found(g) = Scope(g)
  /\ DOMAIN r.was \subseteq Found(r.base)
  /\ \A a \in DOMAIN r.was : finding[r.base][a].weakness = r.was[a]
  /\ DOMAIN r.changes = Found(g) \cup DOMAIN r.was
  /\ \A a \in DOMAIN r.changes :
       r.changes[a] \in {"changed", "unchanged"} <=> a \in Found(g) \cap DOMAIN r.was
  /\ \A a \in Found(g) \cap DOMAIN r.was :
       r.changes[a] = "unchanged" <=> finding[g][a].weakness = r.was[a]
TrueReport(g, r) ==
  /\ r.kind = "synthesis" => Synthesis(g, r)
  /\ r.kind = "evalset" => EvalSet(g, r)
  /\ r.kind = "comparison" => Comparison(g, r)

FindingsInv ==
  /\ FindingsTypes /\ GoalsInTurn /\ JoinsWhatWasFound
  /\ \A g \in Goal : TrueReport(g, report[g])

-----------------------------------------------------------------------------
\* What no step does to a goal that has started.
Holds ==
  /\ \A g \in StartedGoals : goals'[g] = goals[g] /\ g \in StartedGoals'
  /\ \A g \in Goal, a \in Axis : finding[g][a].state = "found" => finding'[g][a] = finding[g][a]
  /\ \A g \in Goal, o \in Origin : cases[g][o].state = "found" => cases'[g][o] = cases[g][o]
  /\ \A g \in Goal : Found(g)' \subseteq Scope(g)'

LEMMA FoundGrows == ASSUME Holds PROVE \A g \in Goal : Found(g) \subseteq Found(g)'
BY DEF Holds, Found

LEMMA StartedIsGoal == StartedGoals \subseteq Goal
BY DEF StartedGoals

LEMMA BeforeStays ==
  ASSUME FindingsInv, Holds, NEW g \in StartedGoals, NEW b, LastBefore(g, b)
  PROVE  LastBefore(g, b)' /\ b \in StartedGoals
<1>1. g \in Nat /\ g \in Goal /\ 1..g \subseteq StartedGoals
  BY DEF FindingsInv, GoalsInTurn, StartedGoals, Goal
<1>2. b \in Nat /\ b >= 1 /\ b < g
  BY DEF LastBefore, Goal
<1>3. b \in 1..g /\ \A h \in (b + 1)..(g - 1) : h \in 1..g
  BY <1>1, <1>2
<1>4. Goal' = Goal
  BY DEF Goal
<1> QED BY <1>1, <1>3, <1>4 DEF LastBefore, Holds

LEMMA ReportStays ==
  ASSUME FindingsInv, Holds, NEW g \in StartedGoals, NEW r, TrueReport(g, r)
  PROVE  TrueReport(g, r)'
<1>1. g \in Goal /\ Scope(g)' = Scope(g) /\ Found(g) \subseteq Found(g)' /\ Found(g)' \subseteq Scope(g)
  BY FoundGrows, StartedIsGoal DEF Holds, Scope
<1>2. ASSUME r.kind = "synthesis" PROVE Synthesis(g, r)'
  BY <1>1, <1>2 DEF TrueReport, Synthesis
<1>3. ASSUME r.kind = "evalset" PROVE EvalSet(g, r)'
  <2>1. EvalSet(g, r)
    BY <1>3 DEF TrueReport
  <2>2. \A o \in Delivered(g) : o \in Delivered(g)' /\ cases'[g][o] = cases[g][o]
    BY <1>1 DEF Delivered, Holds
  <2> QED BY <2>1, <2>2 DEF EvalSet
<1>4. ASSUME r.kind = "comparison" PROVE Comparison(g, r)'
  <2>1. Comparison(g, r)
    BY <1>4 DEF TrueReport
  <2> DEFINE b == r.base
  <2>b. LastBefore(g, b) /\ Found(g) = Scope(g)
    BY <2>1 DEF Comparison
  <2>l. LastBefore(g, b)'
    <3> HIDE DEF b
    <3> QED BY <2>b, BeforeStays
  <2>2. Found(g)' = Found(g) /\ LastBefore(g, r.base)' /\ r.base \in Goal
    BY <1>1, <2>b, <2>l DEF LastBefore
  <2>3. \A h \in Goal : \A a \in Found(h) : finding'[h][a] = finding[h][a] /\ a \in Found(h)'
    BY DEF Holds, Found
  <2> QED BY <1>1, <2>1, <2>2, <2>3 DEF Comparison
<1> QED BY <1>2, <1>3, <1>4 DEF TrueReport


\* What every step of these tools is made of: it starts a goal, ...
Starts ==
  /\ join' = join /\ report' = report /\ finding' = finding /\ cases' = cases /\ wishes' = wishes
  /\ \E g \in DOMAIN wishes : StartedGoals = 1..(g - 1) /\ goals' = [goals EXCEPT ![g] = wishes[g]]

\* ... finds something or generates cases, ...
Finds ==
  /\ join' = join /\ report' = report /\ goals' = goals /\ wishes' = wishes
  /\ \/ /\ cases' = cases
        /\ \E g \in StartedGoals : \E a \in Scope(g), f \in AxisFinding :
             a \in Axis /\ finding[g][a] = Undone /\ finding' = [finding EXCEPT ![g][a] = f]
     \/ /\ finding' = finding
        /\ \E g \in StartedGoals : \E o \in Origin, l \in CaseList :
             cases[g][o] = Undone /\ cases' = [cases EXCEPT ![g][o] = l]

\* ... or takes the last task of a goal on, to a step that is right or with a report that is true.
Joins ==
  /\ finding' = finding /\ cases' = cases /\ goals' = goals /\ wishes' = wishes
  /\ \E g \in StartedGoals : \E s :
       /\ join' = [join EXCEPT ![g] = s]
       /\ s.step \in {"repair", "load"} => Found(g) = Scope(g)
       /\ s.step = "load" => LastBefore(g, s.base)
       /\ report' = report \/ \E r : report' = [report EXCEPT ![g] = r] /\ TrueReport(g, r)

LEMMA StartsHolds ==
  ASSUME FindingsInv, Starts
  PROVE  /\ Holds /\ FindingsTypes' /\ GoalsInTurn' /\ \A g \in Goal : Scope(g)' \subseteq Axis
<1>1. PICK n \in DOMAIN wishes : StartedGoals = 1..(n - 1) /\ goals' = [goals EXCEPT ![n] = wishes[n]]
  BY DEF Starts
<1>2. /\ join' = join /\ report' = report /\ finding' = finding /\ cases' = cases /\ wishes' = wishes
  BY DEF Starts
<1>3. FindingsTypes /\ wishes \in Histories
  BY DEF FindingsInv, FindingsTypes
<1>4. PICK m \in 0..MaxGoals : DOMAIN wishes = 1..m
  BY <1>3, FindingsAssumption
<1>5. n \in Goal /\ n \in Nat /\ n \notin 1..(n - 1) /\ 1..n = 1..(n - 1) \cup {n}
  BY <1>4, FindingsAssumption DEF Goal
<1>6. wishes[n].intent # "none" /\ wishes[n].axes \subseteq Axis
  BY <1>3, FindingsAssumption
<1>7. /\ DOMAIN goals' = Goal /\ goals'[n] = wishes[n] /\ \A g \in Goal \ {n} : goals'[g] = goals[g]
  BY <1>1, <1>3, <1>5 DEF FindingsTypes
<1>8. Goal' = Goal
  BY DEF Goal
<1>9. StartedGoals' = 1..n
  <2>1. \A g \in Goal : goals'[g].intent # "none" <=> g \in StartedGoals \/ g = n
    BY <1>6, <1>7 DEF StartedGoals
  <2>2. StartedGoals' = {g \in Goal : goals'[g].intent # "none"}
    BY <1>8 DEF StartedGoals
  <2> QED BY <1>1, <1>5, <2>1, <2>2, StartedIsGoal
<1>10. \A g \in Goal : Found(g)' = Found(g)
  BY <1>2 DEF Found
<1>11. \A g \in Goal \ {n} : Scope(g)' = Scope(g)
  BY <1>7 DEF Scope
<1>12. Found(n) = {} /\ join[n] = NotYet /\ report[n] = Nothing /\ Scope(n)' \subseteq Axis
  BY <1>1, <1>5, <1>6, <1>7 DEF FindingsInv, GoalsInTurn, Scope
<1>13. Holds
  <2>1. \A g \in StartedGoals : goals'[g] = goals[g] /\ g \in StartedGoals'
    BY <1>1, <1>5, <1>7, <1>9, StartedIsGoal
  <2>2. \A g \in Goal : Found(g)' \subseteq Scope(g)'
    BY <1>10, <1>11, <1>12 DEF FindingsInv, JoinsWhatWasFound
  <2> QED BY <1>2, <2>1, <2>2 DEF Holds
<1>14. FindingsTypes'
  BY <1>2, <1>3, <1>7, <1>8 DEF FindingsTypes
<1>15. GoalsInTurn'
  <2>1. \A g \in 1..n : 1..g \subseteq 1..n
    BY <1>5
  <2>2. \A g \in Goal \ 1..n : g \in Goal \ StartedGoals /\ g # n
    BY <1>1, <1>5
  <2>3. NotYet' = NotYet /\ Nothing' = Nothing
    BY DEF NotYet, Nothing
  <2> QED BY <1>2, <1>8, <1>9, <1>10, <1>11, <2>1, <2>2, <2>3 DEF FindingsInv, GoalsInTurn
<1>16. \A g \in Goal : Scope(g)' \subseteq Axis
  BY <1>11, <1>12 DEF FindingsInv, JoinsWhatWasFound
<1> QED BY <1>13, <1>14, <1>15, <1>16

LEMMA FindsHolds ==
  ASSUME FindingsInv, Finds
  PROVE  /\ Holds /\ FindingsTypes' /\ GoalsInTurn' /\ \A g \in Goal : Scope(g)' \subseteq Axis
<1>1. /\ join' = join /\ report' = report /\ goals' = goals /\ wishes' = wishes
  BY DEF Finds
<1>2. FindingsTypes /\ Goal' = Goal /\ StartedGoals' = StartedGoals
  BY <1>1 DEF FindingsInv, StartedGoals, Goal
<1>3. \A g \in Goal : Scope(g)' = Scope(g)
  BY <1>1 DEF Scope
<1>4. Undone.state # "found"
  BY DEF Undone
<1>5. /\ finding' \in [Goal -> [Axis -> AxisFinding]] /\ cases' \in [Goal -> [Origin -> CaseList]]
      /\ \A g \in Goal, a \in Axis : finding[g][a].state = "found" => finding'[g][a] = finding[g][a]
      /\ \A g \in Goal, o \in Origin : cases[g][o].state = "found" => cases'[g][o] = cases[g][o]
      /\ \A g \in Goal, a \in Axis : finding'[g][a] # finding[g][a] => a \in Scope(g) /\ g \in StartedGoals
  <2>1. CASE /\ cases' = cases
             /\ \E g \in StartedGoals : \E a \in Scope(g), f \in AxisFinding :
                  a \in Axis /\ finding[g][a] = Undone /\ finding' = [finding EXCEPT ![g][a] = f]
    <3>1. PICK g \in StartedGoals : \E a \in Scope(g), f \in AxisFinding :
                  a \in Axis /\ finding[g][a] = Undone /\ finding' = [finding EXCEPT ![g][a] = f]
      BY <2>1
    <3>2. PICK a \in Scope(g), f \in AxisFinding :
                  a \in Axis /\ finding[g][a] = Undone /\ finding' = [finding EXCEPT ![g][a] = f]
      BY <3>1
    <3>3. g \in Goal /\ finding \in [Goal -> [Axis -> AxisFinding]]
      BY <1>2, StartedIsGoal DEF FindingsTypes
    <3>4. finding' \in [Goal -> [Axis -> AxisFinding]]
      BY <3>2, <3>3
    <3>5. \A h \in Goal, b \in Axis : finding'[h][b] = IF h = g /\ b = a THEN f ELSE finding[h][b]
      BY <3>2, <3>3
    <3>6. \A h \in Goal, b \in Axis : finding[h][b].state = "found" => finding'[h][b] = finding[h][b]
      BY <1>4, <3>2, <3>5
    <3>7. \A h \in Goal, b \in Axis : finding'[h][b] # finding[h][b] => b \in Scope(h) /\ h \in StartedGoals
      BY <3>2, <3>5
    <3> QED BY <1>2, <2>1, <3>4, <3>6, <3>7 DEF FindingsTypes
  <2>2. CASE /\ finding' = finding
             /\ \E g \in StartedGoals : \E o \in Origin, l \in CaseList :
                  cases[g][o] = Undone /\ cases' = [cases EXCEPT ![g][o] = l]
    <3>1. PICK g \in StartedGoals, o \in Origin, l \in CaseList :
                  cases[g][o] = Undone /\ cases' = [cases EXCEPT ![g][o] = l]
      BY <2>2
    <3>2. g \in Goal /\ cases \in [Goal -> [Origin -> CaseList]]
      BY <1>2, StartedIsGoal DEF FindingsTypes
    <3>3. cases' \in [Goal -> [Origin -> CaseList]]
      BY <3>1, <3>2
    <3>4. \A h \in Goal, q \in Origin : cases'[h][q] = IF h = g /\ q = o THEN l ELSE cases[h][q]
      BY <3>1, <3>2
    <3>5. \A h \in Goal, q \in Origin : cases[h][q].state = "found" => cases'[h][q] = cases[h][q]
      BY <1>4, <3>1, <3>4
    <3> QED BY <1>2, <2>2, <3>3, <3>5 DEF FindingsTypes
  <2> QED BY <2>1, <2>2 DEF Finds
<1>6. \A g \in Goal : Found(g)' \subseteq Scope(g)'
  <2>1. \A g \in Goal : Found(g)' = {a \in Axis : finding'[g][a].state = "found"}
    BY DEF Found
  <2>2. \A g \in Goal : Found(g) = {a \in Axis : finding[g][a].state = "found"}
    BY DEF Found
  <2> QED BY <1>3, <1>5, <2>1, <2>2 DEF FindingsInv, JoinsWhatWasFound
<1>7. Holds
  BY <1>1, <1>2, <1>5, <1>6 DEF Holds
<1>8. FindingsTypes'
  BY <1>1, <1>2, <1>5 DEF FindingsTypes
<1>9. GoalsInTurn'
  <2>1. \A g \in Goal \ StartedGoals : Found(g)' = Found(g)
    BY <1>5 DEF Found
  <2> QED BY <1>1, <1>2, <1>3, <2>1 DEF FindingsInv, GoalsInTurn, NotYet, Nothing
<1> QED BY <1>3, <1>7, <1>8, <1>9 DEF FindingsInv, JoinsWhatWasFound

\* A step that leaves the last tasks and the reports alone.
LEMMA FindingKeeps ==
  ASSUME FindingsInv, Holds, join' = join, report' = report, FindingsTypes', GoalsInTurn',
         \A g \in Goal : Scope(g)' \subseteq Axis
  PROVE  FindingsInv'
<1>1. Goal' = Goal
  BY DEF Goal
<1>2. ASSUME NEW g \in Goal, join[g].step \in {"repair", "load"}
      PROVE  Found(g)' = Scope(g)' /\ (join[g].step = "load" => LastBefore(g, join[g].base)')
  <2>1. g \in StartedGoals
    BY <1>2 DEF FindingsInv, GoalsInTurn, NotYet
  <2>2. Found(g)' = Scope(g)'
    <3>1. Found(g) = Scope(g)
      BY <1>2 DEF FindingsInv, JoinsWhatWasFound
    <3>2. Scope(g)' = Scope(g) /\ Found(g)' \subseteq Scope(g)'
      BY <2>1 DEF Holds, Scope
    <3> QED BY <3>1, <3>2, FoundGrows
  <2>3. ASSUME join[g].step = "load" PROVE LastBefore(g, join[g].base)'
    <3>1. PICK b : b = join[g].base
      OBVIOUS
    <3>2. LastBefore(g, b)
      BY <2>3, <3>1 DEF FindingsInv, JoinsWhatWasFound
    <3>3. LastBefore(g, b)'
      BY <2>1, <3>2, BeforeStays
    <3>4. b = join'[g].base
      BY <3>1
    <3> QED BY <3>1, <3>3, <3>4 DEF LastBefore
  <2> QED BY <2>2, <2>3
<1>3. JoinsWhatWasFound'
  BY <1>1, <1>2 DEF JoinsWhatWasFound, Holds
<1>4. ASSUME NEW g \in Goal PROVE TrueReport(g, report[g])'
  <2>1. PICK r : r = report[g]
    OBVIOUS
  <2>2. TrueReport(g, r)
    BY <2>1 DEF FindingsInv
  <2>3. CASE g \in StartedGoals
    <3>1. TrueReport(g, r)'
      BY <2>2, <2>3, ReportStays
    <3>2. r = report'[g]
      BY <2>1
    <3> QED BY <3>1, <3>2
  <2>4. CASE g \notin StartedGoals
    <3>1. report'[g].kind = "none"
      BY <2>4 DEF FindingsInv, GoalsInTurn, Nothing
    <3> QED BY <3>1 DEF TrueReport
  <2> QED BY <2>3, <2>4
<1> QED BY <1>1, <1>3, <1>4 DEF FindingsInv

LEMMA JoinsKeeps == ASSUME FindingsInv, Joins PROVE FindingsInv'
<1>0. PICK n \in StartedGoals : \E s :
       /\ join' = [join EXCEPT ![n] = s]
       /\ s.step \in {"repair", "load"} => Found(n) = Scope(n)
       /\ s.step = "load" => LastBefore(n, s.base)
       /\ report' = report \/ \E r : report' = [report EXCEPT ![n] = r] /\ TrueReport(n, r)
  BY DEF Joins
<1>1. PICK s :
       /\ join' = [join EXCEPT ![n] = s]
       /\ s.step \in {"repair", "load"} => Found(n) = Scope(n)
       /\ s.step = "load" => LastBefore(n, s.base)
       /\ report' = report \/ \E r : report' = [report EXCEPT ![n] = r] /\ TrueReport(n, r)
  BY <1>0
<1>2. /\ finding' = finding /\ cases' = cases /\ goals' = goals /\ wishes' = wishes /\ n \in Goal
      /\ Goal' = Goal /\ StartedGoals' = StartedGoals
  BY StartedIsGoal DEF Joins, StartedGoals, Goal
<1>3. FindingsTypes
  BY DEF FindingsInv
<1>4. /\ DOMAIN join' = Goal /\ join'[n] = s /\ \A g \in Goal \ {n} : join'[g] = join[g]
      /\ DOMAIN report' = Goal /\ \A g \in Goal \ {n} : report'[g] = report[g]
  BY <1>1, <1>2, <1>3 DEF FindingsTypes
<1>5. FindingsTypes'
  BY <1>2, <1>3, <1>4 DEF FindingsTypes
<1>6. \A g : Found(g)' = Found(g) /\ Scope(g)' = Scope(g)
  BY <1>2 DEF Found, Scope
<1>7. GoalsInTurn'
  BY <1>2, <1>4, <1>6 DEF FindingsInv, GoalsInTurn, NotYet, Nothing
<1>8. Holds
  BY <1>2, <1>6 DEF Holds, FindingsInv, JoinsWhatWasFound
<1>9. ASSUME NEW g \in Goal PROVE TrueReport(g, report[g])'
  <2>1. CASE g \in StartedGoals
    <3>1. PICK r : r = report'[g]
      OBVIOUS
    <3>2. TrueReport(g, r)
      BY <1>1, <1>2, <1>3, <1>4, <3>1 DEF FindingsInv, FindingsTypes
    <3>3. TrueReport(g, r)'
      BY <2>1, <1>8, <3>2, ReportStays
    <3> QED BY <3>1, <3>3
  <2>2. CASE g \notin StartedGoals
    <3>1. report'[g].kind = "none"
      BY <1>4, <2>2 DEF FindingsInv, GoalsInTurn, Nothing
    <3> QED BY <3>1 DEF TrueReport
  <2> QED BY <2>1, <2>2
<1>10. ASSUME NEW g \in Goal, NEW b, LastBefore(g, b) PROVE LastBefore(g, b)'
  BY <1>2, <1>10 DEF LastBefore
<1>11. ASSUME NEW g \in Goal, join'[g].step = "load" PROVE LastBefore(g, join[g].base)'
  <2>1. PICK b : b = join'[g].base
    OBVIOUS
  <2>2. LastBefore(g, b)
    BY <1>1, <1>4, <1>11, <2>1 DEF FindingsInv, JoinsWhatWasFound
  <2>3. LastBefore(g, b)'
    BY <1>10, <2>2
  <2> QED BY <2>1, <2>3
<1>12. JoinsWhatWasFound'
  BY <1>1, <1>2, <1>4, <1>6, <1>11 DEF FindingsInv, JoinsWhatWasFound
<1> QED BY <1>2, <1>5, <1>7, <1>9, <1>12 DEF FindingsInv

LEMMA StartsKeeps == ASSUME FindingsInv, Starts PROVE FindingsInv'
<1>1. join' = join /\ report' = report
  BY DEF Starts
<1> QED BY <1>1, StartsHolds, FindingKeeps

LEMMA FindsKeeps == ASSUME FindingsInv, Finds PROVE FindingsInv'
<1>1. join' = join /\ report' = report
  BY DEF Finds
<1> QED BY <1>1, FindsHolds, FindingKeeps

-----------------------------------------------------------------------------
(***************************************************************************)
(* The actions of the module are such steps.                               *)
(***************************************************************************)
LEMMA AssessFinds == ASSUME FindingsInv, NEW g \in StartedGoals, NEW a \in Axis, Assess(g, a) PROVE Finds
<1>1. \E f \in AxisFinding : finding' = [finding EXCEPT ![g][a] = f]
  <2>1. CASE \E w \in Weakness, act \in BOOLEAN, n \in Lengths :
              finding' = [finding EXCEPT ![g][a] = [state |-> "found", weakness |-> w, actionable |-> act]]
    <3>1. PICK w \in Weakness, act \in BOOLEAN :
              finding' = [finding EXCEPT ![g][a] = [state |-> "found", weakness |-> w, actionable |-> act]]
      BY <2>1
    <3>2. [state |-> "found", weakness |-> w, actionable |-> act] \in AxisFinding
      BY DEF AxisFinding
    <3> QED BY <3>1, <3>2
  <2>2. CASE finding' = [finding EXCEPT ![g][a] = Ladder(g, a)]
    BY <2>2 DEF Ladder, AxisFinding
  <2> QED BY <2>1, <2>2 DEF Assess
<1>2. a \in Scope(g) /\ finding[g][a] = Undone
      /\ join' = join /\ report' = report /\ goals' = goals /\ wishes' = wishes /\ cases' = cases
  BY DEF Assess
<1> QED BY <1>1, <1>2 DEF Finds

LEMMA GenerateFinds == ASSUME FindingsInv, NEW g \in StartedGoals, NEW o \in Origin, Generate(g, o) PROVE Finds
<1>1. \E l \in CaseList : cases' = [cases EXCEPT ![g][o] = l]
  <2>1. CASE \E batch \in Batches : cases' = [cases EXCEPT ![g][o] = [state |-> "found", contents |-> batch]]
    <3>1. PICK batch \in Batches : cases' = [cases EXCEPT ![g][o] = [state |-> "found", contents |-> batch]]
      BY <2>1
    <3>2. [state |-> "found", contents |-> batch] \in CaseList
      BY FindingsAssumption DEF CaseList
    <3> QED BY <3>1, <3>2
  <2>2. CASE cases' = [cases EXCEPT ![g][o] = Ladder(g, o)]
    BY <2>2 DEF Ladder, CaseList
  <2> QED BY <2>1, <2>2 DEF Generate
<1>2. cases[g][o] = Undone
      /\ join' = join /\ report' = report /\ goals' = goals /\ wishes' = wishes /\ finding' = finding
  BY DEF Generate
<1> QED BY <1>1, <1>2 DEF Finds

LEMMA GivingUpJoins ==
  ASSUME FindingsInv, NEW g \in StartedGoals, NEW used, GivesUp(g, used),
         UNCHANGED <<goals, finding, cases, wishes>>
  PROVE  Joins
<1> DEFINE s == IF used = goals[g].tries THEN [step |-> "failed"] ELSE NotYet
<1>1. join' = [join EXCEPT ![g] = s] /\ report' = report
  BY DEF GivesUp
<1>2. s.step \notin {"repair", "load"}
  BY DEF NotYet
<1> HIDE DEF s
<1> QED BY <1>1, <1>2 DEF Joins

LEMMA PublishingJoins ==
  ASSUME FindingsInv, NEW g \in StartedGoals, NEW overall \in Overall, Publishes(g, overall),
         validate(g, overall), Found(g) = Scope(g), UNCHANGED <<goals, finding, cases, wishes>>
  PROVE  Joins
<1> DEFINE r == [kind |-> "synthesis", overall |-> overall,
                 ranked |-> rankFindings(g), assessed |-> Found(g), unmeasured |-> unmeasured(g)]
           s == [step |-> "done"]
<1>1. join' = [join EXCEPT ![g] = s] /\ report' = [report EXCEPT ![g] = r]
  BY DEF Publishes
<1>2. s.step \notin {"repair", "load"}
  OBVIOUS
<1>3. overall.axes \subseteq Axis
  <2>1. CASE overall \in [text : {TRUE}, axes : SUBSET Axis]
    BY <2>1
  <2>2. CASE overall = [text |-> FALSE, axes |-> {}]
    BY <2>2
  <2> QED BY <2>1, <2>2 DEF Overall
<1>4. /\ r.kind = "synthesis" /\ r.overall = overall /\ r.assessed = Found(g)
      /\ r.unmeasured = Axis \ Found(g) /\ r.ranked = rankFindings(g)
  BY DEF unmeasured
<1>5. rankFindings(g).actionable \cup rankFindings(g).noted = Found(g)
  BY DEF rankFindings
<1> HIDE DEF r, s
<1>6. overall.axes \subseteq Found(g)
  BY <1>3 DEF validate, unmeasured
<1>7. TrueReport(g, r)
  BY <1>4, <1>5, <1>6 DEF TrueReport, Synthesis
<1> QED BY <1>1, <1>2, <1>7 DEF Joins

LEMMA SynthesiseJoins == ASSUME FindingsInv, NEW g \in StartedGoals, Synthesise(g) PROVE Joins
<1>1. Found(g) = Scope(g) /\ UNCHANGED <<goals, finding, cases, wishes>>
  BY DEF Synthesise, CanJoin
<1>2. CASE GivesUp(g, tries[g]["join"] + 1)
  BY <1>1, <1>2, GivingUpJoins
<1>3. ASSUME NEW o \in Overall, validate(g, o), Publishes(g, o) PROVE Joins
  BY <1>1, <1>3, PublishingJoins
<1>4. ASSUME NEW o \in Overall, join' = [join EXCEPT ![g] = [step |-> "repair", complaint |-> o]], report' = report
      PROVE  Joins
  <2> DEFINE s == [step |-> "repair", complaint |-> o]
  <2>1. s.step = "repair" /\ join' = [join EXCEPT ![g] = s]
    BY <1>4
  <2> HIDE DEF s
  <2> QED BY <1>1, <1>4, <2>1 DEF Joins
<1> QED BY <1>2, <1>3, <1>4 DEF Synthesise

LEMMA RepairJoins == ASSUME FindingsInv, NEW g \in StartedGoals, repair(g) PROVE Joins
<1>1. Found(g) = Scope(g) /\ UNCHANGED <<goals, finding, cases, wishes>>
  BY StartedIsGoal DEF repair, FindingsInv, JoinsWhatWasFound
<1>2. CASE GivesUp(g, tries[g]["join"])
  BY <1>1, <1>2, GivingUpJoins
<1>3. ASSUME NEW o \in Overall, acceptable(g, o), Publishes(g, o) PROVE Joins
  BY <1>1, <1>3, PublishingJoins DEF acceptable
<1> QED BY <1>2, <1>3 DEF repair

\* What the gate keeps has each input once, so counting the cases counts the inputs.
LEMMA KeptOnce ==
  ASSUME FindingsInv, NEW g \in Goal
  PROVE  /\ \A k, l \in kept(g) : k[2] = l[2] => k = l
         /\ Cardinality({k[2] : k \in kept(g)}) = Cardinality(kept(g))
<1> DEFINE K == kept(g)
           T == {k[2] : k \in K}
<1>1. \A k \in K : /\ k = <<k[1], k[2]>> /\ k[1] \in Origin /\ k[1] \in Delivered(g) /\ k[2] \in cases[g][k[1]].contents
                   /\ \A q \in Earlier[k[1]] \cap Delivered(g) : k[2] \notin cases[g][q].contents
  BY DEF kept, Delivered
<1>2. \A k, l \in K : k[2] = l[2] => k = l
  <2> SUFFICES ASSUME NEW k \in K, NEW l \in K, k[2] = l[2], k[1] # l[1] PROVE FALSE
    BY <1>1
  <2>1. k[1] \in Earlier[l[1]] \/ l[1] \in Earlier[k[1]]
    BY <1>1, FindingsAssumption
  <2> QED BY <1>1, <2>1
<1>3. IsFiniteSet(K)
  <2> DEFINE A == Delivered(g)
             B == Case \ TooShort
  <2>1. A \subseteq Origin /\ B \subseteq Case
    BY DEF Delivered
  <2> HIDE DEF A, B
  <2>2. IsFiniteSet(A) /\ IsFiniteSet(B)
    BY <2>1, FS_Subset, FindingsAssumption
  <2>3. IsFiniteSet(A \X B)
    BY <2>2, FS_Product
  <2>4. K \subseteq A \X B
    BY DEF kept, A, B
  <2> HIDE DEF K
  <2> QED BY <2>3, <2>4, FS_Subset
<1>4. ExistsBijection(K, T)
  <2> HIDE DEF K
  <2> DEFINE f == [k \in K |-> k[2]]
  <2>1. f \in [K -> T] /\ \A t \in T : \E k \in K : f[k] = t
    OBVIOUS
  <2>2. \A k, l \in K : f[k] = f[l] => k = l
    BY <1>2
  <2> HIDE DEF f, T
  <2>3. f \in Injection(K, T)
    BY <2>1, <2>2 DEF Injection, IsInjective
  <2>4. f \in Surjection(K, T)
    BY <2>1 DEF Surjection
  <2> QED BY <2>3, <2>4 DEF ExistsBijection, Bijection
<1>5. Cardinality(T) = Cardinality(K)
  <2> HIDE DEF T, K
  <2> QED BY <1>3, <1>4, FS_Bijection
<1> QED BY <1>2, <1>5

LEMMA GateJoins == ASSUME FindingsInv, NEW g \in StartedGoals, QualityGate(g) PROVE Joins
<1> DEFINE set == kept(g)
           origins == {k[1] : k \in set}
           r == [kind |-> "evalset", set |-> set, missing |-> Origin \ origins]
           s == [step |-> "done"]
<1>1. UNCHANGED <<goals, finding, cases, wishes>> /\ g \in Goal
  BY StartedIsGoal DEF QualityGate
<1>2. CASE GivesUp(g, tries[g]["join"] + 1)
  BY <1>1, <1>2, GivingUpJoins
<1>3. CASE /\ Cardinality(set) >= MinCases /\ Cardinality(origins) >= MinOrigins
           /\ join' = [join EXCEPT ![g] = s] /\ report' = [report EXCEPT ![g] = r]
  <2>1. s.step \notin {"repair", "load"}
    OBVIOUS
  <2>2. r.kind = "evalset" /\ r.set = set /\ r.missing = Origin \ origins
    OBVIOUS
  <2>3. \A k \in set : k[1] \in Delivered(g) /\ k[2] \in cases[g][k[1]].contents \ TooShort
    BY DEF kept
  <2>4. \A k, l \in set : k[2] = l[2] => k = l
    BY <1>1, KeptOnce
  <2>5. Cardinality({k[2] : k \in set}) >= MinCases
    BY <1>1, <1>3, KeptOnce
  <2>6. Origin \ origins = {o \in Origin : \A k \in set : k[1] # o}
    OBVIOUS
  <2> HIDE DEF r, s, set
  <2>7. EvalSet(g, r)
    BY <1>3, <2>2, <2>3, <2>4, <2>5, <2>6 DEF EvalSet
  <2>8. TrueReport(g, r)
    BY <2>2, <2>7 DEF TrueReport
  <2> QED BY <1>1, <1>3, <2>1, <2>8 DEF Joins
<1> QED BY <1>2, <1>3 DEF QualityGate

\* A set of earlier goals that is not empty has a last one.
LEMMA LastOfEarlier ==
  ASSUME NEW g \in Nat, NEW E, E \subseteq 1..(g - 1), E # {}
  PROVE  \E m \in E : \A i \in E : i <= m
<1> DEFINE T == {n \in Nat : \A i \in E : i <= n}
           R == OpToRel(<, Nat)
<1>1. T # {} /\ T \subseteq Nat
  <2>1. g \in T
    OBVIOUS
  <2> QED BY <2>1
<1>2. IsWellFoundedOn(R, Nat)
  BY NatLessThanWellFounded
<1>3. PICK m \in T : \A n \in T : ~(<<n, m>> \in R)
  <2> HIDE DEF T, R
  <2> QED BY <1>1, <1>2, WFMin
<1>4. m \in Nat /\ \A i \in E : i <= m /\ i >= 1
  OBVIOUS
<1>5. m >= 1
  <2>1. PICK e \in E : TRUE
    OBVIOUS
  <2>2. e \in Nat /\ e >= 1 /\ e <= m
    BY <1>4, <2>1
  <2> QED BY <1>4, <2>2
<1>6. m \in E
  <2> SUFFICES ASSUME m \notin E PROVE FALSE
    OBVIOUS
  <2>1. m - 1 \in Nat /\ \A i \in E : i <= m - 1
    BY <1>4, <1>5
  <2>2. <<m - 1, m>> \in R
    BY <1>4, <2>1 DEF OpToRel
  <2> QED BY <1>3, <2>1, <2>2
<1> QED BY <1>4, <1>6

LEMMA BaselineJoins == ASSUME FindingsInv, NEW g \in StartedGoals, ChooseBaseline(g) PROVE Joins
<1> DEFINE E == candidates(g)
           b == CHOOSE h \in E : \A i \in E : i <= h
           s == IF E # {} THEN [step |-> "load", base |-> b]
                ELSE IF tries[g]["join"] + 1 = goals[g].tries THEN [step |-> "failed"] ELSE NotYet
<1>1. /\ UNCHANGED <<goals, finding, cases, wishes>> /\ report' = report
      /\ join' = [join EXCEPT ![g] = s] /\ Found(g) = Scope(g)
  BY DEF ChooseBaseline, CanJoin
<1>2. g \in Goal /\ g \in Nat /\ 1..g \subseteq StartedGoals
  BY StartedIsGoal DEF FindingsInv, GoalsInTurn, Goal
<1>3. E = {h \in StartedGoals : h # g /\ goals[h].repo = goals[g].repo /\ h < g}
  BY DEF candidates, SameRepo
<1>4. E # {} => LastBefore(g, b)
  <2>1. E \subseteq 1..(g - 1)
    <3>1. \A h \in StartedGoals : h \in Nat /\ h >= 1
      BY StartedIsGoal DEF Goal
    <3>2. \A h \in E : h \in Nat /\ h >= 1 /\ h < g
      BY <1>3, <3>1
    <3> HIDE DEF E
    <3>3. \A h \in E : h \in 1..(g - 1)
      BY <1>2, <3>2
    <3> QED BY <3>3
  <2>2. E # {} => b \in E /\ \A i \in E : i <= b
    <3> HIDE DEF E
    <3> QED BY <1>2, <2>1, LastOfEarlier
  <2> HIDE DEF b
  <2>3. ASSUME E # {}, NEW h \in (b + 1)..(g - 1) PROVE goals[h].repo # goals[g].repo
    <3>1. b \in Nat /\ b >= 1 /\ b < g /\ \A i \in E : i <= b
      BY <1>2, <2>1, <2>2, <2>3
    <3>2. h \in 1..g /\ h # g /\ h < g /\ ~(h <= b)
      BY <1>2, <2>3, <3>1
    <3>3. h \in StartedGoals
      BY <1>2, <3>2
    <3> QED BY <1>3, <3>1, <3>2, <3>3
  <2> QED BY <1>3, <2>2, <2>3, StartedIsGoal DEF LastBefore
<1>5. s.step = "load" => E # {} /\ s.base = b
  BY DEF NotYet
<1> HIDE DEF s, b, E
<1> QED BY <1>1, <1>4, <1>5 DEF Joins

LEMMA CompareJoins == ASSUME FindingsInv, NEW g \in StartedGoals, CompareAssessments(g) PROVE Joins
<1> DEFINE b == join[g].base
           was == [a \in Found(b) |-> finding[b][a].weakness]
           changes == [a \in Found(g) \cup Found(b) |-> change(g, b, a)]
           r == [kind |-> "comparison", base |-> b, was |-> was, changes |-> changes]
           s == [step |-> "done"]
<1>1. UNCHANGED <<goals, finding, cases, wishes>> /\ g \in Goal
  BY StartedIsGoal DEF CompareAssessments
<1>2. Found(g) = Scope(g) /\ LastBefore(g, b)
  BY <1>1 DEF CompareAssessments, FindingsInv, JoinsWhatWasFound
<1>3. CASE GivesUp(g, tries[g]["join"])
  BY <1>1, <1>3, GivingUpJoins
<1>4. CASE join' = [join EXCEPT ![g] = s] /\ report' = [report EXCEPT ![g] = r]
  <2>1. s.step \notin {"repair", "load"}
    OBVIOUS
  <2>2. r.kind = "comparison" /\ r.base = b /\ r.was = was /\ r.changes = changes
    OBVIOUS
  <2>3. DOMAIN was = Found(b) /\ \A a \in Found(b) : was[a] = finding[b][a].weakness
    OBVIOUS
  <2>4. DOMAIN changes = Found(g) \cup Found(b) /\ \A a \in Found(g) \cup Found(b) : changes[a] = change(g, b, a)
    OBVIOUS
  <2> HIDE DEF r, s, b, was, changes
  <2>5. ASSUME NEW a \in Found(g) \cup Found(b)
        PROVE  /\ a \notin Found(g) => changes[a] = "unmeasured_now"
               /\ a \notin Found(b) => changes[a] = "unmeasured_then"
               /\ a \in Found(g) \cap Found(b) =>
                    changes[a] = IF finding[g][a].weakness = finding[b][a].weakness THEN "unchanged" ELSE "changed"
    <3>1. CASE a \in Found(b) \ Found(g)
      BY <2>4, <3>1 DEF change
    <3>2. CASE a \in Found(g) \ Found(b)
      BY <2>4, <3>2 DEF change
    <3>3. CASE a \in Found(g) \cap Found(b)
      BY <2>4, <3>3 DEF change
    <3> QED BY <3>1, <3>2, <3>3
  <2>6. \A a \in Found(g) \cup Found(b) : changes[a] \in {"changed", "unchanged"} <=> a \in Found(g) \cap Found(b)
    BY <2>5
  <2>7. \A a \in Found(g) \cap Found(b) : changes[a] = "unchanged" <=> finding[g][a].weakness = finding[b][a].weakness
    BY <2>5
  <2>8. Comparison(g, r)
    BY <1>2, <2>2, <2>3, <2>4, <2>6, <2>7 DEF Comparison
  <2>9. TrueReport(g, r)
    BY <2>2, <2>8 DEF TrueReport
  <2> QED BY <1>1, <1>4, <2>1, <2>9 DEF Joins
<1> QED BY <1>3, <1>4 DEF CompareAssessments

LEMMA FindingsInitially == ASSUME FindingsInit PROVE FindingsInv
<1>1. FindingsTypes
  BY DEF FindingsInit, FindingsTypes, AxisFinding, CaseList
<1>2. StartedGoals = {} /\ \A g \in Goal : Scope(g) = {}
  BY DEF FindingsInit, StartedGoals, Scope
<1>3. \A g \in Goal : Found(g) = {} /\ join[g] = NotYet /\ report[g] = Nothing
  BY DEF FindingsInit, Found, Undone
<1>4. GoalsInTurn /\ JoinsWhatWasFound
  BY <1>2, <1>3 DEF GoalsInTurn, JoinsWhatWasFound, NotYet
<1>5. \A g \in Goal : TrueReport(g, report[g])
  BY <1>3 DEF TrueReport, Nothing
<1> QED BY <1>1, <1>4, <1>5 DEF FindingsInv

LEMMA FindingsStep == FindingsInv /\ [FindingsNext]_findingVars => FindingsInv'
<1> SUFFICES ASSUME FindingsInv, [FindingsNext]_findingVars PROVE FindingsInv'
  OBVIOUS
<1>1. CASE StartWish
  BY <1>1, StartsKeeps DEF StartWish, Starts
<1>2. ASSUME NEW g \in StartedGoals, NEW a \in Axis, Assess(g, a) PROVE FindingsInv'
  BY <1>2, AssessFinds, FindsKeeps
<1>3. ASSUME NEW g \in StartedGoals, NEW o \in Origin, Generate(g, o) PROVE FindingsInv'
  BY <1>3, GenerateFinds, FindsKeeps
<1>4. ASSUME NEW g \in StartedGoals,
             Synthesise(g) \/ repair(g) \/ QualityGate(g) \/ ChooseBaseline(g) \/ CompareAssessments(g)
      PROVE  FindingsInv'
  BY <1>4, SynthesiseJoins, RepairJoins, GateJoins, BaselineJoins, CompareJoins, JoinsKeeps
<1>5. CASE UNCHANGED findingVars
  <2>1. /\ goals' = goals /\ finding' = finding /\ cases' = cases /\ join' = join /\ report' = report
        /\ wishes' = wishes
    BY <1>5 DEF findingVars
  <2>2. \A g : Scope(g)' = Scope(g) /\ Found(g)' = Found(g)
    BY <2>1 DEF Scope, Found
  <2>3. Goal' = Goal /\ StartedGoals' = StartedGoals
    BY <2>1 DEF Goal, StartedGoals
  <2>4. FindingsTypes' /\ GoalsInTurn' /\ Holds /\ \A g \in Goal : Scope(g)' \subseteq Axis
    BY <2>1, <2>2, <2>3 DEF FindingsInv, FindingsTypes, GoalsInTurn, Holds, JoinsWhatWasFound, NotYet, Nothing
  <2> QED BY <2>1, <2>4, FindingKeeps
<1> QED BY <1>1, <1>2, <1>3, <1>4, <1>5 DEF FindingsNext

\* The invariant of the tools that look: what a goal has joined was found, and a report once
\* published stays true while other goals start and end.
THEOREM FindingsAreKept == FindingsSpec => []FindingsInv
BY FindingsInitially, FindingsStep, PTL DEF FindingsSpec

\* A published synthesis names only what was found, repaired or not (synthesise).
THEOREM SynthesesAreGrounded == FindingsSpec => []SynthesisIsGrounded
<1>1. FindingsInv => SynthesisIsGrounded
  BY DEF FindingsInv, TrueReport, Synthesis, Found, SynthesisIsGrounded
<1> QED BY <1>1, FindingsAreKept, PTL

\* A published set has its floors of cases and generators and credits each case rightly (gate).
THEOREM EvalSetsAreVaried == FindingsSpec => []EvalSetIsVaried
<1>1. FindingsInv => EvalSetIsVaried
  BY DEF FindingsInv, TrueReport, EvalSet, EvalSetIsVaried
<1> QED BY <1>1, FindingsAreKept, PTL

\* A comparison is with the last run of the repository and calls changed only what both runs
\* found (baseline, compare).
THEOREM ComparisonsAreHonest == FindingsSpec => []ComparisonIsHonest
<1>1. FindingsInv => ComparisonIsHonest
  BY DEF FindingsInv, TrueReport, Comparison, LastBefore, Found, ComparisonIsHonest
<1> QED BY <1>1, FindingsAreKept, PTL

-----------------------------------------------------------------------------
(***************************************************************************)
(* The deliveries.  A change is somewhere (a file, the index, a commit) only *)
(* if a delivery of it was agreed to; a delivery commits only on the branch *)
(* it made, and only the one that made the branch can.                     *)
(***************************************************************************)

Tree == [Path -> SUBSET Change]
TreeStep == {"validate", "read", "write", "reread", "add", "commit", "sha", "show", "head"}
DeliveryStep ==
  TreeStep \cup {"absent", "propose", "pending", "declined", "failed", "verify", "start", "branch", "error",
                 "lost", "applied", "met", "unmet", "publish", "count"}
DeliveryRecord == [step : DeliveryStep, attempts : Nat, updated : SUBSET Change, commit : Nat]
BranchName == {BranchOf(j) : j \in Job} \cup {Main}

DeliveryTypes ==
  /\ file \in Tree /\ staged \in Tree
  /\ commits \in Seq([parent : Nat, files : Tree, by : Job \cup {"upstream"}]) /\ Len(commits) >= 1
  /\ DOMAIN branch \subseteq BranchName /\ \A b \in DOMAIN branch : branch[b] \in 1..Len(commits)
  /\ head = [name |-> head.name, at |-> head.at]
  /\ head.name \in DOMAIN branch \cup {Detached} /\ head.at \in 1..Len(commits)
  /\ job \in [Job \cup Published -> DeliveryRecord]
  /\ answers \in [Asked -> Seq(BOOLEAN)]

\* A delivery was agreed to, and what a change that is somewhere needs.
Agrees(j) == IF j \in Asked THEN answers[j] # << >> /\ answers[j][1] ELSE ChangeOf[j] \in Sound
Agreed(c) == \E j \in Job : ChangeOf[j] = c /\ Agrees(j)

OnlyAgreed ==
  /\ \A p \in Path : \A c \in file[p] \cup staged[p] : Agreed(c)
  /\ \A n \in 1..Len(commits) : \A p \in Path : \A c \in commits[n].files[p] : Agreed(c)
  /\ \A j \in Job : \A c \in job[j].updated : Agreed(c)

AgreedBeforeActing ==
  /\ \A j \in Job : job[j].step \in TreeStep \cup {"start", "branch", "error"} => Agrees(j)
  /\ \A j \in Asked : job[j].step \in {"propose", "pending"} => answers[j] = << >>
  /\ \A j \in Job : job[j].step = "pending" => j \in Asked

BranchBeforeCommit ==
  /\ \A j \in Job : job[j].step \in TreeStep \cup {"applied", "met", "unmet"} => BranchOf(j) \in DOMAIN branch
  /\ \A n \in 1..Len(commits) : commits[n].by \in Job => BranchOf(commits[n].by) \in DOMAIN branch

OneCommitEach ==
  /\ \A j \in Job : job[j].step \in {"validate", "read", "write", "reread", "add", "commit"} =>
       \A n \in 1..Len(commits) : commits[n].by # j
  /\ \A m, n \in 1..Len(commits) : commits[m].by = commits[n].by /\ commits[m].by \in Job => m = n

\* What is done when, as long as the repository is on the branch of the delivery.
SoFar(j) ==
  LET c == ChangeOf[j]  p == PathOf[c]  s == job[j].step IN
  /\ s = "read" => Anchored(c)
  /\ s = "write" => c \in job[j].updated
  /\ s \in {"reread", "add"} => c \in file[p]
  /\ s = "commit" => c \in staged[p]
  /\ s = "sha" => c \in commits[branch[BranchOf(j)]].files[p]
IsThere(j) ==
  /\ BranchOf(j) \in DOMAIN branch /\ branch[BranchOf(j)] = job[j].commit
  /\ ChangeOf[j] \in commits[job[j].commit].files[PathOf[ChangeOf[j]]]

AloneInTree ==
  /\ \A j \in InTree \ crossed : InTree = {j} /\ head.name \in {BranchOf(j), Detached}
  /\ \A j \in InTree \ crossed : head.name = BranchOf(j) =>
       SoFar(j) /\ (job[j].step \in {"show", "head"} => IsThere(j))
  /\ \A j \in Tasked \ crossed : job[j].step = "met" =>
       IsThere(j) /\ (InTree # {} => head.name # BranchOf(j))

DeliveryInv ==
  /\ DeliveryTypes
  /\ OnlyAgreed /\ AgreedBeforeActing
  /\ BranchBeforeCommit /\ OneCommitEach
  /\ AloneInTree

-----------------------------------------------------------------------------
(***************************************************************************)
(* What a step does.                                                       *)
(***************************************************************************)
Becomes(j, r) == r \in DeliveryRecord /\ job' = [job EXCEPT ![j] = r]
Keeps(j, r) == r.updated = job[j].updated /\ r.commit = job[j].commit

\* A step that touches only the delivery itself.
QuietMove(j, r) ==
  LET s == job[j].step  c == ChangeOf[j] IN
  \/ /\ j \in Published /\ s \in {"publish", "count"} /\ r.step \in {"count", "met", "unmet"} /\ Keeps(j, r)
  \/ /\ j \in Job /\ s = "propose" /\ Keeps(j, r)
     /\ r.step = "failed" \/ (r.step = "pending" /\ j \in Asked) \/ (r.step = "verify" /\ j \notin Asked)
  \/ /\ j \in Tasked /\ s = "verify" /\ Keeps(j, r)
     /\ r.step = "failed" \/ (r.step = "start" /\ c \in Sound)
  \/ j \in Tasked /\ s \in {"start", "error"} /\ Keeps(j, r) /\ r.step = "branch"
  \/ /\ j \in Job /\ s = "validate" /\ Keeps(j, r)
     /\ r.step = "error" \/ (r.step = "read" /\ Anchored(c))
  \/ /\ j \in Job /\ s = "read" /\ r.step = "write" /\ r.commit = job[j].commit
     /\ r.updated = IF Anchored(c) THEN file[PathOf[c]] \cup {c} ELSE file[PathOf[c]]
  \/ /\ j \in Job /\ s = "reread" /\ Keeps(j, r)
     /\ r.step = "error" \/ (r.step = "add" /\ file[PathOf[c]] = job[j].updated)
  \/ /\ j \in Job /\ s = "sha" /\ r.updated = job[j].updated /\ r.commit = HeadCommit
     /\ r.step = IF j \in Asked THEN "applied" ELSE "show"
  \/ j \in Tasked /\ s = "show" /\ Keeps(j, r) /\ r.step \in {"head", "unmet"}
  \/ /\ j \in Tasked /\ s = "head" /\ Keeps(j, r)
     /\ r.step = "unmet" \/ (r.step = "met" /\ head.name = BranchOf(j))
  \/ /\ j \in Job /\ s \in {"branch", "read", "write", "add", "commit"} /\ Keeps(j, r) /\ r.step = "error"

Quiet == /\ UNCHANGED <<gitVars, answers, crossed>>
         /\ \E j \in Job \cup Published, r \in DeliveryRecord : Becomes(j, r) /\ QuietMove(j, r)

Decides(j) ==
  /\ j \in Asked /\ job[j].step = "pending"
  /\ UNCHANGED <<gitVars, crossed>>
  /\ \E yes \in BOOLEAN : /\ answers' = [answers EXCEPT ![j] = Append(answers[j], yes)]
                          /\ \E r \in DeliveryRecord : Becomes(j, r) /\ Keeps(j, r)
                                /\ r.step = IF yes THEN "branch" ELSE "declined"

Refused(j) ==
  /\ j \in Job /\ job[j].step = "branch" /\ BranchOf(j) \in DOMAIN branch
  /\ crossed' = IF InTree = {} THEN crossed ELSE crossed \cup InTree \cup {j}
  /\ UNCHANGED <<gitVars, answers>>
  /\ \E r \in DeliveryRecord : Becomes(j, r) /\ Keeps(j, r) /\ r.step = "error"

Branches(j) ==
  /\ j \in Job /\ job[j].step = "branch" /\ BranchOf(j) \notin DOMAIN branch
  /\ crossed' = IF InTree = {} THEN crossed ELSE crossed \cup InTree \cup {j}
  /\ branch' = [b \in DOMAIN branch \cup {BranchOf(j)} |-> IF b = BranchOf(j) THEN HeadCommit ELSE branch[b]]
  /\ head' = [name |-> BranchOf(j), at |-> HeadCommit]
  /\ UNCHANGED <<file, staged, commits, answers>>
  /\ \E r \in DeliveryRecord : Becomes(j, r) /\ Keeps(j, r) /\ r.step = "validate"

Writes(j) ==
  /\ j \in Job /\ job[j].step = "write"
  /\ file' = [file EXCEPT ![PathOf[ChangeOf[j]]] = job[j].updated]
  /\ UNCHANGED <<staged, commits, branch, head, answers, crossed>>
  /\ \E r \in DeliveryRecord : Becomes(j, r) /\ Keeps(j, r) /\ r.step = "reread"

Stages(j) ==
  LET p == PathOf[ChangeOf[j]] IN
  /\ j \in Job /\ job[j].step = "add"
  /\ staged' = [staged EXCEPT ![p] = file[p]]
  /\ UNCHANGED <<file, commits, branch, head, answers, crossed>>
  /\ \E r \in DeliveryRecord : Becomes(j, r) /\ Keeps(j, r) /\ r.step = "commit"

Commits(j) ==
  LET n == Len(commits) + 1 IN
  /\ j \in Job /\ job[j].step = "commit"
  /\ commits' = Append(commits, [parent |-> HeadCommit, files |-> staged, by |-> j])
  /\ branch' = IF head.name = Detached THEN branch ELSE [branch EXCEPT ![head.name] = n]
  /\ head' = [head EXCEPT !.at = n]
  /\ UNCHANGED <<file, staged, answers, crossed>>
  /\ \E r \in DeliveryRecord : Becomes(j, r) /\ Keeps(j, r) /\ r.step = "sha"

LEMMA JobBecomes ==
  ASSUME DeliveryTypes, NEW j \in Job \cup Published, NEW s \in DeliveryStep
  PROVE  LET r == [job[j] EXCEPT !.step = s] IN
         /\ r \in DeliveryRecord /\ r.step = s /\ Keeps(j, r)
         /\ MoveTo(j, s) => Becomes(j, r)
<1> DEFINE o == job[j]
           r == [o EXCEPT !.step = s]
<1>1. o \in DeliveryRecord
  BY DEF DeliveryTypes
<1> HIDE DEF o
<1>2. r \in DeliveryRecord /\ r.step = s /\ r.updated = o.updated /\ r.commit = o.commit
  BY <1>1 DEF DeliveryRecord
<1>3. ASSUME MoveTo(j, s) PROVE job' = [job EXCEPT ![j] = r]
  BY <1>3 DEF MoveTo, o, DeliveryTypes
<1> QED BY <1>2, <1>3 DEF Becomes, Keeps, o

LEMMA HeadIsACommit ==
  ASSUME DeliveryTypes PROVE HeadCommit \in 1..Len(commits) /\ HeadCommit \in Nat
<1>1. HeadCommit \in 1..Len(commits)
  BY DEF DeliveryTypes, HeadCommit
<1> QED BY <1>1

LEMMA DeliveryStepCases ==
  ASSUME DeliveryTypes, DeliveryNext
  PROVE  \/ Quiet
         \/ \E j \in Job : Decides(j) \/ Refused(j) \/ Branches(j) \/ Writes(j) \/ Stages(j) \/ Commits(j)
         \/ Crash \/ Refresh
<1>j. ASSUME NEW j \in Job \cup Published, NEW s \in DeliveryStep, MoveTo(j, s)
      PROVE  \E r \in DeliveryRecord : Becomes(j, r) /\ Keeps(j, r) /\ r.step = s
  <2> DEFINE r == [job[j] EXCEPT !.step = s]
  <2>1. r \in DeliveryRecord /\ Becomes(j, r) /\ Keeps(j, r) /\ r.step = s
    BY <1>j, JobBecomes
  <2> QED BY <2>1
<1>q. ASSUME UNCHANGED <<gitVars, answers, crossed>>, NEW j \in Job \cup Published, NEW s \in DeliveryStep,
             MoveTo(j, s), \A r \in DeliveryRecord : r.step = s /\ Keeps(j, r) => QuietMove(j, r)
      PROVE  Quiet
  BY <1>j, <1>q DEF Quiet
<1>1. ASSUME NEW j \in Job, Propose(j) PROVE Quiet
  <2> DEFINE s == IF ~Anchored(ChangeOf[j]) THEN "failed" ELSE IF j \in Asked THEN "pending" ELSE "verify"
  <2>1. s \in DeliveryStep /\ MoveTo(j, s) /\ UNCHANGED <<gitVars, answers, crossed>> /\ job[j].step = "propose"
    BY <1>1 DEF Propose, Doing, DeliveryStep
  <2>2. \A r \in DeliveryRecord : r.step = s /\ Keeps(j, r) => QuietMove(j, r)
    BY <2>1 DEF QuietMove
  <2> HIDE DEF s
  <2> QED BY <2>1, <2>2, <1>q
<1>2. ASSUME NEW j \in Tasked, Verify(j) PROVE Quiet
  <2>1. PICK refuted \in BOOLEAN :
          MoveTo(j, IF Anchored(ChangeOf[j]) /\ ChangeOf[j] \in Sound /\ ~refuted THEN "start" ELSE "failed")
    BY <1>2 DEF Verify
  <2> DEFINE s == IF Anchored(ChangeOf[j]) /\ ChangeOf[j] \in Sound /\ ~refuted THEN "start" ELSE "failed"
  <2>2. s \in DeliveryStep /\ MoveTo(j, s) /\ UNCHANGED <<gitVars, answers, crossed>> /\ job[j].step = "verify"
        /\ j \in Job
    BY <1>2, <2>1 DEF Verify, Doing, DeliveryStep, Job
  <2>3. \A r \in DeliveryRecord : r.step = s /\ Keeps(j, r) => QuietMove(j, r)
    BY <2>2 DEF QuietMove
  <2> HIDE DEF s
  <2> QED BY <2>2, <2>3, <1>q
<1>3. ASSUME NEW j \in Asked, DecideChange(j) PROVE Decides(j)
  <2>1. PICK yes \in BOOLEAN : /\ answers' = [answers EXCEPT ![j] = Append(answers[j], yes)]
                               /\ MoveTo(j, IF yes THEN "branch" ELSE "declined")
    BY <1>3 DEF DecideChange, DeliveryTypes
  <2> DEFINE s == IF yes THEN "branch" ELSE "declined"
  <2>2. s \in DeliveryStep /\ MoveTo(j, s) /\ j \in Job
    BY <2>1 DEF DeliveryStep, Job
  <2> HIDE DEF s
  <2>3. \E r \in DeliveryRecord : Becomes(j, r) /\ Keeps(j, r) /\ r.step = s
    BY <2>2, <1>j
  <2> QED BY <1>3, <2>1, <2>3 DEF DecideChange, Decides, Doing, s
<1>4. ASSUME NEW j \in Tasked, Attempt(j) PROVE Quiet
  <2> DEFINE o == job[j]
             r == [o EXCEPT !.step = "branch", !.attempts = @ + 1]
  <2>1. o \in DeliveryRecord /\ j \in Job
    BY DEF DeliveryTypes, Job
  <2>2. job' = [job EXCEPT ![j] = r]
    BY <1>4 DEF Attempt
  <2>3. o.step \in {"start", "error"} /\ UNCHANGED <<gitVars, answers, crossed>>
    BY <1>4 DEF Attempt
  <2>4. "branch" \in DeliveryStep
    BY DEF DeliveryStep
  <2> HIDE DEF o
  <2>5. r.step = "branch" /\ r.updated = o.updated /\ r.commit = o.commit
    BY <2>1 DEF DeliveryRecord
  <2>6. o.attempts + 1 \in Nat
    BY <2>1 DEF DeliveryRecord
  <2>7. r \in DeliveryRecord
    BY <2>1, <2>4, <2>6 DEF DeliveryRecord
  <2> HIDE DEF r
  <2>8. QuietMove(j, r)
    BY <2>3, <2>5 DEF QuietMove, Keeps, o
  <2> QED BY <2>1, <2>2, <2>3, <2>7, <2>8 DEF Quiet, Becomes
<1>5. ASSUME NEW j \in Job, Branch(j) PROVE Refused(j) \/ Branches(j)
  <2>1. "error" \in DeliveryStep /\ "validate" \in DeliveryStep
    BY DEF DeliveryStep, TreeStep
  <2>2. CASE BranchOf(j) \in DOMAIN branch
    <3>1. MoveTo(j, "error") /\ UNCHANGED <<branch, head>>
      BY <1>5, <2>2 DEF Branch
    <3>2. \E r \in DeliveryRecord : Becomes(j, r) /\ Keeps(j, r) /\ r.step = "error"
      BY <2>1, <3>1, <1>j
    <3> QED BY <1>5, <2>2, <3>1, <3>2 DEF Branch, Refused, Doing, gitVars
  <2>3. CASE BranchOf(j) \notin DOMAIN branch
    <3> DEFINE b == BranchOf(j)
    <3>1. /\ MoveTo(j, "validate") /\ head' = [name |-> b, at |-> HeadCommit]
          /\ branch' = [x \in DOMAIN branch \cup {b} |-> IF x = b THEN HeadCommit ELSE branch[x]]
      BY <1>5, <2>3 DEF Branch
    <3>2. \E r \in DeliveryRecord : Becomes(j, r) /\ Keeps(j, r) /\ r.step = "validate"
      BY <2>1, <3>1, <1>j
    <3> QED BY <1>5, <2>3, <3>1, <3>2 DEF Branch, Branches, Doing
  <2> QED BY <2>2, <2>3
<1>6. ASSUME NEW j \in Job, Validate(j) PROVE Quiet
  <2> DEFINE s == IF Anchored(ChangeOf[j]) THEN "read" ELSE "error"
  <2>1. s \in DeliveryStep /\ MoveTo(j, s) /\ UNCHANGED <<gitVars, answers, crossed>> /\ job[j].step = "validate"
    BY <1>6 DEF Validate, Doing, DeliveryStep, TreeStep
  <2>2. \A r \in DeliveryRecord : r.step = s /\ Keeps(j, r) => QuietMove(j, r)
    BY <2>1 DEF QuietMove
  <2> HIDE DEF s
  <2> QED BY <2>1, <2>2, <1>q
<1>7. ASSUME NEW j \in Job, Read(j) PROVE Quiet
  <2> DEFINE o == job[j]
             u == IF Anchored(ChangeOf[j]) THEN file[PathOf[ChangeOf[j]]] \cup {ChangeOf[j]} ELSE file[PathOf[ChangeOf[j]]]
             r == [o EXCEPT !.step = "write", !.updated = u]
  <2>1. o \in DeliveryRecord
    BY DEF DeliveryTypes
  <2>2. job' = [job EXCEPT ![j] = r]
    BY <1>7 DEF Read
  <2>3. o.step = "read" /\ UNCHANGED <<gitVars, answers, crossed>>
    BY <1>7 DEF Read, Doing
  <2>4. "write" \in DeliveryStep
    BY DEF DeliveryStep, TreeStep
  <2>5. u \in SUBSET Change
    BY DeliveryAssumption DEF DeliveryTypes, Tree
  <2> HIDE DEF o, u
  <2>6. r.step = "write" /\ r.updated = u /\ r.commit = o.commit
    BY <2>1 DEF DeliveryRecord
  <2>7. r \in DeliveryRecord
    BY <2>1, <2>4, <2>5 DEF DeliveryRecord
  <2> HIDE DEF r
  <2>8. QuietMove(j, r)
    BY <2>3, <2>6 DEF QuietMove, Keeps, o, u
  <2> QED BY <2>2, <2>3, <2>7, <2>8 DEF Quiet, Becomes
<1>8. ASSUME NEW j \in Job, WriteFile(j) PROVE Writes(j)
  <2>1. \E r \in DeliveryRecord : Becomes(j, r) /\ Keeps(j, r) /\ r.step = "reread"
    BY <1>8, <1>j DEF WriteFile, DeliveryStep, TreeStep
  <2> QED BY <1>8, <2>1 DEF WriteFile, Writes, Doing
<1>9. ASSUME NEW j \in Job, Reread(j) PROVE Quiet
  <2> DEFINE s == IF file[PathOf[ChangeOf[j]]] = job[j].updated THEN "add" ELSE "error"
  <2>1. s \in DeliveryStep /\ MoveTo(j, s) /\ UNCHANGED <<gitVars, answers, crossed>> /\ job[j].step = "reread"
    BY <1>9 DEF Reread, Doing, DeliveryStep, TreeStep
  <2>2. \A r \in DeliveryRecord : r.step = s /\ Keeps(j, r) => QuietMove(j, r)
    BY <2>1 DEF QuietMove
  <2> HIDE DEF s
  <2> QED BY <2>1, <2>2, <1>q
<1>10. ASSUME NEW j \in Job, Add(j) PROVE Stages(j)
  <2>1. \E r \in DeliveryRecord : Becomes(j, r) /\ Keeps(j, r) /\ r.step = "commit"
    BY <1>10, <1>j DEF Add, DeliveryStep, TreeStep
  <2> QED BY <1>10, <2>1 DEF Add, Stages, Doing
<1>11. ASSUME NEW j \in Job, Commit(j) PROVE Quiet \/ Commits(j)
  <2>1. CASE staged = commits[HeadCommit].files
    <3>1. MoveTo(j, "error") /\ "error" \in DeliveryStep /\ UNCHANGED <<gitVars, answers, crossed>> /\ job[j].step = "commit"
      BY <1>11, <2>1 DEF Commit, Doing, DeliveryStep, gitVars
    <3>2. \A r \in DeliveryRecord : r.step = "error" /\ Keeps(j, r) => QuietMove(j, r)
      BY <3>1 DEF QuietMove
    <3> QED BY <3>1, <3>2, <1>q
  <2>2. CASE staged # commits[HeadCommit].files
    <3>1. \E r \in DeliveryRecord : Becomes(j, r) /\ Keeps(j, r) /\ r.step = "sha"
      BY <1>11, <2>2, <1>j DEF Commit, DeliveryStep, TreeStep
    <3> QED BY <1>11, <2>2, <3>1 DEF Commit, Commits, Doing
  <2> QED BY <2>1, <2>2
<1>12. ASSUME NEW j \in Job, Sha(j) PROVE Quiet
  <2> DEFINE o == job[j]
             s == IF j \in Asked THEN "applied" ELSE "show"
             h == HeadCommit
             r == [o EXCEPT !.step = s, !.commit = h]
  <2>1. o \in DeliveryRecord
    BY DEF DeliveryTypes
  <2>2. job' = [job EXCEPT ![j] = r]
    BY <1>12 DEF Sha
  <2>3. o.step = "sha" /\ UNCHANGED <<gitVars, answers, crossed>>
    BY <1>12 DEF Sha, Doing
  <2>4. s \in DeliveryStep
    BY DEF DeliveryStep, TreeStep
  <2>5. h \in Nat
    BY HeadIsACommit
  <2> HIDE DEF o, s, h
  <2>6. r.step = s /\ r.updated = o.updated /\ r.commit = h
    BY <2>1 DEF DeliveryRecord
  <2>7. r \in DeliveryRecord
    BY <2>1, <2>4, <2>5 DEF DeliveryRecord
  <2> HIDE DEF r
  <2>8. QuietMove(j, r)
    BY <2>3, <2>6 DEF QuietMove, Keeps, o, s, h
  <2> QED BY <2>2, <2>3, <2>7, <2>8 DEF Quiet, Becomes
<1>13. ASSUME NEW j \in Tasked, Show(j) PROVE Quiet
  <2> DEFINE s == IF Touches(job[j].commit, PathOf[ChangeOf[j]]) THEN "head" ELSE "unmet"
  <2>1. s \in DeliveryStep /\ MoveTo(j, s) /\ UNCHANGED <<gitVars, answers, crossed>> /\ job[j].step = "show" /\ j \in Job
    BY <1>13 DEF Show, Doing, DeliveryStep, TreeStep, Job
  <2>2. \A r \in DeliveryRecord : r.step = s /\ Keeps(j, r) => QuietMove(j, r)
    BY <2>1 DEF QuietMove
  <2> HIDE DEF s
  <2> QED BY <2>1, <2>2, <1>q
<1>14. ASSUME NEW j \in Tasked, Look(j) PROVE Quiet
  <2> DEFINE s == IF OnBranch(j) THEN "met" ELSE "unmet"
  <2>1. s \in DeliveryStep /\ MoveTo(j, s) /\ UNCHANGED <<gitVars, answers, crossed>> /\ job[j].step = "head" /\ j \in Job
    BY <1>14 DEF Look, Doing, DeliveryStep, TreeStep, Job
  <2>2. \A r \in DeliveryRecord : r.step = s /\ Keeps(j, r) => QuietMove(j, r)
    BY <2>1 DEF QuietMove, OnBranch
  <2> HIDE DEF s
  <2> QED BY <2>1, <2>2, <1>q
<1>15. ASSUME NEW j \in Published, Publish(j) PROVE Quiet
  <2>1. "count" \in DeliveryStep /\ MoveTo(j, "count") /\ UNCHANGED <<gitVars, answers, crossed>> /\ job[j].step = "publish"
    BY <1>15 DEF Publish, Doing, DeliveryStep
  <2>2. \A r \in DeliveryRecord : r.step = "count" /\ Keeps(j, r) => QuietMove(j, r)
    BY <2>1 DEF QuietMove
  <2> QED BY <2>1, <2>2, <1>q
<1>16. ASSUME NEW j \in Published, Count(j) PROVE Quiet
  <2> DEFINE s == IF CasesOf[evalset] = CasesOf[j] THEN "met" ELSE "unmet"
  <2>1. s \in DeliveryStep /\ MoveTo(j, s) /\ UNCHANGED <<gitVars, answers, crossed>> /\ job[j].step = "count"
    BY <1>16 DEF Count, Doing, DeliveryStep
  <2>2. \A r \in DeliveryRecord : r.step = s /\ Keeps(j, r) => QuietMove(j, r)
    BY <2>1 DEF QuietMove
  <2> HIDE DEF s
  <2> QED BY <2>1, <2>2, <1>q
<1>17. ASSUME NEW j \in Job, StepFails(j) PROVE Quiet
  <2>1. "error" \in DeliveryStep /\ MoveTo(j, "error") /\ UNCHANGED <<gitVars, answers, crossed>>
        /\ job[j].step \in {"branch", "read", "write", "add", "commit"}
    BY <1>17 DEF StepFails, Doing, DeliveryStep
  <2>2. \A r \in DeliveryRecord : r.step = "error" /\ Keeps(j, r) => QuietMove(j, r)
    BY <2>1 DEF QuietMove
  <2> QED BY <2>1, <2>2, <1>q
<1>18. ASSUME NEW j \in Asked PROVE j \in Job
  BY DEF Job
<1> QED BY <1>1, <1>2, <1>3, <1>4, <1>5, <1>6, <1>7, <1>8, <1>9, <1>10, <1>11, <1>12, <1>13, <1>14, <1>15,
           <1>16, <1>17, <1>18 DEF DeliveryNext

-----------------------------------------------------------------------------
(***************************************************************************)
(* Each step keeps the invariant.                                          *)
(***************************************************************************)
LEMMA OnlyOneMoves ==
  ASSUME DeliveryTypes, NEW j \in Job \cup Published, NEW r \in DeliveryRecord, Becomes(j, r)
  PROVE  /\ job' \in [Job \cup Published -> DeliveryRecord]
         /\ job'[j] = r
         /\ \A i \in (Job \cup Published) \ {j} : job'[i] = job[i]
BY DEF DeliveryTypes, Becomes

LEMMA StillAgreed ==
  ASSUME AgreedBeforeActing, NEW j \in Job, NEW r,
         job'[j] = r, \A i \in (Job \cup Published) \ {j} : job'[i] = job[i],
         answers' = answers, r.step \notin {"propose", "pending"},
         r.step \in TreeStep \cup {"start", "branch", "error"} => Agrees(j)
  PROVE  AgreedBeforeActing'
<1>1. \A i : Agrees(i)' <=> Agrees(i)
  BY DEF Agrees
<1>2. ASSUME NEW i \in Job, job'[i].step \in TreeStep \cup {"start", "branch", "error"} PROVE Agrees(i)'
  BY <1>1, <1>2 DEF AgreedBeforeActing
<1>3. ASSUME NEW i \in Asked, job'[i].step \in {"propose", "pending"} PROVE answers'[i] = << >>
  <2>1. i \in Job /\ i # j
    BY <1>3 DEF Job
  <2> QED BY <1>3, <2>1 DEF AgreedBeforeActing
<1>4. ASSUME NEW i \in Job, job'[i].step = "pending" PROVE i \in Asked
  BY <1>4 DEF AgreedBeforeActing
<1> QED BY <1>2, <1>3, <1>4 DEF AgreedBeforeActing

LEMMA TreeMembers == InTree = {j \in Job : job[j].step \in TreeStep}
BY DEF InTree, TreeStep

LEMMA QuietKeeps == ASSUME DeliveryInv, Quiet PROVE DeliveryInv'
<1>0. PICK j \in Job \cup Published, r \in DeliveryRecord : Becomes(j, r) /\ QuietMove(j, r)
  BY DEF Quiet
<1>1. DeliveryTypes
  BY DEF DeliveryInv
<1>2. /\ job' \in [Job \cup Published -> DeliveryRecord]
      /\ job'[j] = r
      /\ \A i \in (Job \cup Published) \ {j} : job'[i] = job[i]
  BY <1>0, <1>1, OnlyOneMoves
<1>3. /\ file' = file /\ staged' = staged /\ commits' = commits /\ branch' = branch /\ head' = head
      /\ answers' = answers /\ crossed' = crossed
  BY DEF Quiet, gitVars
<1>4. DeliveryTypes'
  BY <1>1, <1>2, <1>3 DEF DeliveryTypes
<1>5. \A i : Agrees(i)' <=> Agrees(i)
  BY <1>3 DEF Agrees
<1>6. \A c : Agreed(c)' <=> Agreed(c)
  BY <1>5 DEF Agreed
<1>7. j \in Published => j \notin Job
  BY DeliveryAssumption
<1>8. OnlyAgreed'
  <2>1. \A c \in job[j].updated : j \in Job => Agreed(c)
    BY DEF DeliveryInv, OnlyAgreed
  <2>2. j \in Job /\ job[j].step = "read" => Agreed(ChangeOf[j]) /\ \A c \in file[PathOf[ChangeOf[j]]] : Agreed(c)
    BY DeliveryAssumption DEF DeliveryInv, AgreedBeforeActing, OnlyAgreed, TreeStep, Agreed
  <2>3. ASSUME j \in Job, NEW c \in r.updated PROVE Agreed(c)
    BY <1>0, <1>7, <2>1, <2>2, <2>3 DEF QuietMove, Keeps
  <2>4. ASSUME NEW i \in Job, NEW c \in job'[i].updated PROVE Agreed(c)
    BY <1>2, <2>3, <2>4 DEF DeliveryInv, OnlyAgreed
  <2> QED BY <1>3, <1>6, <2>4 DEF DeliveryInv, OnlyAgreed
<1>9. AgreedBeforeActing'
  <2>1. j \in Job /\ r.step \in TreeStep \cup {"start", "branch", "error"} => Agrees(j)
    <3>1. ASSUME j \in Job, r.step \in TreeStep \cup {"start", "branch", "error"}
          PROVE  \/ job[j].step \in TreeStep \cup {"start", "branch", "error"}
                 \/ j \in Tasked /\ ChangeOf[j] \in Sound
      BY <1>0, <1>7, <3>1 DEF QuietMove, TreeStep
    <3>2. j \in Tasked /\ ChangeOf[j] \in Sound => Agrees(j)
      BY DeliveryAssumption DEF Agrees
    <3> QED BY <3>1, <3>2 DEF DeliveryInv, AgreedBeforeActing
  <2>2. j \in Asked /\ r.step \in {"propose", "pending"} => answers[j] = << >>
    BY <1>0, <1>7 DEF QuietMove, DeliveryInv, AgreedBeforeActing, Job
  <2>3. j \in Job /\ r.step = "pending" => j \in Asked
    BY <1>0, <1>7 DEF QuietMove
  <2> QED BY <1>2, <1>3, <1>5, <2>1, <2>2, <2>3 DEF DeliveryInv, AgreedBeforeActing, Job
<1>10. j \in Job /\ r.step \in TreeStep \cup {"applied", "met", "unmet"} => job[j].step \in TreeStep
  BY <1>0, <1>7 DEF QuietMove, TreeStep
<1>11. BranchBeforeCommit'
  BY <1>2, <1>3, <1>10 DEF DeliveryInv, BranchBeforeCommit, BranchOf
<1>12. OneCommitEach'
  <2>1. j \in Job /\ r.step \in {"validate", "read", "write", "reread", "add", "commit"}
          => job[j].step \in {"validate", "read", "write", "reread", "add", "commit"}
    BY <1>0, <1>7 DEF QuietMove
  <2> QED BY <1>2, <1>3, <2>1 DEF DeliveryInv, OneCommitEach
<1>13. AloneInTree'
  <2>1. InTree' = {i \in Job : job'[i].step \in TreeStep}
    BY DEF InTree, TreeStep
  <2>2. InTree' \subseteq InTree
    BY <1>2, <1>10, <2>1, TreeMembers
  <2>3. \A i \in Job \ {j} : (SoFar(i)' <=> SoFar(i)) /\ (IsThere(i)' <=> IsThere(i))
    BY <1>2, <1>3 DEF SoFar, IsThere, Anchored, BranchOf
  <2>4. \A i \in InTree' \ crossed : InTree' = {i} /\ head.name \in {BranchOf(i), Detached}
    BY <2>2 DEF DeliveryInv, AloneInTree
  <2>5. ASSUME j \in InTree' \ crossed, head.name = BranchOf(j)
        PROVE  SoFar(j)' /\ (r.step \in {"show", "head"} => IsThere(j)')
    <3>1. SoFar(j) /\ (job[j].step \in {"show", "head"} => IsThere(j)) /\ j \in Job
      BY <2>2, <2>5, TreeMembers DEF DeliveryInv, AloneInTree
    <3>2. HeadCommit = branch[BranchOf(j)]
      BY <2>5 DEF HeadCommit, BranchOf, Detached
    <3>3. SoFar(j)'
      BY <1>0, <1>2, <1>3, <1>7, <3>1 DEF QuietMove, SoFar, Keeps, Anchored, BranchOf
    <3>4. ASSUME r.step \in {"show", "head"} PROVE IsThere(j)'
      <4>1. BranchOf(j) \in DOMAIN branch
        BY <2>2, <2>5, <3>1, TreeMembers DEF DeliveryInv, BranchBeforeCommit
      <4> QED BY <1>0, <1>2, <1>3, <1>7, <3>1, <3>2, <3>4, <4>1 DEF QuietMove, SoFar, Keeps, IsThere, BranchOf
    <3> QED BY <3>3, <3>4
  <2>6. ASSUME j \in Tasked \ crossed, r.step = "met"
        PROVE  IsThere(j)' /\ InTree' = {}
    <3>1. j \in Job /\ job[j].step = "head" /\ head.name = BranchOf(j) /\ Keeps(j, r)
      BY <2>6, <1>0, <1>7 DEF QuietMove, Job
    <3>2. j \in InTree
      BY <3>1, TreeMembers DEF TreeStep
    <3>3. InTree = {j} /\ IsThere(j)
      BY <3>1, <3>2, <2>6 DEF DeliveryInv, AloneInTree
    <3>4. j \notin InTree'
      BY <2>1, <2>6, <1>2 DEF TreeStep
    <3> QED BY <3>1, <3>3, <3>4, <2>2, <1>2, <1>3 DEF IsThere, Keeps, BranchOf
  <2>7. ASSUME NEW i \in Tasked \ crossed, job'[i].step = "met"
        PROVE  IsThere(i)' /\ (InTree' # {} => head.name # BranchOf(i))
    <3>1. i \in Job
      BY DEF Job
    <3>2. CASE i = j
      BY <2>6, <2>7, <3>2, <1>2
    <3>3. CASE i # j
      BY <2>2, <2>3, <2>7, <3>1, <3>3, <1>2 DEF DeliveryInv, AloneInTree
    <3> QED BY <3>2, <3>3
  <2>8. ASSUME NEW i \in InTree' \ crossed, head.name = BranchOf(i)
        PROVE  SoFar(i)' /\ (job'[i].step \in {"show", "head"} => IsThere(i)')
    <3>1. i \in Job /\ i \in InTree
      BY <2>2, TreeMembers
    <3>2. CASE i = j
      BY <2>5, <2>8, <3>2, <1>2
    <3>3. CASE i # j
      BY <2>3, <2>8, <3>1, <3>3, <1>2 DEF DeliveryInv, AloneInTree
    <3> QED BY <3>2, <3>3
  <2> QED BY <1>3, <2>4, <2>7, <2>8 DEF AloneInTree, BranchOf
<1> QED BY <1>4, <1>8, <1>9, <1>11, <1>12, <1>13 DEF DeliveryInv

\* The facts about a step of delivery j, from Becomes and Keeps.
LEMMA DecidesKeeps == ASSUME DeliveryInv, NEW j \in Job, Decides(j) PROVE DeliveryInv'
<1>0. PICK yes \in BOOLEAN, r \in DeliveryRecord :
        /\ answers' = [answers EXCEPT ![j] = Append(answers[j], yes)]
        /\ Becomes(j, r) /\ Keeps(j, r) /\ r.step = IF yes THEN "branch" ELSE "declined"
  BY DEF Decides
<1>1. DeliveryTypes /\ j \in Asked /\ job[j].step = "pending"
  BY DEF DeliveryInv, Decides
<1>2. /\ job' \in [Job \cup Published -> DeliveryRecord]
      /\ job'[j] = r
      /\ \A i \in (Job \cup Published) \ {j} : job'[i] = job[i]
  BY <1>0, <1>1, OnlyOneMoves
<1>3. /\ file' = file /\ staged' = staged /\ commits' = commits /\ branch' = branch /\ head' = head
      /\ crossed' = crossed
  BY DEF Decides, gitVars
<1>4. answers[j] = << >>
  BY <1>1 DEF DeliveryInv, AgreedBeforeActing
<1>5. /\ answers' \in [Asked -> Seq(BOOLEAN)]
      /\ answers'[j] = <<yes>>
      /\ \A i \in Asked \ {j} : answers'[i] = answers[i]
  BY <1>0, <1>1, <1>4 DEF DeliveryTypes
<1>6. DeliveryTypes'
  BY <1>1, <1>2, <1>3, <1>5 DEF DeliveryTypes
<1>7. \A i \in Job : Agrees(i) => Agrees(i)'
  BY <1>4, <1>5 DEF Agrees
<1>8. \A c : Agreed(c) => Agreed(c)'
  BY <1>7 DEF Agreed
<1>9. yes => Agrees(j)'
  <2> DEFINE a == answers'[j]
  <2>1. yes => a # << >> /\ a[1]
    BY <1>5
  <2> HIDE DEF a
  <2> QED BY <1>1, <2>1 DEF Agrees, a
<1>10. OnlyAgreed'
  BY <1>0, <1>2, <1>3, <1>8 DEF DeliveryInv, OnlyAgreed, Keeps
<1>11. r.step \notin TreeStep \cup {"propose", "pending", "start", "error", "applied", "met", "unmet"}
       /\ (r.step = "branch" => yes)
  BY <1>0 DEF TreeStep
<1>12. AgreedBeforeActing'
  <2>1. ASSUME NEW i \in Job, job'[i].step \in TreeStep \cup {"start", "branch", "error"} PROVE Agrees(i)'
    <3>1. CASE i = j
      <4>1. r.step = "branch"
        BY <1>2, <1>11, <2>1, <3>1
      <4> QED BY <4>1, <1>9, <1>11, <3>1
    <3>2. CASE i # j
      BY <1>2, <1>7, <2>1, <3>2 DEF DeliveryInv, AgreedBeforeActing
    <3> QED BY <3>1, <3>2
  <2>2. ASSUME NEW i \in Asked, job'[i].step \in {"propose", "pending"} PROVE answers'[i] = << >>
    <3>1. i \in Job /\ i # j
      BY <1>2, <1>11, <2>2 DEF Job
    <3> QED BY <1>2, <1>5, <2>2, <3>1 DEF DeliveryInv, AgreedBeforeActing
  <2>3. ASSUME NEW i \in Job, job'[i].step = "pending" PROVE i \in Asked
    BY <1>1, <1>2, <2>3 DEF DeliveryInv, AgreedBeforeActing
  <2> QED BY <2>1, <2>2, <2>3 DEF AgreedBeforeActing
<1>13. BranchBeforeCommit' /\ OneCommitEach'
  BY <1>2, <1>3, <1>11 DEF DeliveryInv, BranchBeforeCommit, OneCommitEach, BranchOf, TreeStep
<1>14. AloneInTree'
  <2>1. InTree' = {i \in Job : job'[i].step \in TreeStep}
    BY DEF InTree, TreeStep
  <2>2. InTree' = InTree /\ j \notin InTree
    BY <1>1, <1>2, <1>11, <2>1, TreeMembers DEF TreeStep
  <2>3. \A i \in Job \ {j} : (SoFar(i)' <=> SoFar(i)) /\ (IsThere(i)' <=> IsThere(i))
    BY <1>2, <1>3 DEF SoFar, IsThere, Anchored, BranchOf
  <2> QED BY <1>2, <1>3, <1>11, <2>2, <2>3, TreeMembers DEF DeliveryInv, AloneInTree, BranchOf, Job
<1> QED BY <1>6, <1>10, <1>12, <1>13, <1>14 DEF DeliveryInv

LEMMA RefusedKeeps == ASSUME DeliveryInv, NEW j \in Job, Refused(j) PROVE DeliveryInv'
<1>0. PICK r \in DeliveryRecord : Becomes(j, r) /\ Keeps(j, r) /\ r.step = "error"
  BY DEF Refused
<1>1. DeliveryTypes /\ job[j].step = "branch"
  BY DEF DeliveryInv, Refused
<1>2. /\ job' \in [Job \cup Published -> DeliveryRecord]
      /\ job'[j] = r
      /\ \A i \in (Job \cup Published) \ {j} : job'[i] = job[i]
  BY <1>0, <1>1, OnlyOneMoves
<1>3. /\ file' = file /\ staged' = staged /\ commits' = commits /\ branch' = branch /\ head' = head
      /\ answers' = answers /\ crossed \subseteq crossed'
  BY DEF Refused, gitVars
<1>4. DeliveryTypes'
  BY <1>1, <1>2, <1>3 DEF DeliveryTypes
<1>5. \A i : Agrees(i)' <=> Agrees(i)
  BY <1>3 DEF Agrees
<1>6. \A c : Agreed(c)' <=> Agreed(c)
  BY <1>5 DEF Agreed
<1>7. OnlyAgreed'
  BY <1>0, <1>2, <1>3, <1>6 DEF DeliveryInv, OnlyAgreed, Keeps
<1>8. AgreedBeforeActing'
  <2>1. AgreedBeforeActing /\ Agrees(j)
    BY <1>1 DEF DeliveryInv, AgreedBeforeActing
  <2>2. r.step \notin {"propose", "pending"}
    BY <1>0
  <2> QED BY <1>2, <1>3, <2>1, <2>2, StillAgreed
<1>9. BranchBeforeCommit' /\ OneCommitEach'
  BY <1>0, <1>2, <1>3 DEF DeliveryInv, BranchBeforeCommit, OneCommitEach, BranchOf, TreeStep
<1>10. AloneInTree'
  <2>1. InTree' = {i \in Job : job'[i].step \in TreeStep}
    BY DEF InTree, TreeStep
  <2>2. InTree' = InTree /\ j \notin InTree
    BY <1>0, <1>1, <1>2, <2>1, TreeMembers DEF TreeStep
  <2>3. \A i \in Job \ {j} : (SoFar(i)' <=> SoFar(i)) /\ (IsThere(i)' <=> IsThere(i))
    BY <1>2, <1>3 DEF SoFar, IsThere, Anchored, BranchOf
  <2> QED BY <1>0, <1>2, <1>3, <2>2, <2>3, TreeMembers DEF DeliveryInv, AloneInTree, BranchOf, Job
<1> QED BY <1>4, <1>7, <1>8, <1>9, <1>10 DEF DeliveryInv

LEMMA BranchesKeeps == ASSUME DeliveryInv, NEW j \in Job, Branches(j) PROVE DeliveryInv'
<1>0. PICK r \in DeliveryRecord : Becomes(j, r) /\ Keeps(j, r) /\ r.step = "validate"
  BY DEF Branches
<1>1. DeliveryTypes /\ job[j].step = "branch" /\ BranchOf(j) \notin DOMAIN branch
  BY DEF DeliveryInv, Branches
<1>2. /\ job' \in [Job \cup Published -> DeliveryRecord]
      /\ job'[j] = r
      /\ \A i \in (Job \cup Published) \ {j} : job'[i] = job[i]
  BY <1>0, <1>1, OnlyOneMoves
<1>3. /\ file' = file /\ staged' = staged /\ commits' = commits
      /\ head' = [name |-> BranchOf(j), at |-> HeadCommit]
      /\ head'.name = BranchOf(j) /\ head'.at = HeadCommit
      /\ answers' = answers /\ crossed \subseteq crossed'
      /\ InTree # {} => InTree \cup {j} \subseteq crossed'
  BY DEF Branches
<1> DEFINE b == BranchOf(j)
<1>h. HeadCommit \in 1..Len(commits)
  BY <1>1, HeadIsACommit
<1>b. /\ DOMAIN branch' = DOMAIN branch \cup {b} /\ branch'[b] = HeadCommit
      /\ \A x \in DOMAIN branch : branch'[x] = branch[x]
  <2>1. b \notin DOMAIN branch
    BY <1>1
  <2>2. branch' = [x \in DOMAIN branch \cup {b} |-> IF x = b THEN HeadCommit ELSE branch[x]]
    BY DEF Branches
  <2> HIDE DEF b
  <2> QED BY <2>1, <2>2
<1>n. b \in BranchName
  BY DEF BranchName
<1>4. DeliveryTypes'
  <2>1. DOMAIN branch' \subseteq BranchName /\ \A x \in DOMAIN branch' : branch'[x] \in 1..Len(commits)
    BY <1>1, <1>b, <1>h, <1>n DEF DeliveryTypes
  <2>2. BranchName' = BranchName
    BY DEF BranchName, BranchOf
  <2>3. head'.name \in DOMAIN branch' \cup {Detached} /\ head'.at \in 1..Len(commits)
        /\ head' = [name |-> head'.name, at |-> head'.at]
    BY <1>3, <1>b, <1>h
  <2> QED BY <1>1, <1>2, <1>3, <2>1, <2>2, <2>3 DEF DeliveryTypes
<1>5. \A i : Agrees(i)' <=> Agrees(i)
  BY <1>3 DEF Agrees
<1>6. \A c : Agreed(c)' <=> Agreed(c)
  BY <1>5 DEF Agreed
<1>7. OnlyAgreed'
  BY <1>0, <1>2, <1>3, <1>6 DEF DeliveryInv, OnlyAgreed, Keeps
<1>8. AgreedBeforeActing'
  <2>1. AgreedBeforeActing /\ Agrees(j)
    BY <1>1 DEF DeliveryInv, AgreedBeforeActing
  <2>2. r.step \notin {"propose", "pending"}
    BY <1>0
  <2> QED BY <1>2, <1>3, <2>1, <2>2, StillAgreed
<1>9. BranchBeforeCommit'
  BY <1>0, <1>2, <1>3, <1>b DEF DeliveryInv, BranchBeforeCommit, BranchOf
<1>c. \A n \in 1..Len(commits) : commits[n].by # j
  BY <1>1 DEF DeliveryInv, BranchBeforeCommit
<1>10. OneCommitEach'
  BY <1>0, <1>2, <1>3, <1>c DEF DeliveryInv, OneCommitEach
<1>11. AloneInTree'
  <2>1. InTree' = {i \in Job : job'[i].step \in TreeStep}
    BY DEF InTree, TreeStep
  <2>2. InTree' = InTree \cup {j} /\ j \notin InTree
    BY <1>0, <1>1, <1>2, <2>1, TreeMembers DEF TreeStep
  <2>3. \A i : (BranchOf(i) = BranchOf(i)')
    BY DEF BranchOf
  <2>4. \A i \in InTree' \ crossed' : i = j /\ InTree' = {i} /\ head'.name = BranchOf(i)
    BY <2>2, <1>3
  <2>5. SoFar(j)' /\ job'[j].step \notin {"show", "head"}
    BY <1>0, <1>2 DEF SoFar
  <2>6. ASSUME NEW i \in Tasked \ crossed', job'[i].step = "met"
        PROVE  IsThere(i)' /\ head'.name # BranchOf(i)
    <3>1. i \in Job /\ i # j /\ i \notin crossed /\ job'[i] = job[i] /\ job[i].step = "met"
      BY <2>6, <1>0, <1>2, <1>3 DEF Job
    <3>2. IsThere(i)
      BY <3>1 DEF DeliveryInv, AloneInTree
    <3>3. IsThere(i)'
      BY <3>1, <3>2, <1>3, <1>b DEF IsThere, BranchOf
    <3> QED BY <3>2, <3>3, <1>1, <1>3 DEF IsThere
  <2> QED BY <2>3, <2>4, <2>5, <2>6 DEF AloneInTree
<1> QED BY <1>4, <1>7, <1>8, <1>9, <1>10, <1>11 DEF DeliveryInv
LEMMA TreeStays ==
  ASSUME DeliveryInv, NEW j \in Job, job[j].step \in TreeStep, NEW r,
         job'[j] = r, \A i \in (Job \cup Published) \ {j} : job'[i] = job[i],
         r.step \in TreeStep \ {"show", "head"}, head'.name = head.name, crossed' = crossed,
         j \notin crossed /\ head.name = BranchOf(j) => SoFar(j)',
         \A i \in (Tasked \ crossed) \ {j} : IsThere(i) /\ head.name # BranchOf(i) => IsThere(i)'
  PROVE  AloneInTree'
<1>1. InTree' = {i \in Job : job'[i].step \in TreeStep}
  BY DEF InTree, TreeStep
<1>2. InTree' = InTree /\ j \in InTree
  BY <1>1, TreeMembers
<1>3. ASSUME NEW i \in InTree' \ crossed PROVE i = j /\ InTree' = {i} /\ head.name \in {BranchOf(i), Detached}
  BY <1>2 DEF DeliveryInv, AloneInTree
<1>4. ASSUME NEW i \in Tasked \ crossed, job'[i].step = "met" PROVE IsThere(i)' /\ head.name # BranchOf(i)
  <2>1. i \in Job /\ i # j
    BY <1>4 DEF Job, TreeStep
  <2> QED BY <1>2, <1>4, <2>1 DEF DeliveryInv, AloneInTree
<1>5. \A i : BranchOf(i)' = BranchOf(i)
  BY DEF BranchOf
<1> QED BY <1>3, <1>4, <1>5 DEF AloneInTree

LEMMA WritesKeeps == ASSUME DeliveryInv, NEW j \in Job, Writes(j) PROVE DeliveryInv'
<1>0. PICK r \in DeliveryRecord : Becomes(j, r) /\ Keeps(j, r) /\ r.step = "reread"
  BY DEF Writes
<1>1. DeliveryTypes /\ job[j].step = "write"
  BY DEF DeliveryInv, Writes
<1>2. /\ job' \in [Job \cup Published -> DeliveryRecord]
      /\ job'[j] = r
      /\ \A i \in (Job \cup Published) \ {j} : job'[i] = job[i]
  BY <1>0, <1>1, OnlyOneMoves
<1> DEFINE c == ChangeOf[j]
           p == PathOf[c]
           u == job[j].updated
<1>3. /\ file' = [file EXCEPT ![p] = u]
      /\ staged' = staged /\ commits' = commits /\ branch' = branch /\ head' = head
      /\ answers' = answers /\ crossed' = crossed
  BY DEF Writes
<1>4. p \in Path /\ u \in SUBSET Change
  BY <1>1, DeliveryAssumption DEF DeliveryTypes, DeliveryRecord
<1>5. file' \in Tree /\ file'[p] = u /\ \A q \in Path \ {p} : file'[q] = file[q]
  BY <1>1, <1>3, <1>4 DEF DeliveryTypes, Tree
<1>6. DeliveryTypes'
  BY <1>1, <1>2, <1>3, <1>5 DEF DeliveryTypes
<1>7. \A d : Agreed(d)' <=> Agreed(d)
  BY <1>3 DEF Agreed, Agrees
<1>8. OnlyAgreed'
  <2>1. \A d \in u : Agreed(d)
    BY DEF DeliveryInv, OnlyAgreed
  <2>2. ASSUME NEW q \in Path, NEW d \in file'[q] \cup staged[q] PROVE Agreed(d)
    BY <1>5, <2>1, <2>2 DEF DeliveryInv, OnlyAgreed
  <2>3. ASSUME NEW i \in Job, NEW d \in job'[i].updated PROVE Agreed(d)
    BY <1>0, <1>2, <2>3 DEF DeliveryInv, OnlyAgreed, Keeps
  <2> QED BY <1>3, <1>7, <2>2, <2>3 DEF DeliveryInv, OnlyAgreed
<1>9. AgreedBeforeActing'
  <2>1. AgreedBeforeActing /\ Agrees(j)
    BY <1>1 DEF DeliveryInv, AgreedBeforeActing, TreeStep
  <2>2. r.step \notin {"propose", "pending"}
    BY <1>0
  <2> QED BY <1>2, <1>3, <2>1, <2>2, StillAgreed
<1>10. BranchBeforeCommit' /\ OneCommitEach'
  BY <1>0, <1>1, <1>2, <1>3 DEF DeliveryInv, BranchBeforeCommit, OneCommitEach, BranchOf, TreeStep
<1>11. AloneInTree'
  <2>1. job[j].step \in TreeStep /\ r.step \in TreeStep \ {"show", "head"}
    BY <1>0, <1>1 DEF TreeStep
  <2>2. j \notin crossed /\ head.name = BranchOf(j) => c \in u
    BY <1>1, <2>1, TreeMembers DEF DeliveryInv, AloneInTree, SoFar
  <2>3. j \notin crossed /\ head.name = BranchOf(j) => SoFar(j)'
    BY <1>0, <1>2, <1>5, <2>2 DEF SoFar
  <2>4. \A i \in Tasked \ {j} : IsThere(i) => IsThere(i)'
    BY <1>2, <1>3 DEF IsThere, BranchOf, Job
  <2> QED BY <1>2, <1>3, <2>1, <2>3, <2>4, TreeStays
<1> QED BY <1>6, <1>8, <1>9, <1>10, <1>11 DEF DeliveryInv

LEMMA StagesKeeps == ASSUME DeliveryInv, NEW j \in Job, Stages(j) PROVE DeliveryInv'
<1>0. PICK r \in DeliveryRecord : Becomes(j, r) /\ Keeps(j, r) /\ r.step = "commit"
  BY DEF Stages
<1>1. DeliveryTypes /\ job[j].step = "add"
  BY DEF DeliveryInv, Stages
<1>2. /\ job' \in [Job \cup Published -> DeliveryRecord]
      /\ job'[j] = r
      /\ \A i \in (Job \cup Published) \ {j} : job'[i] = job[i]
  BY <1>0, <1>1, OnlyOneMoves
<1> DEFINE c == ChangeOf[j]
           p == PathOf[c]
<1>3. /\ staged' = [staged EXCEPT ![p] = file[p]]
      /\ file' = file /\ commits' = commits /\ branch' = branch /\ head' = head
      /\ answers' = answers /\ crossed' = crossed
  BY DEF Stages
<1>4. p \in Path
  BY DeliveryAssumption
<1>5. staged' \in Tree /\ staged'[p] = file[p] /\ \A q \in Path \ {p} : staged'[q] = staged[q]
  BY <1>1, <1>3, <1>4 DEF DeliveryTypes, Tree
<1>6. DeliveryTypes'
  BY <1>1, <1>2, <1>3, <1>5 DEF DeliveryTypes
<1>7. \A d : Agreed(d)' <=> Agreed(d)
  BY <1>3 DEF Agreed, Agrees
<1>8. OnlyAgreed'
  <2>1. ASSUME NEW q \in Path, NEW d \in file[q] \cup staged'[q] PROVE Agreed(d)
    BY <1>4, <1>5, <2>1 DEF DeliveryInv, OnlyAgreed
  <2>2. ASSUME NEW i \in Job, NEW d \in job'[i].updated PROVE Agreed(d)
    BY <1>0, <1>2, <2>2 DEF DeliveryInv, OnlyAgreed, Keeps
  <2> QED BY <1>3, <1>7, <2>1, <2>2 DEF DeliveryInv, OnlyAgreed
<1>9. AgreedBeforeActing'
  <2>1. AgreedBeforeActing /\ Agrees(j)
    BY <1>1 DEF DeliveryInv, AgreedBeforeActing, TreeStep
  <2>2. r.step \notin {"propose", "pending"}
    BY <1>0
  <2> QED BY <1>2, <1>3, <2>1, <2>2, StillAgreed
<1>10. BranchBeforeCommit' /\ OneCommitEach'
  BY <1>0, <1>1, <1>2, <1>3 DEF DeliveryInv, BranchBeforeCommit, OneCommitEach, BranchOf, TreeStep
<1>11. AloneInTree'
  <2>1. job[j].step \in TreeStep /\ r.step \in TreeStep \ {"show", "head"}
    BY <1>0, <1>1 DEF TreeStep
  <2>2. j \notin crossed /\ head.name = BranchOf(j) => c \in file[p]
    BY <1>1, <2>1, TreeMembers DEF DeliveryInv, AloneInTree, SoFar
  <2>3. j \notin crossed /\ head.name = BranchOf(j) => SoFar(j)'
    BY <1>0, <1>2, <1>5, <2>2 DEF SoFar
  <2>4. \A i \in Tasked \ {j} : IsThere(i) => IsThere(i)'
    BY <1>2, <1>3 DEF IsThere, BranchOf, Job
  <2> QED BY <1>2, <1>3, <2>1, <2>3, <2>4, TreeStays
<1> QED BY <1>6, <1>8, <1>9, <1>10, <1>11 DEF DeliveryInv

LEMMA CommitsKeeps == ASSUME DeliveryInv, NEW j \in Job, Commits(j) PROVE DeliveryInv'
<1>0. PICK r \in DeliveryRecord : Becomes(j, r) /\ Keeps(j, r) /\ r.step = "sha"
  BY DEF Commits
<1>1. DeliveryTypes /\ job[j].step = "commit"
  BY DEF DeliveryInv, Commits
<1>2. /\ job' \in [Job \cup Published -> DeliveryRecord]
      /\ job'[j] = r
      /\ \A i \in (Job \cup Published) \ {j} : job'[i] = job[i]
  BY <1>0, <1>1, OnlyOneMoves
<1> DEFINE k == Len(commits)
           n == k + 1
           e == [parent |-> HeadCommit, files |-> staged, by |-> j]
<1>3. /\ file' = file /\ staged' = staged /\ answers' = answers /\ crossed' = crossed
      /\ commits' = Append(commits, e)
      /\ branch' = IF head.name = Detached THEN branch ELSE [branch EXCEPT ![head.name] = n]
      /\ head' = [head EXCEPT !.at = n]
  BY DEF Commits
<1>4. e \in [parent : Nat, files : Tree, by : Job \cup {"upstream"}] /\ e.files = staged /\ e.by = j
  BY <1>1, HeadIsACommit DEF DeliveryTypes
<1>5. k \in Nat /\ k >= 1 /\ n \in Nat /\ n \in 1..n /\ 1..k \subseteq 1..n
      /\ \A m \in 1..n : m \in 1..k \/ m = n
  <2>1. k \in Nat /\ k >= 1
    BY <1>1 DEF DeliveryTypes
  <2> HIDE DEF k
  <2> QED BY <2>1
<1>6. /\ commits' \in Seq([parent : Nat, files : Tree, by : Job \cup {"upstream"}]) /\ Len(commits') = n
      /\ commits'[n] = e /\ \A m \in 1..k : commits'[m] = commits[m]
  <2> HIDE DEF e
  <2> QED BY <1>1, <1>3, <1>4 DEF DeliveryTypes
<1>7. /\ DOMAIN branch' = DOMAIN branch
      /\ \A b \in DOMAIN branch : branch'[b] = IF b = head.name THEN n ELSE branch[b]
  <2>1. head.name = Detached => head.name \notin DOMAIN branch
    BY <1>1 DEF DeliveryTypes, BranchName, BranchOf, Detached, Main
  <2> HIDE DEF n
  <2> QED BY <1>3, <2>1
<1>8. head'.name = head.name /\ head'.at = n
  <2>1. \E s, t : head = [name |-> s, at |-> t]
    BY <1>1 DEF DeliveryTypes
  <2> QED BY <1>3
<1> HIDE DEF e
<1>9. DeliveryTypes'
  <2>1. DOMAIN branch' \subseteq BranchName /\ \A b \in DOMAIN branch' : branch'[b] \in 1..n
    BY <1>1, <1>5, <1>7 DEF DeliveryTypes
  <2>2. BranchName' = BranchName
    BY DEF BranchName, BranchOf
  <2>3. head'.name \in DOMAIN branch' \cup {Detached} /\ head'.at \in 1..n
    BY <1>1, <1>5, <1>7, <1>8 DEF DeliveryTypes
  <2>4. n >= 1
    BY <1>5
  <2> HIDE DEF n
  <2> QED BY <1>1, <1>2, <1>3, <1>6, <2>1, <2>2, <2>3, <2>4 DEF DeliveryTypes
<1>10. \A d : Agreed(d)' <=> Agreed(d)
  BY <1>3 DEF Agreed, Agrees
<1> HIDE DEF n, k
<1>11. OnlyAgreed'
  <2>1. ASSUME NEW m \in 1..n, NEW q \in Path, NEW d \in commits'[m].files[q] PROVE Agreed(d)
    BY <1>4, <1>5, <1>6, <2>1 DEF DeliveryInv, OnlyAgreed, k
  <2>2. ASSUME NEW i \in Job, NEW d \in job'[i].updated PROVE Agreed(d)
    BY <1>0, <1>2, <2>2 DEF DeliveryInv, OnlyAgreed, Keeps
  <2> QED BY <1>3, <1>6, <1>10, <2>1, <2>2 DEF DeliveryInv, OnlyAgreed
<1>12. AgreedBeforeActing'
  <2>1. AgreedBeforeActing /\ Agrees(j)
    BY <1>1 DEF DeliveryInv, AgreedBeforeActing, TreeStep
  <2>2. r.step \notin {"propose", "pending"}
    BY <1>0
  <2> QED BY <1>2, <1>3, <2>1, <2>2, StillAgreed
<1>13. BranchBeforeCommit'
  <2>1. BranchOf(j) \in DOMAIN branch
    BY <1>1 DEF DeliveryInv, BranchBeforeCommit, TreeStep
  <2>2. ASSUME NEW m \in 1..n, commits'[m].by \in Job PROVE BranchOf(commits'[m].by) \in DOMAIN branch
    BY <1>4, <1>5, <1>6, <2>1, <2>2 DEF DeliveryInv, BranchBeforeCommit, k
  <2>3. ASSUME NEW i \in Job, job'[i].step \in TreeStep \cup {"applied", "met", "unmet"}
        PROVE  BranchOf(i) \in DOMAIN branch
    BY <1>2, <2>1, <2>3 DEF DeliveryInv, BranchBeforeCommit
  <2>4. \A i : BranchOf(i)' = BranchOf(i)
    BY DEF BranchOf
  <2> QED BY <1>6, <1>7, <2>2, <2>3, <2>4 DEF BranchBeforeCommit
<1>14. OneCommitEach'
  <2>1. \A m \in 1..k : commits[m].by # j
    BY <1>1 DEF DeliveryInv, OneCommitEach, k
  <2>2. ASSUME NEW l \in 1..n, NEW m \in 1..n, commits'[l].by = commits'[m].by, commits'[l].by \in Job PROVE l = m
    BY <1>4, <1>5, <1>6, <2>1, <2>2 DEF DeliveryInv, OneCommitEach, k
  <2>3. ASSUME NEW i \in Job, job'[i].step \in {"validate", "read", "write", "reread", "add", "commit"},
               NEW m \in 1..n
        PROVE  commits'[m].by # i
    <3>1. i # j /\ job'[i] = job[i]
      BY <1>0, <1>2, <2>3
    <3>2. \A l \in 1..k : commits[l].by # i
      BY <2>3, <3>1 DEF DeliveryInv, OneCommitEach, k
    <3>3. CASE m \in 1..k
      BY <1>6, <3>2, <3>3
    <3>4. CASE m = n
      BY <1>4, <1>6, <3>1, <3>4
    <3> QED BY <1>5, <3>3, <3>4
  <2> QED BY <1>6, <2>2, <2>3 DEF OneCommitEach
<1>15. AloneInTree'
  <2>1. job[j].step \in TreeStep /\ r.step \in TreeStep \ {"show", "head"}
    BY <1>0, <1>1 DEF TreeStep
  <2>2. j \notin crossed /\ head.name = BranchOf(j) => ChangeOf[j] \in staged[PathOf[ChangeOf[j]]]
    BY <1>1, <2>1, TreeMembers DEF DeliveryInv, AloneInTree, SoFar
  <2>3. BranchOf(j) \in DOMAIN branch
    BY <1>1 DEF DeliveryInv, BranchBeforeCommit, TreeStep
  <2>4. j \notin crossed /\ head.name = BranchOf(j) => SoFar(j)'
    BY <1>0, <1>2, <1>4, <1>6, <1>7, <2>2, <2>3 DEF SoFar, BranchOf
  <2>5. ASSUME NEW i \in Tasked \ {j}, IsThere(i), head.name # BranchOf(i) PROVE IsThere(i)'
    <3>1. i \in Job /\ job'[i] = job[i]
      BY <1>2 DEF Job
    <3>2. branch'[BranchOf(i)] = branch[BranchOf(i)] /\ BranchOf(i) \in DOMAIN branch'
      BY <1>7, <2>5 DEF IsThere
    <3>3. job[i].commit \in 1..k
      BY <1>1, <2>5 DEF IsThere, DeliveryTypes, k
    <3> QED BY <1>6, <2>5, <3>1, <3>2, <3>3 DEF IsThere, BranchOf
  <2> QED BY <1>2, <1>3, <1>8, <2>1, <2>4, <2>5, TreeStays
<1> QED BY <1>9, <1>11, <1>12, <1>13, <1>14, <1>15 DEF DeliveryInv
LEMMA CrashKeeps == ASSUME DeliveryInv, Crash PROVE DeliveryInv'
<1> DEFINE D == InTree \cup {i \in Job : Doing(i, "branch") \/ Doing(i, "pending")}
<1>1. DeliveryTypes
  BY DEF DeliveryInv
<1>2. DOMAIN job = Job \cup Published /\ D \subseteq Job
  BY <1>1 DEF DeliveryTypes, InTree
<1>3. /\ file' = file /\ staged' = staged /\ commits' = commits /\ branch' = branch /\ head' = head
      /\ answers' = answers /\ crossed' = crossed
      /\ job' = [j \in DOMAIN job |-> IF j \in D THEN [job[j] EXCEPT !.step = IF j \in Asked THEN "lost" ELSE "error"]
                                               ELSE job[j]]
  BY DEF Crash, gitVars
<1>4. ASSUME NEW j \in Job \cup Published
      PROVE  /\ job'[j] \in DeliveryRecord /\ Keeps(j, job'[j])
             /\ j \in D => job'[j].step = IF j \in Asked THEN "lost" ELSE "error"
             /\ j \notin D => job'[j] = job[j]
  <2>1. CASE j \in D
    <3> DEFINE o == job[j]
               s == IF j \in Asked THEN "lost" ELSE "error"
    <3>1. o \in DeliveryRecord /\ s \in DeliveryStep
      BY <1>1 DEF DeliveryTypes, DeliveryStep
    <3>2. job'[j] = [o EXCEPT !.step = s]
      BY <1>2, <1>3, <2>1
    <3>3. s = IF j \in Asked THEN "lost" ELSE "error"
      OBVIOUS
    <3> HIDE DEF D, o, s
    <3>4. job'[j] \in DeliveryRecord /\ job'[j].step = s /\ job'[j].updated = o.updated /\ job'[j].commit = o.commit
      BY <3>1, <3>2 DEF DeliveryRecord
    <3> QED BY <2>1, <3>3, <3>4 DEF Keeps, o
  <2>2. CASE j \notin D
    <3>1. job'[j] = job[j]
      BY <1>2, <1>3, <2>2
    <3> QED BY <1>1, <2>2, <3>1 DEF Keeps, DeliveryTypes
  <2> QED BY <2>1, <2>2
<1>5. job' \in [Job \cup Published -> DeliveryRecord]
  <2>1. DOMAIN job' = Job \cup Published /\ job' = [j \in DOMAIN job' |-> job'[j]]
    BY <1>2, <1>3
  <2> QED BY <1>4, <2>1
<1>6. DeliveryTypes'
  BY <1>1, <1>3, <1>5 DEF DeliveryTypes
<1>7. \A i : (Agrees(i)' <=> Agrees(i)) /\ (Agreed(i)' <=> Agreed(i)) /\ BranchOf(i)' = BranchOf(i)
  BY <1>3 DEF Agreed, Agrees, BranchOf
<1>8. OnlyAgreed'
  BY <1>3, <1>4, <1>7 DEF DeliveryInv, OnlyAgreed, Keeps
<1>9. \A i \in D : job[i].step \in TreeStep \cup {"branch", "pending"}
  BY TreeMembers DEF Doing
<1>10. \A i \in Job : job[i].step \in TreeStep \cup {"branch", "pending"} => i \in D
  BY TreeMembers DEF Doing
<1> HIDE DEF D
<1>11. AgreedBeforeActing'
  <2>1. ASSUME NEW i \in Job, job'[i].step \in TreeStep \cup {"start", "branch", "error"} PROVE Agrees(i)
    <3>1. CASE i \in D
      <4>1. i \notin Asked
        BY <1>4, <2>1, <3>1 DEF TreeStep
      <4>2. job[i].step \in TreeStep \cup {"branch"}
        BY <1>9, <3>1, <4>1 DEF DeliveryInv, AgreedBeforeActing
      <4> QED BY <4>2 DEF DeliveryInv, AgreedBeforeActing
    <3>2. CASE i \notin D
      BY <1>4, <2>1, <3>2 DEF DeliveryInv, AgreedBeforeActing
    <3> QED BY <3>1, <3>2
  <2>2. ASSUME NEW i \in Asked, job'[i].step \in {"propose", "pending"} PROVE answers[i] = << >>
    <3>1. i \in Job /\ i \notin D
      BY <1>4, <2>2 DEF Job
    <3> QED BY <1>4, <2>2, <3>1 DEF DeliveryInv, AgreedBeforeActing
  <2>3. ASSUME NEW i \in Job, job'[i].step = "pending" PROVE i \in Asked
    <3>1. i \notin D
      BY <1>4, <2>3
    <3> QED BY <1>4, <2>3, <3>1 DEF DeliveryInv, AgreedBeforeActing
  <2> QED BY <1>3, <1>7, <2>1, <2>2, <2>3 DEF AgreedBeforeActing
<1>12. \A i \in Job : job'[i].step \in TreeStep \cup {"applied", "met", "unmet"} => i \notin D
  BY <1>4 DEF TreeStep
<1>13. BranchBeforeCommit'
  BY <1>3, <1>4, <1>7, <1>12 DEF DeliveryInv, BranchBeforeCommit
<1>14. OneCommitEach'
  BY <1>3, <1>4, <1>12 DEF DeliveryInv, OneCommitEach, TreeStep
<1>15. AloneInTree'
  <2>1. InTree' = {i \in Job : job'[i].step \in TreeStep}
    BY DEF InTree, TreeStep
  <2>2. InTree' = {}
    BY <1>4, <1>10, <1>12, <2>1
  <2>3. ASSUME NEW i \in Tasked \ crossed, job'[i].step = "met" PROVE IsThere(i)'
    <3>1. i \in Job /\ job'[i] = job[i]
      BY <1>4, <1>12, <2>3 DEF Job
    <3>2. IsThere(i)
      BY <2>3, <3>1 DEF DeliveryInv, AloneInTree
    <3> QED BY <1>3, <3>1, <3>2 DEF IsThere, BranchOf
  <2> QED BY <1>3, <2>2, <2>3 DEF AloneInTree
<1> QED BY <1>6, <1>8, <1>11, <1>13, <1>14, <1>15 DEF DeliveryInv

LEMMA RefreshKeeps == ASSUME DeliveryInv, Refresh PROVE DeliveryInv'
<1>1. DeliveryTypes
  BY DEF DeliveryInv
<1>2. /\ commits' = commits /\ branch' = branch /\ job' = job /\ answers' = answers /\ crossed' = crossed
      /\ file' = commits[1].files /\ staged' = commits[1].files
      /\ head' = [name |-> Detached, at |-> 1]
  BY DEF Refresh, Root
<1>3. 1 \in 1..Len(commits) /\ commits[1].files \in Tree
  <2> DEFINE k == Len(commits)
  <2>1. k \in Nat /\ k >= 1
    BY <1>1 DEF DeliveryTypes
  <2>2. 1 \in 1..k
    <3> HIDE DEF k
    <3> QED BY <2>1
  <2> DEFINE E == [parent : Nat, files : Tree, by : Job \cup {"upstream"}]
  <2>3. commits[1] \in E
    <3>1. commits \in Seq(E)
      BY <1>1 DEF DeliveryTypes
    <3> HIDE DEF E
    <3> QED BY <2>2, <3>1
  <2> QED BY <2>2, <2>3
<1>4. DeliveryTypes'
  BY <1>1, <1>2, <1>3 DEF DeliveryTypes
<1>5. \A i : (Agrees(i)' <=> Agrees(i)) /\ (Agreed(i)' <=> Agreed(i)) /\ BranchOf(i)' = BranchOf(i)
  BY <1>2 DEF Agreed, Agrees, BranchOf
<1>6. OnlyAgreed'
  BY <1>2, <1>3, <1>5 DEF DeliveryInv, OnlyAgreed
<1>7. AgreedBeforeActing' /\ BranchBeforeCommit' /\ OneCommitEach'
  BY <1>2, <1>5 DEF DeliveryInv, AgreedBeforeActing, BranchBeforeCommit, OneCommitEach
<1>8. \A i : Detached # BranchOf(i)
  BY DEF Detached, BranchOf
<1>9. AloneInTree'
  <2>1. InTree' = InTree
    BY <1>2 DEF InTree
  <2>2. \A i \in Tasked : IsThere(i) => IsThere(i)'
    BY <1>2, <1>5 DEF IsThere
  <2> QED BY <1>2, <1>5, <1>8, <2>1, <2>2 DEF DeliveryInv, AloneInTree
<1> QED BY <1>4, <1>6, <1>7, <1>9 DEF DeliveryInv

LEMMA DeliveryInitially == ASSUME DeliveryInit PROVE DeliveryInv
<1>1. PICK crew \in Crews : job = [j \in Job \cup Published |->
       [step |-> IF j \notin crew THEN "absent" ELSE IF j \in Published THEN "publish" ELSE "propose",
        attempts |-> 0, updated |-> {}, commit |-> 0]]
  BY DEF DeliveryInit
<1>2. /\ file = Clean /\ staged = Clean /\ head = [name |-> Main, at |-> 1]
      /\ commits = <<[parent |-> 0, files |-> Clean, by |-> "upstream"]>>
      /\ branch = [b \in {Main} |-> 1] /\ answers = [j \in Asked |-> << >>] /\ crossed = {}
  BY DEF DeliveryInit, Root
<1>3. \A j \in Job \cup Published : /\ job[j] \in DeliveryRecord /\ job[j].updated = {}
                                  /\ job[j].step \in {"absent", "publish", "propose"}
  BY <1>1 DEF DeliveryRecord, DeliveryStep
<1>4. job \in [Job \cup Published -> DeliveryRecord]
  BY <1>1, <1>3
<1>5. Clean \in Tree /\ \A p \in Path : Clean[p] = {}
  BY DEF Clean, Tree
<1>6. /\ commits \in Seq([parent : Nat, files : Tree, by : Job \cup {"upstream"}]) /\ Len(commits) = 1
      /\ commits[1].files = Clean /\ commits[1].by = "upstream"
  <2> DEFINE e == [parent |-> 0, files |-> Clean, by |-> "upstream"]
  <2>1. e \in [parent : Nat, files : Tree, by : Job \cup {"upstream"}] /\ e.files = Clean /\ e.by = "upstream"
    BY <1>5
  <2>2. commits = <<e>>
    BY <1>2
  <2> HIDE DEF e
  <2> QED BY <2>1, <2>2
<1>7. 1..1 = {1}
  OBVIOUS
<1>8. DeliveryTypes
  BY <1>2, <1>4, <1>5, <1>6, <1>7 DEF DeliveryTypes, BranchName
<1>9. OnlyAgreed
  BY <1>2, <1>3, <1>5, <1>6, <1>7 DEF OnlyAgreed
<1>10. AgreedBeforeActing
  BY <1>2, <1>3 DEF AgreedBeforeActing, TreeStep
<1>11. BranchBeforeCommit /\ OneCommitEach
  BY <1>3, <1>6, <1>7, DeliveryAssumption DEF BranchBeforeCommit, OneCommitEach, TreeStep
<1>12. AloneInTree
  <2>1. InTree = {}
    BY <1>3, TreeMembers DEF TreeStep
  <2>2. \A i \in Tasked : job[i].step # "met"
    BY <1>3 DEF Job
  <2> QED BY <2>1, <2>2 DEF AloneInTree
<1> QED BY <1>8, <1>9, <1>10, <1>11, <1>12 DEF DeliveryInv

LEMMA DeliveryKeeps == DeliveryInv /\ [DeliveryNext]_deliveryVars => DeliveryInv'
<1> SUFFICES ASSUME DeliveryInv, [DeliveryNext]_deliveryVars PROVE DeliveryInv'
  OBVIOUS
<1>1. CASE DeliveryNext
  <2>1. DeliveryTypes
    BY DEF DeliveryInv
  <2> QED BY <1>1, <2>1, DeliveryStepCases, QuietKeeps, DecidesKeeps, RefusedKeeps, BranchesKeeps, WritesKeeps,
             StagesKeeps, CommitsKeeps, CrashKeeps, RefreshKeeps
<1>2. CASE UNCHANGED deliveryVars
  <2>1. /\ file' = file /\ staged' = staged /\ commits' = commits /\ branch' = branch /\ head' = head
        /\ answers' = answers /\ crossed' = crossed /\ job' = job
    BY <1>2 DEF deliveryVars, gitVars
  <2>2. DeliveryTypes'
    BY <2>1 DEF DeliveryInv, DeliveryTypes
  <2>3. \A i : /\ (Agrees(i)' <=> Agrees(i)) /\ (Agreed(i)' <=> Agreed(i)) /\ BranchOf(i)' = BranchOf(i)
               /\ (IsThere(i)' <=> IsThere(i)) /\ (SoFar(i)' <=> SoFar(i))
    BY <2>1 DEF Agreed, Agrees, BranchOf, IsThere, SoFar, Anchored
  <2>4. OnlyAgreed' /\ AgreedBeforeActing' /\ BranchBeforeCommit' /\ OneCommitEach'
    BY <2>1, <2>3 DEF DeliveryInv, OnlyAgreed, AgreedBeforeActing, BranchBeforeCommit, OneCommitEach
  <2>5. AloneInTree'
    BY <2>1, <2>3 DEF DeliveryInv, AloneInTree, InTree
  <2> QED BY <2>2, <2>4, <2>5 DEF DeliveryInv
<1> QED BY <1>1, <1>2

\* The invariant of the deliveries: what was agreed to, what has a branch, what has a commit, and
\* how far a delivery is that has the tree to itself.
THEOREM DeliveryIsOrderly == DeliverySpec => []DeliveryInv
BY DeliveryInitially, DeliveryKeeps, PTL DEF DeliverySpec

\* No commit holds a change nobody agreed to, whatever lay in the tree (deliver, propose).
THEOREM EveryCommitWasAgreed == DeliverySpec => []CommitsWereAgreed
<1>1. DeliveryInv => CommitsWereAgreed
  <2> SUFFICES ASSUME DeliveryInv PROVE CommitsWereAgreed
    OBVIOUS
  <2>1. DOMAIN commits = 1..Len(commits)
    BY DEF DeliveryInv, DeliveryTypes
  <2> QED BY <2>1 DEF DeliveryInv, OnlyAgreed, Agreed, Agrees, CommitsWereAgreed
<1> QED BY <1>1, DeliveryIsOrderly, PTL

\* A delivery commits at most once, over retries, crashes and resets (OpenPullRequest).
THEOREM NothingDeliveredTwice == DeliverySpec => []DeliveredOnce
<1>1. DeliveryInv => DeliveredOnce
  <2> SUFFICES ASSUME DeliveryInv, NEW j \in Job PROVE Cardinality({n \in DOMAIN commits : commits[n].by = j}) <= 1
    BY DEF DeliveredOnce
  <2> DEFINE S == {n \in DOMAIN commits : commits[n].by = j}
  <2>1. DOMAIN commits = 1..Len(commits)
    BY DEF DeliveryInv, DeliveryTypes
  <2>2. \A m, n \in S : m = n
    BY <2>1 DEF DeliveryInv, OneCommitEach
  <2> HIDE DEF S
  <2>3. S = {} \/ \E n : S = {n}
    BY <2>2
  <2>4. Cardinality(S) \in {0, 1}
    <3>1. CASE S = {}
      BY <3>1, FS_EmptySet
    <3>2. CASE \E n : S = {n}
      BY <3>2, FS_Singleton
    <3> QED BY <2>3, <3>1, <3>2
  <2> QED BY <2>4 DEF S
<1> QED BY <1>1, DeliveryIsOrderly, PTL

\* What verified is the head of its branch and holds its change, if no other delivery crossed it
\* (Verify).
THEOREM VerifiedIsDelivered == DeliverySpec => []VerifiedMeansDelivered
<1>1. DeliveryInv => VerifiedMeansDelivered
  BY DEF DeliveryInv, AloneInTree, IsThere, VerifiedMeansDelivered, Doing
<1> QED BY <1>1, DeliveryIsOrderly, PTL

==============================================================================
