--------------------------- MODULE TimelineProofs ---------------------------
(***************************************************************************)
(* What the timeline says of a running run, for every plan and every       *)
(* traffic.                                                                *)
(*                                                                         *)
(* The promise about a ready task needs more than the readiness rule that  *)
(* Claim checks: a task becomes ready only by being handed back or         *)
(* approved, so it had begun, and what it needed then is settled for good. *)
(* The rest follows from the states of the graph alone.                    *)
(*                                                                         *)
(* Then the other half of the page: what it tells of the diary of the run, *)
(* whoever writes in it meanwhile.                                         *)
(***************************************************************************)
EXTENDS Timeline, Records, DagAlgorithms, RunStoreProofs, FiniteSetTheorems, SequenceTheorems, NaturalsInduction, WellFoundedInduction

ReadySettled ==
  \A t \in Task : state[t] = "ready" =>
    /\ \A d \in DependsOn[t] : state[d] = "succeeded"
    /\ \A d \in Contributes[t] : Settled(d)

LEMMA ReadyAfterBeginning ==
  ASSUME StoreInv, [StoreNext]_storeVars, NEW t \in Task, state'[t] = "ready"
  PROVE  state[t] = "ready" \/ Begun(t)
<1>. USE StoreConstants DEF StoreInv, StoreTypeOK, Begun, Started
<1>1. CASE AnySave
  BY <1>1 DEF AnySave, ClientSave, SaveGoal, taskVars, leaseVars
<1>2. CASE AnyCancel
  BY <1>2 DEF AnyCancel, Cancel, leaseVars
<1>3. CASE AnyGrow
  BY <1>3 DEF AnyGrow, ClientGrow, SaveDAG, leaseVars
<1>4. CASE AnyClaim
  BY <1>4 DEF AnyClaim, ClientClaim, Claim
<1>5. CASE AnyRenew
  BY <1>5 DEF AnyRenew, Renew
<1>6. CASE AnyComplete
  BY <1>6 DEF AnyComplete, Complete, Outcome
<1>7. CASE AnyRelease
  BY <1>7 DEF AnyRelease, Release, Held
<1>8. CASE AnyDecide
  BY <1>8 DEF AnyDecide, Decide
<1>9. CASE AnySweep
  BY <1>9 DEF AnySweep, Sweep, leaseVars
<1>10. CASE AnyDeath
  BY <1>10 DEF AnyDeath, ClientsDie, Vanish, taskVars, leaseVars
<1>11. CASE Tick
  BY <1>11 DEF Tick, taskVars, leaseVars
<1>12. CASE UNCHANGED storeVars
  BY <1>12 DEF storeVars, taskVars, leaseVars
<1>. QED
  BY <1>1, <1>2, <1>3, <1>4, <1>5, <1>6, <1>7, <1>8, <1>9, <1>10, <1>11, <1>12, StoreStepCases

LEMMA StepKeepsReadySettled ==
  ASSUME StoreInv, ReadySettled, [StoreNext]_storeVars
  PROVE  ReadySettled'
<1>. SUFFICES ASSUME NEW t \in Task, state'[t] = "ready"
              PROVE  /\ \A d \in DependsOn[t] : state'[d] = "succeeded"
                     /\ \A d \in Contributes[t] : Settled(d)'
  BY DEF ReadySettled
<1>1. DependsOn[t] \subseteq Task /\ Contributes[t] \subseteq Task
  BY PlanShape
<1>2. /\ \A d \in DependsOn[t] : state[d] = "succeeded"
      /\ \A d \in Contributes[t] : Settled(d)
  BY ReadyAfterBeginning DEF ReadySettled, StoreInv, PrerequisitesSettled
<1>3. \A d \in DependsOn[t] : Settled(d)
  BY <1>1, <1>2 DEF StoreInv, LeaseOnRunning, Settled, Terminal
<1>4. \A d \in Task : Settled(d) => state'[d] = state[d] /\ leasedBy'[d] = leasedBy[d]
  BY SettledStaysPut
<1>. QED
  BY <1>1, <1>2, <1>3, <1>4 DEF Settled

-----------------------------------------------------------------------------
(***************************************************************************)
(* What a sentence implies.                                                *)
(***************************************************************************)
LEMMA SentenceOfState ==
  ASSUME StoreTypeOK, NEW t \in Listed(state)
  PROVE  /\ state[t] \in {"pending", "ready", "running", "awaiting_approval", "blocked"}
         /\ Why(state, t) \in Promised <=>
              state[t] = "ready" \/ (state[t] = "pending" /\ Waiting(state, t) = {})
         /\ Why(state, t) = "waiting on other tasks" <=> state[t] = "pending" /\ Waiting(state, t) # {}
         /\ Why(state, t) = "running now" <=> state[t] = "running"
         /\ Why(state, t) = "waiting for a person" <=> state[t] = "awaiting_approval"
<1>1. state[t] \in {"pending", "ready", "running", "awaiting_approval", "blocked"}
  BY DEF StoreTypeOK, Listed, Over, TaskState, Terminal, Absent
<1>. QED
  BY <1>1 DEF Why, Promised

\* Nothing is waited for and nothing needed has failed: it can be claimed.
LEMMA NothingToWaitFor ==
  ASSUME StoreTypeOK, Propagated(state), NEW t \in Task, state[t] = "pending", Waiting(state, t) = {}
  PROVE  DependenciesSucceeded(state, t)
<1>1. Unfinished(state, t)
  BY DEF Unfinished, Absent, Terminal
<1>2. \A d \in DependsOn[t] : state[d] \notin Dead
  BY <1>1 DEF Propagated, NeedsDead
<1>3. \A d \in DependsOn[t] \cup Contributes[t] : state[d] \in Over
  BY DEF Waiting, Edges
<1>. QED
  BY <1>2, <1>3 DEF DependenciesSucceeded, Over, Dead, Terminal

LEMMA SomethingToWaitFor ==
  ASSUME NEW t \in Task, Waiting(state, t) # {}, ~WaitsInNameOnly(state, t)
  PROVE  ~DependenciesSucceeded(state, t)
<1>1. PICK d \in DependsOn[t] \cup Contributes[t] : state[d] \notin Over
  BY DEF Waiting, Edges
<1>2. CASE d \in DependsOn[t]
  BY <1>1, <1>2 DEF DependenciesSucceeded, Over
<1>3. CASE d \in Contributes[t]
  BY <1>1, <1>3 DEF DependenciesSucceeded, Over, Terminal, WaitsInNameOnly
<1>. QED
  BY <1>1, <1>2, <1>3

LEMMA PromiseIsKept ==
  ASSUME StoreTypeOK, ReadySettled, Propagated(state), NEW t \in Listed(state),
         Why(state, t) \in Promised
  PROVE  DependenciesSucceeded(state, t)
<1>1. CASE state[t] = "ready"
  BY <1>1 DEF ReadySettled, DependenciesSucceeded, Settled, Listed
<1>2. CASE state[t] = "pending" /\ Waiting(state, t) = {}
  BY <1>2, NothingToWaitFor DEF Listed
<1>. QED
  BY <1>1, <1>2, SentenceOfState

\* A task may run exactly when its sentence promises it.
LEMMA ReadyIsPromised ==
  ASSUME StoreTypeOK, ReadySettled, Propagated(state),
         \A t \in Listed(state) : ~WaitsInNameOnly(state, t)
  PROVE  ReadySet(state) = {t \in Listed(state) : Why(state, t) \in Promised}
<1>1. ASSUME NEW t \in ReadySet(state)
      PROVE  t \in Listed(state) /\ Why(state, t) \in Promised
  <2>1. t \in Listed(state) /\ state[t] \in {"pending", "ready"} /\ DependenciesSucceeded(state, t)
    BY DEF ReadySet, Listed, Over, Absent
  <2>2. t \in Task /\ ~WaitsInNameOnly(state, t)
    BY <2>1 DEF Listed
  <2>3. Waiting(state, t) = {}
    BY <2>1, <2>2, SomethingToWaitFor
  <2>. QED
    BY <2>1, <2>3, SentenceOfState
<1>2. ASSUME NEW t \in Listed(state), Why(state, t) \in Promised
      PROVE  t \in ReadySet(state)
  BY <1>2, SentenceOfState, PromiseIsKept DEF ReadySet, Listed
<1>. QED
  BY <1>1, <1>2

LEMMA FewerAreDone ==
  ASSUME StoreTypeOK, IsFiniteSet(Task)
  PROVE  Summary(state).done < Summary(state).total <=> \E t \in Task : Unfinished(state, t)
<1>. DEFINE Done == {t \in Task : state[t] \in Terminal}
            Total == {t \in Task : state[t] # Absent}
<1>1. Done \subseteq Total /\ IsFiniteSet(Total) /\ IsFiniteSet(Done)
  <2>1. Done \subseteq Task /\ Total \subseteq Task /\ Done \subseteq Total
    BY DEF Terminal, Absent
  <2>. QED
    BY <2>1, FS_Subset
<1>2. Cardinality(Done) \in Nat /\ Cardinality(Total) \in Nat /\ Cardinality(Done) <= Cardinality(Total)
  BY <1>1, FS_CardinalityType, FS_Subset
<1>3. Cardinality(Done) = Cardinality(Total) <=> Done = Total
  BY <1>1, FS_Subset
<1>4. Done # Total <=> \E t \in Task : Unfinished(state, t)
  BY <1>1 DEF Unfinished
<1>5. Summary(state).done = Cardinality(Done) /\ Summary(state).total = Cardinality(Total)
  BY DEF Summary
<1>. HIDE DEF Done, Total
<1>. QED
  BY <1>2, <1>3, <1>4, <1>5

-----------------------------------------------------------------------------
LEMMA StalledSaysSo ==
  ASSUME StoreTypeOK, ReadySettled, Propagated(state), IsFiniteSet(Task),
         \A t \in Listed(state) : ~WaitsInNameOnly(state, t)
  PROVE  Summary(state).stalled <=>
           /\ Summary(state).done < Summary(state).total
           /\ \A t \in Listed(state) :
                Why(state, t) \notin Promised \cup {"running now", "waiting for a person"}
<1>1. (\A t \in Task : state[t] \notin {"running", "awaiting_approval"})
        <=> \A t \in Listed(state) : Why(state, t) \notin {"running now", "waiting for a person"}
  <2>1. \A t \in Task : state[t] \in {"running", "awaiting_approval"} => t \in Listed(state)
    BY DEF Listed, Over, Absent
  <2>2. \A t \in Listed(state) : t \in Task
    BY DEF Listed
  <2>. QED
    BY <2>1, <2>2, SentenceOfState
<1>2. ReadySet(state) = {} <=> \A t \in Listed(state) : Why(state, t) \notin Promised
  BY ReadyIsPromised
<1>. QED
  BY <1>1, <1>2, FewerAreDone DEF Summary, Stalled

\* For every finite plan and every traffic: in a running run what the timeline promises is what Claim
\* hands out, and what it says waits is what Claim refuses (but for a blocked contributor); and it
\* calls a run stalled exactly when none of its sentences says that something moves or asks a person.
THEOREM ARunningTimelineTellsTheTruth ==
  ASSUME IsFiniteSet(Task)
  PROVE  StoreSpec => []TimelineExplains
<1>1. StoreInit => ReadySettled
  BY DEF StoreInit, ReadySettled, Absent
<1>2. StoreInv /\ ReadySettled /\ [StoreNext]_storeVars => ReadySettled'
  BY StepKeepsReadySettled
<1>3. StoreInv /\ ReadySettled => TimelineExplains
  <2>. SUFFICES ASSUME StoreInv, ReadySettled PROVE TimelineExplains
    OBVIOUS
  <2>. USE DEF StoreInv
  <2>1. ASSUME NEW t \in Listed(state), Why(state, t) \in Promised, goal.state = "running",
               Propagated(state)
        PROVE  WouldBeClaimed(t)
    <3>1. state[t] \in {"pending", "ready"} /\ t \in Task
      BY <2>1, SentenceOfState DEF Listed
    <3>2. DependenciesSucceeded(state, t)
      BY <2>1, PromiseIsKept
    <3>. QED
      BY <2>1, <3>1, <3>2 DEF WouldBeClaimed, ClaimableSet
  <2>2. ASSUME NEW t \in Listed(state), Why(state, t) = "waiting on other tasks",
               ~WaitsInNameOnly(state, t)
        PROVE  ~WouldBeClaimed(t)
    <3>1. t \in Task /\ Waiting(state, t) # {}
      BY <2>2, SentenceOfState DEF Listed
    <3>2. ~DependenciesSucceeded(state, t)
      BY <2>2, <3>1, SomethingToWaitFor
    <3>. QED
      BY <3>2 DEF WouldBeClaimed, ClaimableSet
  <2>. QED
    BY <2>1, <2>2, StalledSaysSo DEF TimelineExplains
<1>. QED
  BY <1>1, <1>2, <1>3, StoreInvHolds, PTL DEF StoreSpec

-----------------------------------------------------------------------------
(***************************************************************************)
(* The diary.  First sets of numbers: what Ascending makes of one is all   *)
(* of it, in order.  That some member has exactly k below it is shown by   *)
(* the first number with more than k of them below.                        *)
(***************************************************************************)
Below(S, i) == {j \in S : j < i}

LEMMA FirstNumber ==
  ASSUME NEW T, T \subseteq Nat, T # {} PROVE \E m \in T : \A k \in T : m <= k
<1>. DEFINE less == {ss \in Nat \X Nat : ss[1] < ss[2]}
<1>1. IsWellFoundedOn(less, Nat)
  <2>1. OpToRel(<, Nat) = less
    BY DEF OpToRel
  <2>. QED BY <2>1, NatLessThanWellFounded
<1>2. PICK m \in T : \A k \in T : <<k, m>> \notin less
  <2>. HIDE DEF less
  <2>. QED BY <1>1, WFMin
<1>3. ASSUME NEW k \in T PROVE m <= k
  <2>1. k \in Nat /\ m \in Nat
    OBVIOUS
  <2>2. <<k, m>> \in Nat \X Nat /\ <<k, m>>[1] = k /\ <<k, m>>[2] = m
    BY <2>1
  <2>3. ~(k < m)
    BY <1>2, <2>2
  <2>. QED BY <2>1, <2>3
<1>. QED BY <1>3

\* Counting below, in a finite set of numbers.
LEMMA BelowCounts ==
  ASSUME NEW S, S \subseteq Nat, IsFiniteSet(S)
  PROVE  /\ \A i \in Int : IsFiniteSet(Below(S, i)) /\ Cardinality(Below(S, i)) \in Nat
         /\ \A i \in S : Cardinality(Below(S, i)) < Cardinality(S)
         /\ \A i, j \in S : i < j => Cardinality(Below(S, i)) < Cardinality(Below(S, j))
<1>1. ASSUME NEW i \in Int PROVE IsFiniteSet(Below(S, i)) /\ Cardinality(Below(S, i)) \in Nat
  <2>1. Below(S, i) \subseteq S
    BY DEF Below
  <2>. QED BY <2>1, FS_Subset, FS_CardinalityType
<1>2. ASSUME NEW i \in S, NEW U, U \subseteq S, IsFiniteSet(U), Below(S, i) \subseteq U, i \in U
      PROVE  Cardinality(Below(S, i)) < Cardinality(U)
  <2>1. i \notin Below(S, i) /\ i \in Int
    BY DEF Below
  <2>2. Below(S, i) \subseteq U /\ Below(S, i) # U
    BY <1>2, <2>1
  <2>3. /\ Cardinality(Below(S, i)) <= Cardinality(U) /\ Cardinality(Below(S, i)) # Cardinality(U)
        /\ Cardinality(Below(S, i)) \in Nat /\ Cardinality(U) \in Nat
    BY <1>1, <1>2, <2>1, <2>2, FS_Subset, FS_CardinalityType
  <2>. QED BY <2>3
<1>3. ASSUME NEW i \in S PROVE Cardinality(Below(S, i)) < Cardinality(S)
  <2>1. Below(S, i) \subseteq S
    BY DEF Below
  <2>. QED BY <1>2, <2>1
<1>4. ASSUME NEW i \in S, NEW j \in S, i < j PROVE Cardinality(Below(S, i)) < Cardinality(Below(S, j))
  <2>1. /\ Below(S, j) \subseteq S /\ Below(S, i) \subseteq Below(S, j) /\ i \in Below(S, j) /\ j \in Int
    <3>1. \A x \in S : x \in Nat
      OBVIOUS
    <3>2. \A x \in S : x < i => x < j
      BY <1>4, <3>1
    <3>3. j \in Int
      BY <3>1
    <3>4. Below(S, i) \subseteq Below(S, j)
      BY <3>2 DEF Below
    <3>. QED BY <1>4, <3>3, <3>4 DEF Below
  <2>2. IsFiniteSet(Below(S, j))
    BY <1>1, <2>1
  <2>. QED BY <1>2, <2>1, <2>2
<1>. QED BY <1>1, <1>3, <1>4

LEMMA OneWithSoManyBelow ==
  ASSUME NEW S, S \subseteq Nat, IsFiniteSet(S), NEW k \in Nat, k < Cardinality(S), NEW N \in Nat, \A i \in S : i <= N
  PROVE  \E i \in S : Cardinality(Below(S, i)) = k
<1>. DEFINE T == {i \in Nat : Cardinality(Below(S, i)) > k}
<1>0. \A i \in S : i \in Nat
  OBVIOUS
<1>1. N + 1 \in T
  <2>1. Below(S, N + 1) = S
    <3>1. \A i \in S : i < N + 1
      BY <1>0
    <3>. QED BY <3>1 DEF Below
  <2>2. Cardinality(S) \in Nat
    BY FS_CardinalityType
  <2>. QED BY <2>1, <2>2
<1>2. PICK m \in T : \A i \in T : m <= i
  <2>1. T \subseteq Nat /\ T # {}
    BY <1>1
  <2>. HIDE DEF T
  <2>. QED BY <2>1, FirstNumber
<1>3. m \in Nat /\ Cardinality(Below(S, m)) > k
  OBVIOUS
<1>4. m # 0
  <2>1. Below(S, 0) = {}
    <3>1. \A i \in S : ~(i < 0)
      BY <1>0
    <3>. QED BY <3>1 DEF Below
  <2>2. Cardinality(Below(S, 0)) = 0
    BY <2>1, FS_EmptySet
  <2>. QED BY <1>3, <2>2
<1>p. PICK p \in Nat : p + 1 = m
  <2>1. m - 1 \in Nat /\ (m - 1) + 1 = m
    BY <1>3, <1>4
  <2>. QED BY <2>1
<1>5. Cardinality(Below(S, p)) \in Nat /\ IsFiniteSet(Below(S, p)) /\ Cardinality(Below(S, m)) \in Nat
  <2>1. p \in Int /\ m \in Int
    BY <1>3
  <2>. QED BY <2>1, BelowCounts
<1>6. Cardinality(Below(S, p)) <= k
  <2>1. p \notin T
    BY <1>2, <1>3, <1>p
  <2>. QED BY <1>5, <2>1
<1>7. p \in S
  <2>. SUFFICES ASSUME p \notin S PROVE FALSE
    OBVIOUS
  <2>1. Below(S, p) = Below(S, m)
    <3>1. \A i \in S : i < p <=> i < m
      BY <1>0, <1>p
    <3>. QED BY <3>1 DEF Below
  <2>. QED BY <1>3, <1>5, <1>6, <2>1
<1>8. Below(S, m) = Below(S, p) \cup {p} /\ p \notin Below(S, p)
  <2>1. \A i \in S : i < m <=> i < p \/ i = p
    BY <1>0, <1>p
  <2>2. p < m /\ ~(p < p)
    BY <1>p
  <2>. QED BY <1>7, <2>1, <2>2 DEF Below
<1>9. Cardinality(Below(S, m)) = Cardinality(Below(S, p)) + 1
  BY <1>5, <1>8, FS_AddElement
<1>10. Cardinality(Below(S, p)) = k
  BY <1>3, <1>5, <1>6, <1>9
<1>. QED BY <1>7, <1>10

LEMMA AscendingIsInOrder ==
  ASSUME NEW N \in Nat, NEW S, S \subseteq 1..N
  PROVE  /\ IsFiniteSet(S) /\ Cardinality(S) \in Nat /\ DOMAIN Ascending(S) = 1..Cardinality(S)
         /\ \A k \in 1..Cardinality(S) : Ascending(S)[k] \in S
         /\ \A i, j \in 1..Cardinality(S) : i < j => Ascending(S)[i] < Ascending(S)[j]
         /\ \A x \in S : \E k \in 1..Cardinality(S) : Ascending(S)[k] = x
<1>. DEFINE n == Cardinality(S)
            c(i) == Cardinality(Below(S, i))
            a == Ascending(S)
<1>1. IsFiniteSet(S) /\ n \in Nat /\ S \subseteq Nat /\ \A i \in S : i <= N
  <2>1. IsFiniteSet(1..N)
    BY FS_Interval
  <2>2. IsFiniteSet(S)
    BY <2>1, FS_Subset
  <2>. QED BY <2>2, FS_CardinalityType
<1>2. DOMAIN a = 1..n
  BY DEF Ascending
<1>3. ASSUME NEW k \in 1..n PROVE a[k] \in S /\ c(a[k]) = k - 1
  <2>1. a[k] = CHOOSE i \in S : c(i) = k - 1
    BY DEF Ascending, Below
  <2>2. k - 1 \in Nat /\ k - 1 < n
    BY <1>1
  <2>3. \E i \in S : c(i) = k - 1
    BY <1>1, <2>2, OneWithSoManyBelow
  <2>. HIDE DEF a, c
  <2>. QED BY <2>1, <2>3
<1>4. \A i, j \in S : i < j => c(i) < c(j)
  BY <1>1, BelowCounts
<1>5. \A i \in S : c(i) \in Nat /\ c(i) < n /\ i \in Nat
  <2>1. \A i \in S : i \in Nat /\ i \in Int
    BY <1>1
  <2>. QED BY <1>1, <2>1, BelowCounts
<1>. HIDE DEF a, c, n
<1>6. ASSUME NEW i \in 1..n, NEW j \in 1..n, i < j PROVE a[i] < a[j]
  <2>1. /\ a[i] \in S /\ a[j] \in S /\ c(a[i]) = i - 1 /\ c(a[j]) = j - 1 /\ a[i] \in Nat /\ a[j] \in Nat
    BY <1>1, <1>3
  <2>2. c(a[i]) < c(a[j])
    BY <1>1, <1>6, <2>1
  <2>3. a[i] # a[j]
    BY <1>1, <1>6, <2>1
  <2>4. ~(a[j] < a[i])
    <3>. SUFFICES ASSUME a[j] < a[i] PROVE FALSE
      OBVIOUS
    <3>1. c(a[j]) < c(a[i])
      BY <1>4, <2>1
    <3>2. c(a[i]) \in Nat /\ c(a[j]) \in Nat
      BY <1>5, <2>1
    <3>. QED BY <2>2, <3>1, <3>2
  <2>. QED BY <2>1, <2>3, <2>4
<1>7. ASSUME NEW x \in S PROVE \E k \in 1..n : a[k] = x
  <2>1. PICK k : k = c(x) + 1
    OBVIOUS
  <2>2. k \in 1..n /\ k - 1 = c(x) /\ c(x) \in Nat
    BY <1>1, <1>5, <2>1
  <2>3. a[k] \in S /\ c(a[k]) = c(x) /\ a[k] \in Nat /\ x \in Nat
    BY <1>1, <1>3, <2>2
  <2>4. ~(a[k] < x) /\ ~(x < a[k])
    BY <1>4, <2>2, <2>3
  <2>5. a[k] = x
    BY <2>3, <2>4
  <2>. QED BY <2>2, <2>5
<1>. QED BY <1>1, <1>2, <1>3, <1>6, <1>7 DEF a, n

-----------------------------------------------------------------------------
(***************************************************************************)
(* A number is given to one episode because it is taken under the lock     *)
(* that its transaction holds until it has committed (OneAtATime); so a    *)
(* diary is numbered without a gap, and what is added to it comes after    *)
(* everything a reader was told before.                                    *)
(***************************************************************************)
EntryRecord == [step : {"idle", "begun", "locked", "inserted", "ok", "failed"},
                conv : Run \cup {Diary!NoConversation}, role : EpisodeKind \cup {"user"}, seq : Nat]

DiaryTypes ==
  /\ DOMAIN episodes = Run /\ \A g \in Run : IsFiniteSet(episodes[g])
  /\ DOMAIN goalLock = Run
  /\ entry \in [Narrator -> EntryRecord] /\ \A n \in Narrator : entry[n].step # "idle" => entry[n].conv \in Run
  /\ DOMAIN told = Reader
  /\ lost \in [Narrator -> Nat]

\* A diary numbered from one without a gap, each number once.
Numbered(E) ==
  /\ {e.seq : e \in E} = 1..Cardinality(E)
  /\ \A e, f \in E : e.seq = f.seq => e = f

OneAtATime ==
  \A n \in Narrator :
    /\ entry[n].step \in {"locked", "inserted"} => goalLock[entry[n].conv] = n
    /\ entry[n].step = "inserted" => entry[n].seq = Cardinality(episodes[entry[n].conv]) + 1

LossIsCounted == \A n \in Narrator : entry[n].step = "failed" => lost[n] > 0

\* What an answer says is so of the diary E.
TellsWell(a, E) ==
  LET n == Len(a.shown) + a.dropped IN
  /\ n \in Nat
  /\ \A i, j \in DOMAIN a.shown : i < j => a.shown[i].seq < a.shown[j].seq
  /\ \A i \in DOMAIN a.shown : a.shown[i] \in E /\ a.shown[i].seq <= n
  /\ \A k \in 1..n : \E e \in E : e.seq = k
  /\ \A e \in E : Essential(e) /\ e.seq <= n /\ (\A i \in DOMAIN a.shown : a.shown[i] # e) =>
       \A i \in DOMAIN a.shown : Essential(a.shown[i])

AnswersAreTrue == \A r \in Reader : told[r].of \in Run => TellsWell(told[r], episodes[told[r].of])

DiaryInv ==
  /\ DiaryTypes
  /\ \A g \in Run : Numbered(episodes[g])
  /\ OneAtATime /\ LossIsCounted /\ AnswersAreTrue

\* One transaction moves, and nothing is stored.
LEMMA OneEntryMoves ==
  ASSUME DiaryInv, NEW n \in Narrator, NEW d \in EntryRecord, entry' = [entry EXCEPT ![n] = d],
         episodes' = episodes, told' = told, DOMAIN goalLock' = Run,
         \A m \in Narrator \ {n} : entry[m].step \in {"locked", "inserted"} => goalLock'[entry[m].conv] = m,
         d.step # "idle" => d.conv \in Run,
         d.step \in {"locked", "inserted"} => goalLock'[d.conv] = n,
         d.step = "inserted" => d.seq = Cardinality(episodes[d.conv]) + 1,
         lost' \in [Narrator -> Nat], \A m \in Narrator : lost[m] <= lost'[m],
         d.step = "failed" => lost'[n] > 0
  PROVE  DiaryInv'
<1>1. entry' \in [Narrator -> EntryRecord] /\ entry'[n] = d /\ \A m \in Narrator \ {n} : entry'[m] = entry[m]
  BY DEF DiaryInv, DiaryTypes
<1>2. DiaryTypes'
  BY <1>1 DEF DiaryInv, DiaryTypes
<1>3. OneAtATime'
  BY <1>1 DEF DiaryInv, OneAtATime
<1>4. LossIsCounted'
  <2>1. ASSUME NEW m \in Narrator, entry'[m].step = "failed" PROVE lost'[m] > 0
    <3>1. CASE m = n
      BY <1>1, <2>1, <3>1
    <3>2. CASE m # n
      <4>1. lost[m] > 0 /\ lost[m] <= lost'[m] /\ lost[m] \in Nat /\ lost'[m] \in Nat
        BY <1>1, <2>1, <3>2 DEF DiaryInv, DiaryTypes, LossIsCounted
      <4>. QED BY <4>1
    <3>. QED BY <3>1, <3>2
  <2>. QED BY <2>1 DEF LossIsCounted
<1>5. AnswersAreTrue' /\ \A g \in Run : Numbered(episodes'[g])
  BY DEF DiaryInv, AnswersAreTrue
<1>. QED BY <1>2, <1>3, <1>4, <1>5 DEF DiaryInv

LEMMA RecordKeeps ==
  ASSUME DiaryInv, NEW n \in Narrator, NEW g \in Run, NEW kind \in EpisodeKind, record(n, g, kind) PROVE DiaryInv'
<1>. DEFINE d == Diary!Begun(g, kind)
<1>1. d \in EntryRecord /\ d.step = "begun" /\ d.conv = g
  BY DEF Diary!Begun, EntryRecord
<1>2. entry' = [entry EXCEPT ![n] = d] /\ UNCHANGED <<episodes, goalLock, told, lost>>
  BY DEF record, Diary!BeginTurn
<1>. HIDE DEF d
<1>3. /\ DOMAIN goalLock' = Run /\ lost' \in [Narrator -> Nat] /\ \A m \in Narrator : lost[m] <= lost'[m]
      /\ \A m \in Narrator \ {n} : entry[m].step \in {"locked", "inserted"} => goalLock'[entry[m].conv] = m
  BY <1>2 DEF DiaryInv, DiaryTypes, OneAtATime
<1>. QED BY <1>1, <1>2, <1>3, OneEntryMoves

LEMMA LockEntryKeeps ==
  ASSUME DiaryInv, NEW n \in Narrator, Diary!LockConversation(n), UNCHANGED <<told, lost>> PROVE DiaryInv'
<1>o. PICK o : o = entry[n]
  OBVIOUS
<1>. DEFINE d == [o EXCEPT !.step = "locked"]
<1>1. o \in EntryRecord /\ o.step = "begun" /\ o.conv \in Run /\ goalLock[o.conv] = Diary!Unlocked
  BY <1>o DEF DiaryInv, DiaryTypes, Diary!LockConversation
<1>2. entry' = [entry EXCEPT ![n] = d] /\ episodes' = episodes /\ goalLock' = [goalLock EXCEPT ![o.conv] = n]
  BY <1>o DEF Diary!LockConversation
<1>3. d \in EntryRecord /\ d.step = "locked" /\ d.conv = o.conv
  BY <1>1 DEF EntryRecord
<1>. HIDE DEF d
<1>4. /\ DOMAIN goalLock' = Run /\ goalLock'[o.conv] = n
      /\ \A m \in Narrator \ {n} : entry[m].step \in {"locked", "inserted"} => goalLock'[entry[m].conv] = m
  BY <1>1, <1>2, RecordsAssumption DEF DiaryInv, DiaryTypes, OneAtATime
<1>5. lost' \in [Narrator -> Nat] /\ \A m \in Narrator : lost[m] <= lost'[m]
  BY DEF DiaryInv, DiaryTypes
<1>. QED BY <1>1, <1>2, <1>3, <1>4, <1>5, OneEntryMoves

\* The next number: one more than the episodes that are there.
LEMMA NextNumber ==
  ASSUME NEW g, NEW k \in Nat, {e.seq : e \in episodes[g]} = 1..k PROVE Diary!NextSeq(g) = k + 1
<1>. DEFINE T == {e.seq : e \in episodes[g]} \cup {0}
            m == CHOOSE x \in T : \A y \in T : y <= x
<1>1. T = 1..k \cup {0}
  OBVIOUS
<1>2. Diary!NextSeq(g) = m + 1
  BY DEF Diary!NextSeq
<1>. HIDE DEF T
<1>3. k \in T /\ \A y \in T : y <= k /\ y \in Nat
  BY <1>1
<1>4. m \in T /\ \A y \in T : y <= m
  BY <1>3
<1>. HIDE DEF m
<1>5. m = k
  BY <1>3, <1>4
<1>. QED BY <1>2, <1>5

LEMMA InsertEntryKeeps ==
  ASSUME DiaryInv, NEW n \in Narrator, Diary!InsertTurn(n), UNCHANGED <<told, lost>> PROVE DiaryInv'
<1>o. PICK o : o = entry[n]
  OBVIOUS
<1>k. PICK k : k = Cardinality(episodes[o.conv])
  OBVIOUS
<1>q. PICK q : q = k + 1
  OBVIOUS
<1>. DEFINE d == [o EXCEPT !.step = "inserted", !.seq = q]
<1>1. o \in EntryRecord /\ o.step = "locked" /\ o.conv \in Run /\ goalLock[o.conv] = n
  BY <1>o DEF DiaryInv, DiaryTypes, OneAtATime, Diary!InsertTurn
<1>2. k \in Nat /\ {e.seq : e \in episodes[o.conv]} = 1..k
  BY <1>k, <1>1, FS_CardinalityType DEF DiaryInv, DiaryTypes, Numbered
<1>3. Diary!NextSeq(o.conv) = q /\ q \in Nat
  BY <1>q, <1>2, NextNumber
<1>4. entry' = [entry EXCEPT ![n] = d] /\ episodes' = episodes /\ goalLock' = goalLock
  <2>1. /\ entry' = [entry EXCEPT ![n].step = "inserted", ![n].seq = q]
        /\ episodes' = episodes /\ goalLock' = goalLock /\ n \in DOMAIN entry
    BY <1>o, <1>3 DEF Diary!InsertTurn, DiaryInv, DiaryTypes
  <2>. QED BY <1>o, <2>1
<1>5. d \in EntryRecord /\ d.step = "inserted" /\ d.conv = o.conv /\ d.seq = q
  BY <1>1, <1>3 DEF EntryRecord
<1>. HIDE DEF d
<1>6. /\ DOMAIN goalLock' = Run /\ lost' \in [Narrator -> Nat] /\ \A m \in Narrator : lost[m] <= lost'[m]
      /\ \A m \in Narrator \ {n} : entry[m].step \in {"locked", "inserted"} => goalLock'[entry[m].conv] = m
  BY <1>4 DEF DiaryInv, DiaryTypes, OneAtATime
<1>. QED BY <1>k, <1>q, <1>1, <1>4, <1>5, <1>6, OneEntryMoves

\* A commit is never refused: its number was taken under the lock it still holds.
LEMMA CommitEntryKeeps ==
  ASSUME DiaryInv, NEW n \in Narrator, Diary!CommitTurn(n), UNCHANGED <<told, lost>> PROVE DiaryInv'
<1>o. PICK o : o = entry[n]
  OBVIOUS
<1>g. PICK g : g = o.conv
  OBVIOUS
<1>k. PICK k : k = Cardinality(episodes[g])
  OBVIOUS
<1>. DEFINE e == [seq |-> o.seq, role |-> o.role, by |-> n]
            d == [o EXCEPT !.step = "ok"]
<1>1. /\ o \in EntryRecord /\ o.step = "inserted" /\ g \in Run /\ goalLock[g] = n /\ o.seq = k + 1
      /\ k \in Nat /\ {x.seq : x \in episodes[g]} = 1..k /\ IsFiniteSet(episodes[g])
  <2>1. /\ o \in EntryRecord /\ o.step = "inserted" /\ g \in Run /\ IsFiniteSet(episodes[g])
    BY <1>o, <1>g DEF DiaryInv, DiaryTypes, Diary!CommitTurn
  <2>2. goalLock[g] = n /\ o.seq = k + 1 /\ {x.seq : x \in episodes[g]} = 1..k
    BY <1>o, <1>g, <1>k, <2>1 DEF DiaryInv, OneAtATime, Numbered
  <2>. QED BY <1>k, <2>1, <2>2, FS_CardinalityType
<1>2. \A x \in episodes[g] : x.seq # o.seq /\ x.seq <= k /\ x.seq \in Nat
  <2>. SUFFICES ASSUME NEW x \in episodes[g] PROVE x.seq # o.seq /\ x.seq <= k /\ x.seq \in Nat
    OBVIOUS
  <2>1. x.seq \in 1..k
    BY <1>1
  <2>. QED BY <1>1, <2>1
<1>3. /\ episodes' = [episodes EXCEPT ![g] = episodes[g] \cup {e}]
      /\ entry' = [entry EXCEPT ![n] = d]
      /\ goalLock' = [x \in Run |-> IF goalLock[x] = n THEN Diary!Unlocked ELSE goalLock[x]]
  BY <1>o, <1>g, <1>2 DEF Diary!CommitTurn, Diary!Released
<1>4. o.seq \in Nat /\ e.seq = o.seq
  BY <1>1 DEF EntryRecord
<1>5. d \in EntryRecord /\ d.step = "ok" /\ d.conv = g
  BY <1>g, <1>1 DEF EntryRecord
<1>. HIDE DEF d, e
<1>6. entry' \in [Narrator -> EntryRecord] /\ entry'[n] = d /\ \A m \in Narrator \ {n} : entry'[m] = entry[m]
  BY <1>3, <1>5 DEF DiaryInv, DiaryTypes
<1>7. /\ DOMAIN episodes' = Run /\ episodes'[g] = episodes[g] \cup {e}
      /\ \A x \in Run \ {g} : episodes'[x] = episodes[x]
  BY <1>1, <1>3 DEF DiaryInv, DiaryTypes
<1>8. IsFiniteSet(episodes'[g]) /\ Cardinality(episodes'[g]) = k + 1
  <2>1. e \notin episodes[g]
    BY <1>2, <1>4
  <2>2. IsFiniteSet(episodes[g] \cup {e}) /\ Cardinality(episodes[g] \cup {e}) = Cardinality(episodes[g]) + 1
    BY <1>1, <2>1, FS_AddElement
  <2>. QED BY <1>k, <1>7, <2>2
<1>9. DiaryTypes'
  <2>1. DOMAIN goalLock' = Run
    BY <1>3
  <2>2. \A x \in Run : IsFiniteSet(episodes'[x])
    BY <1>7, <1>8 DEF DiaryInv, DiaryTypes
  <2>3. \A m \in Narrator : entry'[m].step # "idle" => entry'[m].conv \in Run
    BY <1>1, <1>5, <1>6 DEF DiaryInv, DiaryTypes
  <2>. QED BY <1>6, <1>7, <2>1, <2>2, <2>3 DEF DiaryInv, DiaryTypes
<1>10. \A x \in Run : Numbered(episodes'[x])
  <2>1. {x.seq : x \in episodes'[g]} = 1..(k + 1)
    <3>1. {x.seq : x \in episodes'[g]} = {x.seq : x \in episodes[g]} \cup {o.seq}
      BY <1>4, <1>7
    <3>2. 1..(k + 1) = 1..k \cup {k + 1}
      BY <1>1
    <3>. QED BY <1>1, <3>1, <3>2
  <2>2. \A x, y \in episodes'[g] : x.seq = y.seq => x = y
    <3>1. \A x, y \in episodes[g] : x.seq = y.seq => x = y
      BY <1>1 DEF DiaryInv, Numbered
    <3>. QED BY <1>2, <1>4, <1>7, <3>1
  <2>. QED BY <1>7, <1>8, <2>1, <2>2 DEF DiaryInv, Numbered
<1>11. OneAtATime'
  <2>1. ASSUME NEW m \in Narrator, entry'[m].step \in {"locked", "inserted"}
        PROVE  /\ goalLock'[entry'[m].conv] = m
               /\ entry'[m].step = "inserted" => entry'[m].seq = Cardinality(episodes'[entry'[m].conv]) + 1
    <3>1. m # n /\ entry'[m] = entry[m]
      BY <1>5, <1>6, <2>1
    <3>2. /\ entry[m].conv \in Run /\ goalLock[entry[m].conv] = m
          /\ entry[m].step = "inserted" => entry[m].seq = Cardinality(episodes[entry[m].conv]) + 1
      BY <2>1, <3>1 DEF DiaryInv, DiaryTypes, OneAtATime
    <3>3. entry[m].conv # g
      BY <1>1, <3>1, <3>2
    <3>. QED BY <1>3, <1>7, <3>1, <3>2, <3>3
  <2>. QED BY <2>1 DEF OneAtATime
<1>12. LossIsCounted'
  BY <1>5, <1>6 DEF DiaryInv, LossIsCounted
<1>13. AnswersAreTrue'
  <2>. SUFFICES ASSUME NEW r \in Reader, told[r].of \in Run PROVE TellsWell(told[r], episodes'[told[r].of])
    BY DEF AnswersAreTrue
  <2>1. TellsWell(told[r], episodes[told[r].of])
    BY DEF DiaryInv, AnswersAreTrue
  <2>2. CASE told[r].of # g
    BY <1>7, <2>1, <2>2
  <2>3. CASE told[r].of = g
    <3>. DEFINE a == told[r]
                n0 == Len(a.shown) + a.dropped
    <3>1. n0 \in Nat /\ \A j \in 1..n0 : \E x \in episodes[g] : x.seq = j
      BY <2>1, <2>3 DEF TellsWell
    <3>. HIDE DEF n0
    <3>2. n0 <= k
      <4>. SUFFICES ASSUME n0 > k PROVE FALSE
        BY <1>1, <3>1
      <4>1. k + 1 \in 1..n0
        BY <1>1, <3>1
      <4>2. PICK x \in episodes[g] : x.seq = k + 1
        BY <3>1, <4>1
      <4>. QED BY <1>1, <1>2, <4>2
    <3>3. ~(e.seq <= n0)
      BY <1>1, <1>4, <3>1, <3>2
    <3>. QED BY <1>7, <2>1, <2>3, <3>3 DEF TellsWell, n0
  <2>. QED BY <2>2, <2>3
<1>. QED BY <1>9, <1>10, <1>11, <1>12, <1>13 DEF DiaryInv

\* A transaction that ends without its episode: the database failed it, or its worker died.
LEMMA LossKeeps ==
  ASSUME DiaryInv, NEW n \in Narrator, NEW d \in EntryRecord, entry' = [entry EXCEPT ![n] = d],
         d.step \in {"idle", "failed"}, d.step # "idle" => d.conv \in Run,
         goalLock' = Diary!Released(n), UNCHANGED <<episodes, told>>, Loses(n)
  PROVE  DiaryInv'
<1>1. goalLock' = [g \in Run |-> IF goalLock[g] = n THEN Diary!Unlocked ELSE goalLock[g]]
  BY DEF Diary!Released
<1>2. DOMAIN goalLock' = Run
      /\ \A m \in Narrator \ {n} : entry[m].step \in {"locked", "inserted"} => goalLock'[entry[m].conv] = m
  BY <1>1 DEF DiaryInv, DiaryTypes, OneAtATime
<1>3. lost' \in [Narrator -> Nat] /\ lost'[n] > 0 /\ \A m \in Narrator : lost[m] <= lost'[m]
  <2>1. lost' = [lost EXCEPT ![n] = lost[n] + 1] /\ lost \in [Narrator -> Nat]
    BY DEF Loses, DiaryInv, DiaryTypes
  <2>. QED BY <2>1
<1>. QED BY <1>2, <1>3, OneEntryMoves

LEMMA FailKeeps ==
  ASSUME DiaryInv, NEW n \in Narrator, EpisodeFails(n) PROVE DiaryInv'
<1>o. PICK o : o = entry[n]
  OBVIOUS
<1>. DEFINE d == [o EXCEPT !.step = "failed"]
<1>1. o \in EntryRecord /\ o.conv \in Run
  BY <1>o DEF DiaryInv, DiaryTypes, EpisodeFails, Diary!FailTurn
<1>2. /\ entry' = [entry EXCEPT ![n] = d] /\ goalLock' = Diary!Released(n)
      /\ UNCHANGED <<episodes, told>> /\ Loses(n)
  BY <1>o DEF EpisodeFails, Diary!FailTurn
<1>3. d \in EntryRecord /\ d.step = "failed" /\ d.conv = o.conv
  BY <1>1 DEF EntryRecord
<1>. HIDE DEF d
<1>. QED BY <1>1, <1>2, <1>3, LossKeeps

LEMMA DeathKeeps ==
  ASSUME DiaryInv, NEW n \in Narrator, WorkerDies(n) PROVE DiaryInv'
<1>1. Diary!Idle \in EntryRecord /\ Diary!Idle.step = "idle"
  BY DEF Diary!Idle, EntryRecord
<1>. QED BY <1>1, LossKeeps DEF WorkerDies

-----------------------------------------------------------------------------
\* A function on 1..n is a sequence of length n.
LEMMA Listing ==
  ASSUME NEW T, NEW n \in Nat, NEW s \in [1..n -> T] PROVE Len(s) = n
<1>1. s \in Seq(T)
  OBVIOUS
<1>2. DOMAIN s = 1..Len(s) /\ Len(s) \in Nat /\ DOMAIN s = 1..n
  BY <1>1, LenProperties
<1>. QED BY <1>2

LEMMA SizeOfInterval == ASSUME NEW n \in Nat PROVE IsFiniteSet(1..n) /\ Cardinality(1..n) = n
<1>1. 1 \in Int /\ n \in Int
  OBVIOUS
<1>2. IsFiniteSet(1..n) /\ Cardinality(1..n) = IF 1 > n THEN 0 ELSE n - 1 + 1
  BY <1>1, FS_Interval
<1>. QED BY <1>2

\* s is the whole of the diary E, which has n episodes, by number.
IsWhole(s, E, n) ==
  /\ n \in Nat /\ DOMAIN s = 1..n /\ Len(s) = n
  /\ \A k \in 1..n : s[k] \in E /\ s[k].seq \in 1..n
  /\ \A i, j \in 1..n : i < j => s[i].seq < s[j].seq
  /\ \A e \in E : e.seq \in 1..n /\ \E k \in 1..n : s[k] = e
  /\ \A k \in 1..n : \E e \in E : e.seq = k

LEMMA EpisodesAreInOrder ==
  ASSUME DiaryInv, NEW g \in Run, NEW n, n = Cardinality(episodes[g]), NEW s, s = Episodes(g)
  PROVE  IsWhole(s, episodes[g], n)
<1>. DEFINE S == {e.seq : e \in episodes[g]}
            a == Ascending(S)
<1>1. n \in Nat /\ S = 1..n /\ \A e, f \in episodes[g] : e.seq = f.seq => e = f
  BY FS_CardinalityType DEF DiaryInv, DiaryTypes, Numbered
<1>2. Cardinality(S) = n
  BY <1>1, SizeOfInterval
<1>3. s = [k \in DOMAIN a |-> CHOOSE e \in episodes[g] : e.seq = a[k]]
  BY DEF Episodes
<1>4. \A k \in 1..n : \E e \in episodes[g] : e.seq = k
  <2>. SUFFICES ASSUME NEW k \in 1..n PROVE \E e \in episodes[g] : e.seq = k
    OBVIOUS
  <2>1. k \in S
    BY <1>1
  <2>. QED BY <2>1
<1>5. \A e \in episodes[g] : e.seq \in 1..n
  <2>1. \A e \in episodes[g] : e.seq \in S
    OBVIOUS
  <2>. QED BY <1>1, <2>1
<1>. HIDE DEF S, a
<1>6. /\ DOMAIN a = 1..n /\ \A k \in 1..n : a[k] \in 1..n
      /\ \A i, j \in 1..n : i < j => a[i] < a[j]
      /\ \A x \in 1..n : \E k \in 1..n : a[k] = x
  BY <1>1, <1>2, AscendingIsInOrder DEF a
<1>7. ASSUME NEW k \in 1..n PROVE s[k] \in episodes[g] /\ s[k].seq = a[k]
  <2>1. s[k] = CHOOSE e \in episodes[g] : e.seq = a[k]
    BY <1>3, <1>6
  <2>2. \E e \in episodes[g] : e.seq = a[k]
    BY <1>4, <1>6
  <2>. QED BY <2>1, <2>2
<1>8. DOMAIN s = 1..n
  BY <1>3, <1>6
<1>9. Len(s) = n
  <2>1. s \in [1..n -> episodes[g]]
    BY <1>3, <1>6, <1>7, <1>8
  <2>. QED BY <1>1, <2>1, Listing
<1>10. ASSUME NEW e \in episodes[g] PROVE \E k \in 1..n : s[k] = e
  <2>1. PICK k \in 1..n : a[k] = e.seq
    BY <1>5, <1>6
  <2>2. s[k] = e
    BY <1>1, <1>7, <2>1
  <2>. QED BY <2>2
<1>11. \A k \in 1..n : s[k] \in episodes[g] /\ s[k].seq \in 1..n
  BY <1>6, <1>7
<1>12. \A i, j \in 1..n : i < j => s[i].seq < s[j].seq
  BY <1>6, <1>7
<1>. QED BY <1>1, <1>4, <1>5, <1>8, <1>9, <1>10, <1>11, <1>12 DEF IsWhole

\* The oldest k are k, unless they are all there is.
LEMMA OldestAreEnough ==
  ASSUME NEW S, S \subseteq Nat, IsFiniteSet(S), NEW k \in Int
  PROVE  /\ Oldest(S, k) \subseteq S /\ IsFiniteSet(Oldest(S, k)) /\ Cardinality(Oldest(S, k)) \in Nat
         /\ Oldest(S, k) # S => Cardinality(Oldest(S, k)) >= k
<1>. DEFINE O == Oldest(S, k)
            rest == S \ O
<1>1. O = {i \in S : Cardinality(Below(S, i)) < k}
  BY DEF Oldest, Below
<1>2. O \subseteq S
  BY <1>1
<1>. HIDE DEF O
<1>3. IsFiniteSet(O) /\ Cardinality(O) \in Nat
  BY <1>2, FS_Subset, FS_CardinalityType
<1>4. ASSUME O # S PROVE Cardinality(O) >= k
  <2>1. rest \subseteq Nat /\ rest # {}
    BY <1>2, <1>4
  <2>2. PICK m \in rest : \A j \in rest : m <= j
    <3>. HIDE DEF rest
    <3>. QED BY <2>1, FirstNumber
  <2>3. m \in S /\ m \in Nat /\ m \in Int /\ m \notin O
    OBVIOUS
  <2>4. Below(S, m) \subseteq O
    <3>. SUFFICES ASSUME NEW j \in S, j < m, j \notin O PROVE FALSE
      BY DEF Below
    <3>1. m <= j /\ j \in Nat
      BY <2>2
    <3>. QED BY <2>3, <3>1
  <2>5. Cardinality(Below(S, m)) \in Nat
    BY <2>3, BelowCounts
  <2>6. Cardinality(Below(S, m)) >= k
    BY <1>1, <2>3, <2>5
  <2>7. Cardinality(Below(S, m)) <= Cardinality(O)
    BY <1>3, <2>4, FS_Subset
  <2>. QED BY <1>3, <2>5, <2>6, <2>7
<1>. QED BY <1>2, <1>3, <1>4 DEF O

\* trimEntries lets an essential entry go only when all the others have gone.
LEMMA EssentialGoLast ==
  ASSUME NEW N \in Nat, NEW s, DOMAIN s = 1..N, Len(s) = N
  PROVE  /\ Drop(s) \subseteq 1..N
         /\ \A i \in Drop(s) : Essential(s[i]) => \A j \in (1..N) \ Drop(s) : Essential(s[j])
<1>t. PICK t : t = IF Len(s) > maxTimelineEntries THEN Len(s) - maxTimelineEntries ELSE 0
  OBVIOUS
<1>. DEFINE plain == {i \in 1..N : ~Essential(s[i])}
            first == Oldest(plain, t)
            others == (1..N) \ first
            u == t - Cardinality(first)
            second == Oldest(others, u)
<1>1. Drop(s) = first \cup second
  BY <1>t DEF Drop
<1>2. t \in Int
  BY <1>t, RecordsAssumption
<1>3. /\ plain \subseteq Nat /\ IsFiniteSet(plain) /\ plain \subseteq 1..N
      /\ others \subseteq Nat /\ IsFiniteSet(others)
  <2>1. IsFiniteSet(1..N)
    BY FS_Interval
  <2>2. plain \subseteq 1..N /\ others \subseteq 1..N /\ 1..N \subseteq Nat
    OBVIOUS
  <2>. QED BY <2>1, <2>2, FS_Subset
<1>4. \A i \in 1..N : i \notin plain => Essential(s[i])
  OBVIOUS
<1>5. \A i \in plain : ~Essential(s[i])
  OBVIOUS
<1>. HIDE DEF plain
<1>6. first \subseteq plain /\ Cardinality(first) \in Nat /\ (first # plain => Cardinality(first) >= t)
  BY <1>2, <1>3, OldestAreEnough
<1>7. u \in Int
  BY <1>2, <1>6
<1>8. second \subseteq others
  BY <1>3, <1>7, OldestAreEnough
<1>9. ASSUME NEW i \in Drop(s), Essential(s[i]) PROVE first = plain
  <2>1. i \in second
    BY <1>1, <1>5, <1>6, <1>9
  <2>2. Cardinality(Below(others, i)) < u
    BY <2>1 DEF Oldest, Below
  <2>3. i \in Int
    <3>1. i \in others
      BY <1>8, <2>1
    <3>. HIDE DEF others
    <3>2. i \in Nat
      BY <1>3, <3>1
    <3>. QED BY <3>2
  <2>4. Cardinality(Below(others, i)) \in Nat
    BY <1>3, <2>3, BelowCounts
  <2>. QED BY <1>2, <1>6, <2>2, <2>4
<1>. HIDE DEF first, second
<1>10. Drop(s) \subseteq 1..N
  BY <1>1, <1>3, <1>6, <1>8
<1>. QED BY <1>1, <1>4, <1>9, <1>10

\* What the timeline is told of a diary is so.
LEMMA TimelineTellsWell ==
  ASSUME DiaryInv, NEW g \in Run, NEW a,
         a = [of |-> g, shown |-> Kept(Episodes(g)), dropped |-> Cardinality(Drop(Episodes(g)))]
  PROVE  TellsWell(a, episodes[g])
<1>s. PICK s : s = Episodes(g)
  OBVIOUS
<1>n. PICK n : n = Cardinality(episodes[g])
  OBVIOUS
<1>w. IsWhole(s, episodes[g], n)
  BY <1>s, <1>n, EpisodesAreInOrder
<1>1. n \in Nat /\ DOMAIN s = 1..n /\ Len(s) = n
  BY <1>w DEF IsWhole
<1>. DEFINE gone == Drop(s)
            left == (1..n) \ gone
            m == Cardinality(left)
            b == Ascending(left)
<1>2. /\ gone \subseteq 1..n
      /\ \A i \in gone : Essential(s[i]) => \A j \in left : Essential(s[j])
  BY <1>1, EssentialGoLast
<1>3. a.shown = [i \in DOMAIN b |-> s[b[i]]] /\ a.dropped = Cardinality(gone)
  BY <1>s, <1>1 DEF Kept
<1>. HIDE DEF gone
<1>l. left \subseteq 1..n
  OBVIOUS
<1>4. /\ m \in Nat /\ DOMAIN b = 1..m /\ \A k \in 1..m : b[k] \in left
      /\ \A i, j \in 1..m : i < j => b[i] < b[j]
      /\ \A x \in left : \E k \in 1..m : b[k] = x
  <2>. HIDE DEF left
  <2>. QED BY <1>1, <1>l, AscendingIsInOrder
<1>5. m + Cardinality(gone) = n
  <2>1. IsFiniteSet(1..n) /\ Cardinality(1..n) = n
    BY <1>1, SizeOfInterval
  <2>2. IsFiniteSet(gone) /\ Cardinality(gone) \in Nat /\ (1..n) \cap gone = gone
    BY <1>2, <2>1, FS_Subset, FS_CardinalityType
  <2>3. Cardinality((1..n) \ gone) = Cardinality(1..n) - Cardinality((1..n) \cap gone)
    BY <2>1, FS_Difference
  <2>4. m = n - Cardinality(gone)
    BY <2>1, <2>2, <2>3
  <2>. QED BY <1>1, <2>2, <2>4
<1>. HIDE DEF b, m, left
<1>6. DOMAIN a.shown = 1..m /\ \A i \in 1..m : a.shown[i] = s[b[i]] /\ b[i] \in left /\ b[i] \in 1..n
  BY <1>3, <1>4 DEF left
<1>7. Len(a.shown) = m
  <2>1. a.shown \in [1..m -> episodes[g]]
    BY <1>w, <1>3, <1>4, <1>6 DEF IsWhole
  <2>. QED BY <1>4, <2>1, Listing
<1>8. Len(a.shown) + a.dropped = n
  BY <1>3, <1>5, <1>7
<1>9. \A i, j \in DOMAIN a.shown : i < j => a.shown[i].seq < a.shown[j].seq
  <2>1. \A i, j \in 1..m : i < j => b[i] \in 1..n /\ b[j] \in 1..n /\ b[i] < b[j]
    BY <1>4, <1>6
  <2>2. \A i, j \in 1..n : i < j => s[i].seq < s[j].seq
    BY <1>w DEF IsWhole
  <2>. QED BY <1>6, <2>1, <2>2
<1>10. \A i \in DOMAIN a.shown : a.shown[i] \in episodes[g] /\ a.shown[i].seq <= n
  <2>1. \A k \in 1..n : s[k] \in episodes[g] /\ s[k].seq <= n
    BY <1>w DEF IsWhole
  <2>. QED BY <1>6, <2>1
<1>11. ASSUME NEW e \in episodes[g], Essential(e), \A i \in DOMAIN a.shown : a.shown[i] # e
       PROVE  \A i \in DOMAIN a.shown : Essential(a.shown[i])
  <2>1. PICK k \in 1..n : s[k] = e
    BY <1>w DEF IsWhole
  <2>2. k \notin left
    BY <1>4, <1>6, <1>11, <2>1
  <2>3. k \in gone
    BY <2>2 DEF left
  <2>. QED BY <1>2, <1>6, <1>11, <2>1, <2>3
<1>12. \A k \in 1..n : \E e \in episodes[g] : e.seq = k
  BY <1>w DEF IsWhole
<1>. QED BY <1>1, <1>8, <1>9, <1>10, <1>11, <1>12 DEF TellsWell

\* And so is what the answer to "what happened" is.
LEMMA AnswerTellsWell ==
  ASSUME DiaryInv, NEW g \in Run, NEW a, a = [of |-> g, shown |-> Episodes(g), dropped |-> 0]
  PROVE  TellsWell(a, episodes[g])
<1>s. PICK s : s = Episodes(g)
  OBVIOUS
<1>n. PICK n : n = Cardinality(episodes[g])
  OBVIOUS
<1>w. IsWhole(s, episodes[g], n)
  BY <1>s, <1>n, EpisodesAreInOrder
<1>1. n \in Nat /\ DOMAIN s = 1..n /\ Len(s) = n
  BY <1>w DEF IsWhole
<1>2. a.shown = s /\ a.dropped = 0
  BY <1>s
<1>3. Len(a.shown) + a.dropped = n
  BY <1>1, <1>2
<1>4. \A i \in 1..n : s[i] \in episodes[g] /\ s[i].seq <= n
  BY <1>w DEF IsWhole
<1>5. \A e \in episodes[g] : ~ \A i \in DOMAIN a.shown : a.shown[i] # e
  BY <1>w, <1>1, <1>2 DEF IsWhole
<1>6. /\ \A i, j \in 1..n : i < j => s[i].seq < s[j].seq
      /\ \A k \in 1..n : \E e \in episodes[g] : e.seq = k
  BY <1>w DEF IsWhole
<1>. QED BY <1>1, <1>2, <1>3, <1>4, <1>5, <1>6 DEF TellsWell

LEMMA ReaderIsTold ==
  ASSUME DiaryInv, NEW r \in Reader, NEW g \in Run, NEW a, a.of = g, TellsWell(a, episodes[g]),
         told' = [told EXCEPT ![r] = a], UNCHANGED <<episodes, goalLock, entry, lost>>
  PROVE  DiaryInv'
<1>1. DOMAIN told' = Reader /\ told'[r] = a /\ \A q \in Reader \ {r} : told'[q] = told[q]
  BY DEF DiaryInv, DiaryTypes
<1>2. AnswersAreTrue'
  BY <1>1 DEF DiaryInv, AnswersAreTrue
<1>3. DiaryTypes' /\ OneAtATime' /\ LossIsCounted' /\ \A x \in Run : Numbered(episodes'[x])
  BY <1>1 DEF DiaryInv, DiaryTypes, OneAtATime, LossIsCounted
<1>. QED BY <1>2, <1>3 DEF DiaryInv

LEMMA DiaryStarts == ASSUME RecordsInit PROVE DiaryInv
<1>. USE DEF RecordsInit, Diary!MemoryInit
<1>1. /\ Diary!Idle \in EntryRecord /\ Diary!Idle.step = "idle"
      /\ \A n \in Narrator : entry[n] = Diary!Idle
  BY DEF Diary!Idle, EntryRecord
<1>2. DiaryTypes
  <2>1. \A g \in Run : episodes[g] = {}
    OBVIOUS
  <2>. QED BY <1>1, <2>1, FS_EmptySet DEF DiaryTypes
<1>3. \A g \in Run : Numbered(episodes[g])
  <2>1. \A g \in Run : episodes[g] = {}
    OBVIOUS
  <2>. QED BY <2>1, FS_EmptySet DEF Numbered
<1>4. OneAtATime /\ LossIsCounted
  BY <1>1 DEF OneAtATime, LossIsCounted
<1>5. AnswersAreTrue
  <2>. SUFFICES ASSUME NEW r \in Reader, told[r].of \in Run PROVE TellsWell(told[r], episodes[told[r].of])
    BY DEF AnswersAreTrue
  <2>1. told[r].shown = << >> /\ told[r].dropped = 0 /\ episodes[told[r].of] = {}
    BY DEF Untold
  <2>2. Len(told[r].shown) + told[r].dropped = 0 /\ DOMAIN told[r].shown = {}
    BY <2>1
  <2>. QED BY <2>1, <2>2 DEF TellsWell
<1>. QED BY <1>2, <1>3, <1>4, <1>5 DEF DiaryInv

LEMMA DiaryStep == ASSUME DiaryInv, [RecordsNext]_recordVars PROVE DiaryInv'
<1>1. ASSUME NEW n \in Narrator, NEW g \in Run, NEW kind \in EpisodeKind, record(n, g, kind) PROVE DiaryInv'
  BY <1>1, RecordKeeps
<1>2. ASSUME NEW n \in Narrator, AppendEpisode(n) PROVE DiaryInv'
  BY <1>2, LockEntryKeeps, InsertEntryKeeps, CommitEntryKeeps DEF AppendEpisode, Diary!AppendStep
<1>3. ASSUME NEW n \in Narrator, EpisodeFails(n) PROVE DiaryInv'
  BY <1>3, FailKeeps
<1>4. ASSUME NEW n \in Narrator, WorkerDies(n) PROVE DiaryInv'
  BY <1>4, DeathKeeps
<1>5. ASSUME NEW r \in Reader, NEW g \in Run, handleTimeline(r, g) PROVE DiaryInv'
  <2>. DEFINE a == [of |-> g, shown |-> Kept(Episodes(g)), dropped |-> Cardinality(Drop(Episodes(g)))]
  <2>1. told' = [told EXCEPT ![r] = a] /\ UNCHANGED <<episodes, goalLock, entry, lost>>
    BY <1>5 DEF handleTimeline
  <2>2. TellsWell(a, episodes[g]) /\ a.of = g
    BY TimelineTellsWell
  <2>. HIDE DEF a
  <2>. QED BY <2>1, <2>2, ReaderIsTold
<1>6. ASSUME NEW r \in Reader, NEW g \in Run, answerRunHistory(r, g) PROVE DiaryInv'
  <2>. DEFINE a == [of |-> g, shown |-> Episodes(g), dropped |-> 0]
  <2>1. told' = [told EXCEPT ![r] = a] /\ UNCHANGED <<episodes, goalLock, entry, lost>>
    BY <1>6 DEF answerRunHistory
  <2>2. TellsWell(a, episodes[g]) /\ a.of = g
    BY AnswerTellsWell
  <2>. HIDE DEF a
  <2>. QED BY <2>1, <2>2, ReaderIsTold
<1>7. CASE UNCHANGED recordVars
  BY <1>7 DEF recordVars, DiaryInv, DiaryTypes, Numbered, OneAtATime, LossIsCounted, AnswersAreTrue, TellsWell
<1>. QED BY <1>1, <1>2, <1>3, <1>4, <1>5, <1>6, <1>7 DEF RecordsNext

\* However many workers record at once, die or are refused by the database, and however long the
\* diary grows: what a reader was told is a run's whole story up to then, in order, with what was
\* left out counted, and a failure or an effect is left out only when nothing else is shown.
THEOREM ReadersGetTheStory == RecordsSpec => []StoryIsWhole
<1>1. RecordsInit => DiaryInv
  BY DiaryStarts
<1>2. DiaryInv /\ [RecordsNext]_recordVars => DiaryInv'
  BY DiaryStep
<1>3. DiaryInv => StoryIsWhole
  BY DEF DiaryInv, AnswersAreTrue, TellsWell, LossIsCounted, StoryIsWhole
<1>. QED BY <1>1, <1>2, <1>3, PTL DEF RecordsSpec

(***************************************************************************)
(* The loops of task.go are right on every graph: detectCycle finds a cycle *)
(* exactly when there is one, and both propagation loops stop at the least *)
(* set that must be blocked.                                               *)
(*                                                                         *)
(* The search.  Of the places a task has on the stack, the last grey one is *)
(* its own; the grey tasks are a path (PathOnStack), so an edge back to one *)
(* closes a cycle; the black ones are closed under edges and acyclic, by the *)
(* order in which they were left.  The sweeps never block outside the least *)
(* set, and stop only when nothing more is to be blocked.                  *)
(***************************************************************************)

Colour == {"white", "grey", "black"}
\* What a task needs, of either kind.
Needs == [t \in Id |-> Dag!Edges(t)]
Black == {t \in Id : colour[t] = "black"}

GraphTypes == required \subseteq Id \X Id /\ contributory \subseteq Id \X Id

SearchTypes ==
  /\ root \in Nat \ {0}
  /\ colour \in [Id -> Colour]
  /\ stack \in Seq(Id)
  /\ verdict \in {"searching", "cycle", "none"}

Place == 1..Len(stack)

\* Of the places of a grey task the last is its own; it waited at the others when it was white.
Own(i) ==
  /\ i \in Place /\ colour[stack[i]] = "grey"
  /\ \A j \in Place : j > i => stack[j] # stack[i]

GreyHasPlace == \A t \in Id : colour[t] = "grey" => \E i \in Place : Own(i) /\ stack[i] = t

\* What waits was pushed by the last grey task under it: the grey ones are a path.
PathOnStack ==
  \A i \in Place : i > 1 =>
    \E j \in 1..(i - 1) : /\ Own(j) /\ stack[i] \in Needs[stack[j]]
                          /\ \A k \in (j + 1)..(i - 1) : ~Own(k)

\* A grey task stays until everything it requires has been finished above it.
GreyWaits ==
  \A i \in Place : Own(i) =>
    \A d \in Needs[stack[i]] : colour[d] = "black" \/ \E k \in Place : k > i /\ stack[k] = d

\* Finished tasks need finished ones only, and have no cycle among them.
BlackClosed == \A t \in Black : Needs[t] \subseteq Black
BlackAcyclic == \A S \in SUBSET Black : S # {} => \E t \in S : Needs[t] \cap S = {}

RootsSeen == \A t \in Id : t < root /\ colour[t] = "white" => \E i \in Place : stack[i] = t

LEMMA EdgesAre == ASSUME NEW t \in Id PROVE Needs[t] = Targets(required, t) \cup Targets(contributory, t)
BY DEF Needs, Dag!Edges

LEMMA EdgesInGraph == ASSUME GraphTypes PROVE \A t \in Id : Needs[t] \subseteq Id
BY EdgesAre DEF GraphTypes, Targets

LEMMA SameEdges == ASSUME UNCHANGED graph PROVE Needs' = Needs
BY DEF graph, Needs, Dag!Edges, Targets

-----------------------------------------------------------------------------
(***************************************************************************)
(* What is pushed and popped.                                              *)
(***************************************************************************)
LEMMA IdIsFinite == ASSUME NEW S, S \subseteq Id PROVE IsFiniteSet(S)
<1>1. IsFiniteSet(Id)
  <2>1. Size \in Int /\ 1 \in Int
    BY SizeAssumption
  <2> QED BY <2>1, FS_Interval DEF Id
<1> QED BY <1>1, FS_Subset

\* A listing of a set is a sequence that has each of its members.
LEMMA ListingHasAll ==
  ASSUME NEW S, S \subseteq Id, NEW s \in Listings(S)
  PROVE  s \in Seq(S) /\ \A d \in S : \E i \in 1..Len(s) : s[i] = d
<1>1. Cardinality(S) \in Nat
  BY IdIsFinite, FS_CardinalityType
<1>2. s \in [1..Cardinality(S) -> S] /\ \A d \in S : \E i \in DOMAIN s : s[i] = d
  BY DEF Listings
<1>3. s \in Seq(S)
  BY <1>1, <1>2
<1>4. DOMAIN s = 1..Len(s)
  BY <1>3
<1> QED BY <1>2, <1>3, <1>4

Whites(t) == {d \in Needs[t] \ {t} : colour[d] = "white"}

LEMMA PushedHasAll ==
  ASSUME GraphTypes, NEW t \in Id, NEW p \in EdgeLists(t)
  PROVE  p \in Seq(Whites(t)) /\ \A d \in Whites(t) : \E i \in 1..Len(p) : p[i] = d
<1> DEFINE W == Whites(t)
           R == White(required, t)
           C == White(contributory, t)
<1>1. W = R \cup C /\ W \subseteq Id
  BY EdgesAre, EdgesInGraph DEF Whites, White
<1>2. PICK a \in Listings(R), b \in Listings(C) : p = a \o b
  BY DEF EdgeLists
<1> HIDE DEF W, R, C
<1>3. a \in Seq(R) /\ (\A d \in R : \E i \in 1..Len(a) : a[i] = d)
  BY <1>1, ListingHasAll
<1>4. b \in Seq(C) /\ (\A d \in C : \E i \in 1..Len(b) : b[i] = d)
  BY <1>1, ListingHasAll
<1>5. a \in Seq(W) /\ b \in Seq(W)
  BY <1>1, <1>3, <1>4
<1>6. /\ p \in Seq(W) /\ Len(p) = Len(a) + Len(b)
      /\ \A i \in 1..(Len(a) + Len(b)) : p[i] = IF i <= Len(a) THEN a[i] ELSE b[i - Len(a)]
  BY <1>2, <1>5, ConcatProperties
<1>7. PICK m, n : m = Len(a) /\ n = Len(b)
  OBVIOUS
<1>8. m \in Nat /\ n \in Nat
  BY <1>5, <1>7
<1>9. ASSUME NEW d \in W PROVE \E i \in 1..(m + n) : p[i] = d
  <2>1. CASE d \in R
    <3>1. PICK i \in 1..m : a[i] = d
      BY <1>3, <1>7, <2>1
    <3>2. p[i] = d /\ i \in 1..(m + n)
      BY <1>6, <1>7, <1>8, <3>1
    <3> QED BY <3>2
  <2>2. CASE d \in C
    <3>1. PICK i \in 1..n : b[i] = d
      BY <1>4, <1>7, <2>2
    <3>2. m + i \in 1..(m + n) /\ ~(m + i <= m) /\ (m + i) - m = i
      BY <1>8, <3>1
    <3>3. p[m + i] = d
      BY <1>6, <1>7, <3>1, <3>2
    <3> QED BY <3>2, <3>3
  <2> QED BY <1>1, <2>1, <2>2
<1> QED BY <1>6, <1>7, <1>9 DEF W

\* The stack with more on it.
Pushes(n, m, W) ==
  /\ n \in Nat /\ m \in Nat /\ n <= m /\ Len(stack) = n /\ Len(stack') = m
  /\ \A i \in 1..n : stack'[i] = stack[i]
  /\ \A i \in (n + 1)..m : stack'[i] \in W
  /\ \A d \in W : \E i \in (n + 1)..m : stack'[i] = d

LEMMA PushingIs ==
  ASSUME GraphTypes, stack \in Seq(Id), NEW t \in Id, NEW p \in EdgeLists(t), stack' = stack \o p
  PROVE  stack' \in Seq(Id) /\ \E n, m : Pushes(n, m, Whites(t))
<1> DEFINE W == Whites(t)
<1>1. p \in Seq(W) /\ W \subseteq Id /\ \A d \in W : \E i \in 1..Len(p) : p[i] = d
  BY PushedHasAll, EdgesInGraph DEF Whites
<1> HIDE DEF W
<1>2. p \in Seq(Id)
  BY <1>1
<1>3. /\ stack' \in Seq(Id) /\ Len(stack') = Len(stack) + Len(p)
      /\ \A i \in 1..(Len(stack) + Len(p)) : stack'[i] = IF i <= Len(stack) THEN stack[i] ELSE p[i - Len(stack)]
  BY <1>2, ConcatProperties
<1>4. PICK n, k : n = Len(stack) /\ k = Len(p)
  OBVIOUS
<1>5. n \in Nat /\ k \in Nat /\ \A i \in 1..k : p[i] \in W
  BY <1>1, <1>4
<1>6. \A i \in 1..n : stack'[i] = stack[i]
  BY <1>3, <1>4, <1>5
<1>7. ASSUME NEW i \in (n + 1)..(n + k) PROVE stack'[i] \in W
  <2>1. ~(i <= n) /\ i - n \in 1..k /\ i \in 1..(n + k)
    BY <1>5
  <2>2. stack'[i] = p[i - n]
    BY <1>3, <1>4, <2>1
  <2> QED BY <1>5, <2>1, <2>2
<1>8. ASSUME NEW d \in W PROVE \E i \in (n + 1)..(n + k) : stack'[i] = d
  <2>1. PICK i \in 1..k : p[i] = d
    BY <1>1, <1>4
  <2>2. n + i \in (n + 1)..(n + k) /\ n + i \in 1..(n + k) /\ ~(n + i <= n) /\ (n + i) - n = i
    BY <1>5
  <2>3. stack'[n + i] = d
    BY <1>3, <1>4, <2>1, <2>2
  <2> QED BY <2>2, <2>3
<1>9. n + k \in Nat /\ n <= n + k
  BY <1>5
<1>10. Pushes(n, n + k, W)
  BY <1>3, <1>4, <1>5, <1>6, <1>7, <1>8, <1>9 DEF Pushes
<1> QED BY <1>3, <1>10 DEF W

\* The stack with its top taken off.
Pops(n) ==
  /\ n \in Nat \ {0} /\ Len(stack) = n /\ Len(stack') = n - 1
  /\ \A i \in 1..(n - 1) : stack'[i] = stack[i]

LEMMA PoppingIs ==
  ASSUME stack \in Seq(Id), stack # << >>, stack' = Pop
  PROVE  stack' \in Seq(Id) /\ \E n : Pops(n)
<1>1. PICK n : n = Len(stack)
  OBVIOUS
<1>2. n \in Nat \ {0} /\ \A i \in 1..(n - 1) : stack[i] \in Id
  BY <1>1
<1>3. stack' = SubSeq(stack, 1, n - 1)
  BY <1>1 DEF Pop
<1>4. /\ stack' \in Seq(Id) /\ Len(stack') = IF 1 <= n - 1 THEN (n - 1) - 1 + 1 ELSE 0
      /\ \A i \in 1..((n - 1) - 1 + 1) : stack'[i] = stack[1 + i - 1]
  BY <1>2, <1>3, SubSeqProperties
<1>5. Len(stack') = n - 1 /\ \A i \in 1..(n - 1) : stack'[i] = stack[i]
  BY <1>2, <1>4
<1> QED BY <1>1, <1>2, <1>4, <1>5 DEF Pops

-----------------------------------------------------------------------------
(***************************************************************************)
(* The three-colour search.                                                *)
(***************************************************************************)
LEMMA LeastOf == ASSUME NEW S, S \subseteq Nat, S # {} PROVE \E m \in S : \A k \in S : m <= k
<1> DEFINE R == OpToRel(<, Nat)
<1>1. IsWellFoundedOn(R, Nat)
  BY NatLessThanWellFounded
<1>2. PICK m \in S : \A n \in S : ~(<<n, m>> \in R)
  <2> HIDE DEF R
  <2> QED BY <1>1, WFMin
<1>3. \A k \in S : k \in Nat /\ m \in Nat /\ ~(k < m)
  BY <1>2 DEF OpToRel
<1> QED BY <1>3

\* An edge from the top of the stack back to the path closes a cycle.
LEMMA BackEdgeIsCycle ==
  ASSUME GraphTypes, SearchTypes, GreyHasPlace, PathOnStack,
         NEW n, n = Len(stack), n \in Nat \ {0}, colour[stack[n]] = "white",
         NEW d \in Needs[stack[n]], d = stack[n] \/ colour[d] = "grey"
  PROVE  ~Dag!Acyclic
<1> DEFINE OnPath(i) == Own(i) \/ i = n
<1>1. \A i \in 1..n : stack[i] \in Id
  BY DEF SearchTypes
<1>2. d \in Id
  BY <1>1, EdgesInGraph
<1>3. PICK p \in 1..n : OnPath(p) /\ stack[p] = d
  BY <1>2 DEF GreyHasPlace, Place, Own
<1> DEFINE Ring == {i \in p..n : OnPath(i)}
           S == {stack[i] : i \in Ring}
<1>4. Ring \subseteq 1..n /\ n \in Ring /\ p \in Ring
  BY <1>3
<1>5. S \in SUBSET Id /\ S # {}
  BY <1>1, <1>4
<1>6. ASSUME NEW i \in Ring PROVE Needs[stack[i]] \cap S # {}
  <2>1. CASE i = n
    BY <1>3, <1>4, <2>1
  <2>2. CASE i # n
    <3> DEFINE Above == {k \in (i + 1)..n : OnPath(k)}
    <3>1. i \in 1..(n - 1) /\ Own(i)
      BY <1>4, <2>2
    <3>2. n \in Above /\ Above \subseteq Nat
      BY <3>1
    <3>3. PICK m \in Above : \A k \in Above : m <= k
      <4> HIDE DEF Above
      <4> QED BY <3>2, LeastOf
    <3>4. m \in Place /\ m > 1 /\ m \in Ring
      BY <1>4, <3>1 DEF Place
    <3>5. PICK j \in 1..(m - 1) : /\ Own(j) /\ stack[m] \in Needs[stack[j]]
                                  /\ \A k \in (j + 1)..(m - 1) : ~Own(k)
      BY <3>4 DEF PathOnStack
    <3>6. m \in Nat /\ m <= n /\ i + 1 <= m
      BY <3>1
    <3>7. ~(j > i)
      <4>1. SUFFICES ASSUME j > i PROVE FALSE
        OBVIOUS
      <4>2. j \in (i + 1)..n
        BY <3>1, <3>6, <4>1
      <4>3. j \in Above
        BY <3>5, <4>2
      <4> QED BY <3>3, <3>6, <4>3
    <3>8. ~(j < i)
      <4>1. SUFFICES ASSUME j < i PROVE FALSE
        OBVIOUS
      <4>2. i \in (j + 1)..(m - 1)
        BY <3>1, <3>6, <4>1
      <4> QED BY <3>1, <3>5, <4>2
    <3>9. j = i
      BY <3>1, <3>6, <3>7, <3>8
    <3> QED BY <3>4, <3>5, <3>9
  <2> QED BY <2>1, <2>2
<1>7. \A t \in S : Needs[t] \cap S # {}
  BY <1>6
<1> QED BY <1>5, <1>7 DEF Dag!Acyclic, Needs

Searching == SearchTypes /\ GreyHasPlace /\ PathOnStack /\ GreyWaits /\ BlackClosed /\ BlackAcyclic /\ RootsSeen

\* A white task turns grey, and the white ones it needs are pushed over it.
LEMMA EnterKeeps ==
  ASSUME GraphTypes, Searching, NEW n, n = Len(stack), n \in Nat \ {0}, NEW t \in Id, t = stack[n], colour[t] = "white",
         colour' = [colour EXCEPT ![t] = "grey"], \A d \in Needs[t] : colour'[d] # "grey",
         stack' \in Seq(Id), NEW m, Pushes(n, m, Whites(t)), UNCHANGED <<graph, root, verdict>>
  PROVE  Searching'
<1> DEFINE W == Whites(t)
<1>1. /\ m \in Nat /\ n <= m /\ Len(stack') = m
      /\ \A i \in 1..n : stack'[i] = stack[i] /\ stack[i] \in Id
      /\ \A i \in (n + 1)..m : stack'[i] \in W
      /\ \A d \in W : \E i \in (n + 1)..m : stack'[i] = d
  BY DEF Pushes, Searching, SearchTypes
<1>2. colour \in [Id -> Colour] /\ colour' \in [Id -> Colour] /\ colour'[t] = "grey" /\ \A x \in Id \ {t} : colour'[x] = colour[x]
  BY DEF Searching, SearchTypes, Colour
<1>3. W \subseteq Id /\ (\A d \in W : colour[d] = "white" /\ colour'[d] = "white" /\ d # t)
  BY <1>2, EdgesInGraph DEF Whites
<1>4. \A d \in Needs[t] : d \in W \/ colour'[d] = "black"
  <2> SUFFICES ASSUME NEW d \in Needs[t] PROVE d \in W \/ colour'[d] = "black"
    OBVIOUS
  <2>1. d \in Id /\ d # t /\ colour'[d] # "grey"
    BY <1>2, EdgesInGraph
  <2> QED BY <1>2, <2>1 DEF Whites, Colour
<1> HIDE DEF W
<1>5. Place = 1..n /\ Place' = 1..m
  BY <1>1 DEF Place
<1>6. \A i \in 1..m : Own(i)' <=> (i = n \/ (i < n /\ Own(i)))
  <2> SUFFICES ASSUME NEW i \in 1..m PROVE Own(i)' <=> (i = n \/ (i < n /\ Own(i)))
    OBVIOUS
  <2>1. CASE i > n
    <3>1. stack'[i] \in W
      BY <1>1, <2>1
    <3> QED BY <1>3, <2>1, <3>1 DEF Own
  <2>2. CASE i = n
    <3>1. \A j \in 1..m : j > i => stack'[j] # t
      BY <1>1, <1>3, <2>2
    <3> QED BY <1>1, <1>2, <1>5, <2>2, <3>1 DEF Own
  <2>3. CASE i < n
    <3>0. i \in 1..n /\ n \in 1..m /\ n > i /\ stack'[n] = t /\ stack'[i] = stack[i]
      BY <1>1, <2>3
    <3>1. CASE stack[i] = t
      BY <1>5, <3>0, <3>1 DEF Own
    <3>2. CASE stack[i] # t
      <4>1. colour'[stack'[i]] = colour[stack[i]]
        BY <1>1, <1>2, <3>0, <3>2
      <4>2. ASSUME colour[stack[i]] = "grey"
            PROVE  (\A j \in 1..m : j > i => stack'[j] # stack'[i]) <=> (\A j \in 1..n : j > i => stack[j] # stack[i])
        <5>1. \A j \in (n + 1)..m : stack'[j] # stack'[i]
          BY <1>1, <1>3, <3>0, <4>2
        <5>2. \A j \in 1..m : j \in 1..n \/ j \in (n + 1)..m
          BY <1>1
        <5>3. 1..n \subseteq 1..m
          BY <1>1
        <5> QED BY <1>1, <3>0, <5>1, <5>2, <5>3
      <4>3. Own(i)' <=> colour'[stack'[i]] = "grey" /\ \A j \in 1..m : j > i => stack'[j] # stack'[i]
        BY <1>5 DEF Own
      <4>4. Own(i) <=> colour[stack[i]] = "grey" /\ \A j \in 1..n : j > i => stack[j] # stack[i]
        BY <1>5, <3>0 DEF Own
      <4> QED BY <3>0, <4>1, <4>2, <4>3, <4>4
    <3> QED BY <3>1, <3>2
  <2> QED BY <1>1, <2>1, <2>2, <2>3
<1>7. SearchTypes'
  BY <1>2 DEF Searching, SearchTypes
<1>8. GreyHasPlace'
  <2>1. ASSUME NEW x \in Id, colour'[x] = "grey" PROVE \E i \in 1..m : Own(i)' /\ stack'[i] = x
    <3>1. CASE x = t
      BY <1>1, <1>6, <3>1
    <3>2. CASE x # t
      <4>1. PICK i \in 1..n : Own(i) /\ stack[i] = x
        BY <1>2, <1>5, <2>1, <3>2 DEF Searching, GreyHasPlace
      <4>2. i < n /\ i \in 1..m
        BY <1>1, <3>2, <4>1
      <4> QED BY <1>1, <1>6, <4>1, <4>2
    <3> QED BY <3>1, <3>2
  <2> QED BY <1>5, <2>1 DEF GreyHasPlace
<1>9. PathOnStack'
  <2>1. ASSUME NEW i \in 1..m, i > 1
        PROVE  \E j \in 1..(i - 1) : /\ Own(j)' /\ stack'[i] \in Needs[stack'[j]]
                                     /\ \A k \in (j + 1)..(i - 1) : ~Own(k)'
    <3>1. CASE i <= n
      <4>1. PICK j \in 1..(i - 1) : /\ Own(j) /\ stack[i] \in Needs[stack[j]]
                                    /\ \A k \in (j + 1)..(i - 1) : ~Own(k)
        BY <1>5, <2>1, <3>1 DEF Searching, PathOnStack
      <4>2. j < n /\ j \in 1..n /\ j \in 1..m /\ i \in 1..n
        BY <1>1, <3>1
      <4>3. \A k \in (j + 1)..(i - 1) : k \in 1..m /\ k # n
        BY <1>1, <3>1
      <4>4. Own(j)' /\ \A k \in (j + 1)..(i - 1) : ~Own(k)'
        BY <1>6, <4>1, <4>2, <4>3
      <4>5. stack'[i] = stack[i] /\ stack'[j] = stack[j] /\ stack[j] \in Id
        BY <1>1, <4>2
      <4>6. stack'[i] \in Needs[stack'[j]]
        BY <4>1, <4>5, SameEdges
      <4> QED BY <4>4, <4>6
    <3>2. CASE i > n
      <4>1. stack'[i] \in Needs[t] /\ stack'[n] = t
        BY <1>1, <3>2 DEF W, Whites
      <4>2. n \in 1..(i - 1) /\ n \in 1..m /\ \A k \in (n + 1)..(i - 1) : k \in 1..m /\ ~(k = n \/ k < n)
        BY <1>1, <3>2
      <4>3. Own(n)' /\ \A k \in (n + 1)..(i - 1) : ~Own(k)'
        BY <1>6, <4>2
      <4>4. stack'[i] \in Needs[stack'[n]]
        BY <4>1, SameEdges
      <4> QED BY <4>2, <4>3, <4>4
    <3> QED BY <1>1, <3>1, <3>2
  <2> QED BY <1>5, <2>1, SameEdges DEF PathOnStack
<1>10. GreyWaits'
  <2>1. ASSUME NEW i \in 1..m, Own(i)', NEW d \in Needs[stack'[i]]
        PROVE  colour'[d] = "black" \/ \E k \in 1..m : k > i /\ stack'[k] = d
    <3>1. CASE i = n
      <4>1. d \in Needs[t]
        BY <1>1, <2>1, <3>1, SameEdges
      <4>2. CASE d \in W
        BY <1>1, <3>1, <4>2
      <4> QED BY <1>4, <4>1, <4>2
    <3>2. CASE i < n
      <4>1. Own(i) /\ i \in 1..n /\ stack'[i] = stack[i] /\ stack[i] \in Id
        BY <1>1, <1>6, <2>1, <3>2
      <4>2. d \in Needs[stack[i]]
        BY <2>1, <4>1, SameEdges
      <4>3. colour[d] = "black" \/ \E k \in 1..n : k > i /\ stack[k] = d
        BY <1>5, <4>1, <4>2 DEF Searching, GreyWaits
      <4>4. d \in Id
        BY <4>1, <4>2, EdgesInGraph
      <4>5. colour[d] = "black" => colour'[d] = "black"
        BY <1>2, <4>4
      <4>6. 1..n \subseteq 1..m
        BY <1>1
      <4> QED BY <1>1, <4>3, <4>5, <4>6
    <3> QED BY <1>6, <2>1, <3>1, <3>2
  <2> QED BY <1>5, <2>1, SameEdges DEF GreyWaits
<1>11. Black' = Black
  BY <1>2 DEF Black
<1>12. BlackClosed' /\ BlackAcyclic'
  <2>1. Black \subseteq Id
    BY DEF Black
  <2>2. BlackClosed'
    BY <1>11, <2>1, SameEdges DEF Searching, BlackClosed
  <2>3. BlackAcyclic'
    BY <1>11, <2>1, SameEdges DEF Searching, BlackAcyclic
  <2> QED BY <2>2, <2>3
<1>13. RootsSeen'
  <2>1. ASSUME NEW x \in Id, x < root, colour'[x] = "white" PROVE \E i \in 1..m : stack'[i] = x
    <3>1. PICK i \in 1..n : stack[i] = x
      BY <1>2, <1>5, <2>1 DEF Searching, RootsSeen
    <3>2. i \in 1..m
      BY <1>1
    <3> QED BY <1>1, <3>1, <3>2
  <2> QED BY <1>5, <2>1 DEF RootsSeen
<1> QED BY <1>7, <1>8, <1>9, <1>10, <1>12, <1>13 DEF Searching

\* The top of the stack, grey or black, is finished and taken off.
LEMMA LeaveKeeps ==
  ASSUME GraphTypes, Searching, NEW n, Pops(n), NEW t \in Id, t = stack[n], colour[t] # "white",
         colour' = [colour EXCEPT ![t] = "black"], stack' \in Seq(Id), UNCHANGED <<graph, root, verdict>>
  PROVE  Searching'
<1>1. /\ n \in Nat \ {0} /\ Len(stack) = n /\ Len(stack') = n - 1
      /\ \A i \in 1..(n - 1) : stack'[i] = stack[i]
      /\ \A i \in 1..n : stack[i] \in Id
  BY DEF Pops, Searching, SearchTypes
<1>2. colour \in [Id -> Colour] /\ colour' \in [Id -> Colour] /\ colour'[t] = "black" /\ \A x \in Id \ {t} : colour'[x] = colour[x]
  BY DEF Searching, SearchTypes, Colour
<1>3. Place = 1..n /\ Place' = 1..(n - 1)
  BY <1>1 DEF Place
<1>4. \A i \in 1..(n - 1) : i \in 1..n /\ i < n
  BY <1>1
<1>5. \A i \in 1..(n - 1) : Own(i)' <=> Own(i)
  <2> SUFFICES ASSUME NEW i \in 1..(n - 1) PROVE Own(i)' <=> Own(i)
    OBVIOUS
  <2>1. stack'[i] = stack[i] /\ stack[i] \in Id /\ i \in 1..n /\ n \in 1..n /\ n > i
    BY <1>1, <1>4
  <2>2. CASE stack[i] = t
    BY <1>2, <1>3, <2>1, <2>2 DEF Own
  <2>3. CASE stack[i] # t
    <3>1. colour'[stack'[i]] = colour[stack[i]]
      BY <1>2, <2>1, <2>3
    <3>2. \A j \in 1..n : j \in 1..(n - 1) \/ j = n
      BY <1>1
    <3>3. (\A j \in 1..(n - 1) : j > i => stack'[j] # stack'[i]) <=> (\A j \in 1..n : j > i => stack[j] # stack[i])
      BY <1>1, <1>4, <2>1, <2>3, <3>2
    <3>4. Own(i)' <=> colour'[stack'[i]] = "grey" /\ \A j \in 1..(n - 1) : j > i => stack'[j] # stack'[i]
      BY <1>3 DEF Own
    <3>5. Own(i) <=> colour[stack[i]] = "grey" /\ \A j \in 1..n : j > i => stack[j] # stack[i]
      BY <1>3, <2>1 DEF Own
    <3> QED BY <3>1, <3>3, <3>4, <3>5
  <2> QED BY <2>2, <2>3
<1>6. Needs[t] \subseteq Black
  <2>1. CASE colour[t] = "black"
    BY <2>1 DEF Searching, BlackClosed, Black
  <2>2. CASE colour[t] = "grey"
    <3>1. Own(n) /\ n \in Place
      BY <1>1, <1>3, <2>2 DEF Own
    <3>2. \A d \in Needs[t] : colour[d] = "black" \/ \E k \in 1..n : k > n /\ stack[k] = d
      BY <1>3, <3>1 DEF Searching, GreyWaits
    <3>3. \A k \in 1..n : ~(k > n)
      BY <1>1
    <3> QED BY <3>2, <3>3, EdgesInGraph DEF Black
  <2> QED BY <1>2, <2>1, <2>2 DEF Colour
<1>7. Black' = Black \cup {t} /\ Black \subseteq Id
  BY <1>2 DEF Black
<1>8. SearchTypes'
  BY <1>2 DEF Searching, SearchTypes
<1>9. GreyHasPlace'
  <2>1. ASSUME NEW x \in Id, colour'[x] = "grey" PROVE \E i \in 1..(n - 1) : Own(i)' /\ stack'[i] = x
    <3>1. x # t
      BY <1>2, <2>1
    <3>2. PICK i \in 1..n : Own(i) /\ stack[i] = x
      BY <1>2, <1>3, <2>1, <3>1 DEF Searching, GreyHasPlace
    <3>3. i \in 1..(n - 1)
      BY <1>1, <3>1, <3>2
    <3> QED BY <1>1, <1>5, <3>2, <3>3
  <2> QED BY <1>3, <2>1 DEF GreyHasPlace
<1>10. PathOnStack'
  <2>1. ASSUME NEW i \in 1..(n - 1), i > 1
        PROVE  \E j \in 1..(i - 1) : /\ Own(j)' /\ stack'[i] \in Needs[stack'[j]]
                                     /\ \A k \in (j + 1)..(i - 1) : ~Own(k)'
    <3>1. PICK j \in 1..(i - 1) : /\ Own(j) /\ stack[i] \in Needs[stack[j]]
                                  /\ \A k \in (j + 1)..(i - 1) : ~Own(k)
      BY <1>3, <1>4, <2>1 DEF Searching, PathOnStack
    <3>2. j \in 1..(n - 1) /\ \A k \in (j + 1)..(i - 1) : k \in 1..(n - 1)
      BY <1>1
    <3>3. Own(j)' /\ \A k \in (j + 1)..(i - 1) : ~Own(k)'
      BY <1>5, <3>1, <3>2
    <3>4. stack'[i] = stack[i] /\ stack'[j] = stack[j] /\ stack[j] \in Id
      BY <1>1, <1>4, <3>2
    <3>5. stack'[i] \in Needs[stack'[j]]
      BY <3>1, <3>4, SameEdges
    <3> QED BY <3>3, <3>5
  <2> QED BY <1>3, <2>1, SameEdges DEF PathOnStack
<1>11. GreyWaits'
  <2>1. ASSUME NEW i \in 1..(n - 1), Own(i)', NEW d \in Needs[stack'[i]]
        PROVE  colour'[d] = "black" \/ \E k \in 1..(n - 1) : k > i /\ stack'[k] = d
    <3>1. Own(i) /\ i \in 1..n /\ stack'[i] = stack[i] /\ stack[i] \in Id
      BY <1>1, <1>4, <1>5, <2>1
    <3>2. d \in Needs[stack[i]]
      BY <2>1, <3>1, SameEdges
    <3>3. d \in Id
      BY <3>1, <3>2, EdgesInGraph
    <3>4. CASE colour[d] = "black"
      BY <1>2, <3>3, <3>4
    <3>5. CASE colour[d] # "black"
      <4>1. PICK k \in 1..n : k > i /\ stack[k] = d
        BY <1>3, <3>1, <3>2, <3>5 DEF Searching, GreyWaits
      <4>2. CASE k = n
        BY <1>2, <4>1, <4>2
      <4>3. CASE k # n
        <5>1. k \in 1..(n - 1)
          BY <1>1, <4>3
        <5> QED BY <1>1, <4>1, <5>1
      <4> QED BY <4>2, <4>3
    <3> QED BY <3>4, <3>5
  <2> QED BY <1>3, <2>1, SameEdges DEF GreyWaits
<1>12. BlackClosed'
  <2>1. \A x \in Black \cup {t} : x \in Id /\ Needs[x] \subseteq Black
    BY <1>6, <1>7 DEF Searching, BlackClosed
  <2>2. \A x \in Black \cup {t} : Needs'[x] \subseteq Black \cup {t}
    BY <2>1, SameEdges
  <2> QED BY <1>7, <2>2 DEF BlackClosed
<1>13. BlackAcyclic'
  <2>1. ASSUME NEW S \in SUBSET (Black \cup {t}), S # {} PROVE \E x \in S : Needs[x] \cap S = {}
    <3>1. CASE t \in Black
      <4>1. S \in SUBSET Black
        BY <3>1
      <4> QED BY <2>1, <4>1 DEF Searching, BlackAcyclic
    <3>2. CASE t \notin Black
      <4>1. CASE S \ {t} # {}
        <5>1. S \ {t} \in SUBSET Black
          OBVIOUS
        <5>2. PICK x \in S \ {t} : Needs[x] \cap (S \ {t}) = {}
          BY <4>1, <5>1 DEF Searching, BlackAcyclic
        <5>3. Needs[x] \subseteq Black
          BY <5>1 DEF Searching, BlackClosed
        <5> QED BY <3>2, <5>2, <5>3
      <4>2. CASE S \ {t} = {}
        <5>1. S = {t}
          BY <2>1, <4>2
        <5> QED BY <1>6, <3>2, <5>1
      <4> QED BY <4>1, <4>2
    <3> QED BY <3>1, <3>2
  <2>2. \A S \in SUBSET (Black \cup {t}) : \A x \in S : Needs'[x] = Needs[x]
    BY <1>7, SameEdges
  <2>3. \A S \in SUBSET (Black \cup {t}) : S # {} => \E x \in S : Needs'[x] \cap S = {}
    <3> SUFFICES ASSUME NEW S \in SUBSET (Black \cup {t}), S # {} PROVE \E x \in S : Needs'[x] \cap S = {}
      OBVIOUS
    <3>1. PICK x \in S : Needs[x] \cap S = {}
      BY <2>1
    <3> QED BY <2>2, <3>1
  <2> QED BY <1>7, <2>3 DEF BlackAcyclic
<1>14. RootsSeen'
  <2>1. ASSUME NEW x \in Id, x < root, colour'[x] = "white" PROVE \E i \in 1..(n - 1) : stack'[i] = x
    <3>1. x # t /\ colour[x] = "white"
      BY <1>2, <2>1
    <3>2. PICK i \in 1..n : stack[i] = x
      BY <1>3, <2>1, <3>1 DEF Searching, RootsSeen
    <3>3. i \in 1..(n - 1)
      BY <1>1, <3>1, <3>2
    <3> QED BY <1>1, <3>2, <3>3
  <2> QED BY <1>3, <2>1 DEF RootsSeen
<1> QED BY <1>8, <1>9, <1>10, <1>11, <1>12, <1>13, <1>14 DEF Searching

\* The next root, where nothing waits: nothing is grey then.
LEMMA RootKeeps ==
  ASSUME GraphTypes, Searching, NextRoot PROVE Searching'
<1>1. /\ stack = << >> /\ root <= Size /\ root' = root + 1 /\ root \in Nat
      /\ stack' = IF colour[root] = "white" THEN <<root>> ELSE stack
      /\ UNCHANGED <<graph, colour, verdict>>
  BY DEF NextRoot, Searching, SearchTypes
<1>2. Place = {}
  BY <1>1 DEF Place
<1>3. \A x \in Id : colour[x] # "grey"
  BY <1>2 DEF Searching, GreyHasPlace
<1>4. Black' = Black /\ Black \subseteq Id
  BY <1>1 DEF Black
<1>5. BlackClosed' /\ BlackAcyclic'
  <2>1. BlackClosed'
    BY <1>1, <1>4, SameEdges DEF Searching, BlackClosed
  <2>2. BlackAcyclic'
    BY <1>1, <1>4, SameEdges DEF Searching, BlackAcyclic
  <2> QED BY <2>1, <2>2
<1>6. root \in Id /\ root \in Nat
  BY <1>1, SizeAssumption DEF Searching, SearchTypes, Id
<1>7. CASE colour[root] = "white"
  <2>1. stack' = <<root>>
    BY <1>1, <1>7
  <2>2. stack' \in Seq(Id) /\ Len(stack') = 1 /\ stack'[1] = root
    BY <1>6, <2>1
  <2>3. Place' = {1}
    BY <2>2 DEF Place
  <2>4. SearchTypes'
    BY <1>1, <1>6, <2>2 DEF Searching, SearchTypes
  <2>5. GreyHasPlace' /\ GreyWaits'
    BY <1>1, <1>3, <1>6, <1>7, <2>2, <2>3 DEF GreyHasPlace, GreyWaits, Own
  <2>6. PathOnStack'
    BY <2>3 DEF PathOnStack
  <2>7. RootsSeen'
    <3>1. ASSUME NEW x \in Id, x < root + 1, colour[x] = "white" PROVE x = root
      <4>1. x \in Nat
        BY SizeAssumption DEF Id
      <4>2. x < root \/ x = root
        BY <1>6, <3>1, <4>1
      <4> QED BY <1>2, <3>1, <4>2 DEF Searching, RootsSeen
    <3> QED BY <1>1, <2>2, <2>3, <3>1 DEF RootsSeen
  <2> QED BY <1>5, <2>4, <2>5, <2>6, <2>7 DEF Searching
<1>8. CASE colour[root] # "white"
  <2>1. stack' = stack /\ Place' = {}
    BY <1>1, <1>8 DEF Place
  <2>2. SearchTypes'
    BY <1>1, <1>6, <2>1 DEF Searching, SearchTypes
  <2>3. GreyHasPlace' /\ GreyWaits' /\ PathOnStack'
    BY <1>1, <1>3, <2>1 DEF GreyHasPlace, GreyWaits, PathOnStack
  <2>4. RootsSeen'
    <3>1. ASSUME NEW x \in Id, x < root + 1 PROVE colour[x] # "white"
      <4>1. x \in Nat
        BY SizeAssumption DEF Id
      <4>2. x < root \/ x = root
        BY <1>6, <3>1, <4>1
      <4> QED BY <1>2, <1>8, <4>2 DEF Searching, RootsSeen
    <3> QED BY <1>1, <3>1 DEF RootsSeen
  <2> QED BY <1>5, <2>2, <2>3, <2>4 DEF Searching
<1> QED BY <1>7, <1>8

\* The search has come to its end: every task is finished.
LEMMA AllBlack ==
  ASSUME Searching, stack = << >>, root > Size PROVE Black = Id /\ Dag!Acyclic
<1>1. Place = {}
  BY DEF Place
<1>2. \A x \in Id : x < root
  BY SizeAssumption DEF Id, Searching, SearchTypes
<1>3. \A x \in Id : colour[x] = "black"
  BY <1>1, <1>2 DEF Searching, SearchTypes, Colour, GreyHasPlace, RootsSeen
<1>4. Black = Id
  BY <1>3 DEF Black
<1>5. \A x \in Id : Needs[x] = Dag!Edges(x)
  BY DEF Needs
<1>6. Dag!Acyclic
  BY <1>4, <1>5 DEF Searching, BlackAcyclic, Dag!Acyclic
<1> QED BY <1>4, <1>6

-----------------------------------------------------------------------------
(***************************************************************************)
(* The sweep.                                                              *)
(***************************************************************************)
SweepTypes ==
  /\ found \in [Id -> FoundState]
  /\ st \in [Id -> FoundState \cup {"blocked"}]
  /\ leg \in {"none", "memory", "postgres", "done"}
  /\ cursor \in Nat \ {0}
  /\ changed \in BOOLEAN

\* What the sweep has blocked had to be blocked.
OnlyDownstream ==
  \A t \in Id : st[t] # found[t] =>
    st[t] = "blocked" /\ Dag!Unfinished(found, t) /\ t \in Dag!Downstream(found)

\* A pass that has changed nothing has nothing to change behind it.
QuietBehind == leg = "memory" /\ cursor > 1 /\ ~changed => \A t \in Id : t < cursor => ~Blocks(t)

SweepInv ==
  /\ SweepTypes
  /\ IF leg = "none" THEN cursor = 1 ELSE verdict = "none"
  /\ OnlyDownstream /\ QuietBehind
  /\ leg = "done" => \A t \in Id : ~Blocks(t)

DagInv ==
  /\ GraphTypes /\ SearchTypes
  /\ verdict = "searching" => Searching
  /\ verdict = "cycle" => ~Dag!Acyclic
  /\ verdict = "none" => Dag!Acyclic
  /\ SweepInv

Requires == [t \in Id |-> Targets(required, t)]

LEMMA RequiredInGraph == ASSUME GraphTypes PROVE \A t \in Id : Requires[t] \subseteq Id
BY DEF GraphTypes, Targets, Requires

LEMMA BlocksIs ==
  ASSUME NEW f, NEW t \in Id
  PROVE  Dag!NeedsDead(f, t) <=> Dag!Unfinished(f, t) /\ \E d \in Requires[t] : f[d] \in Dag!Dead
BY DEF Dag!NeedsDead, Requires

\* A set closed under blocking has what needs a dead task and what needs one of the set.
LEMMA ClosedIs ==
  ASSUME NEW f, NEW S
  PROVE  Dag!ClosedUnderBlocking(f, S) <=>
           \A t \in Id : Dag!Unfinished(f, t) /\ (\E d \in Requires[t] : f[d] \in Dag!Dead \/ d \in S) => t \in S
BY BlocksIs DEF Dag!ClosedUnderBlocking, Requires

\* Whatever needs a dead task, when only what had to be is blocked, has to be blocked as well.
LEMMA BlockedIsDownstream ==
  ASSUME GraphTypes, SweepTypes, OnlyDownstream, NEW t \in Id, Blocks(t)
  PROVE  st[t] = found[t] /\ Dag!Unfinished(found, t) /\ t \in Dag!Downstream(found)
<1>1. PICK d \in Requires[t] : Dag!Unfinished(st, t) /\ st[d] \in Dag!Dead
  BY BlocksIs DEF Blocks
<1>2. d \in Id
  BY RequiredInGraph
<1>3. st[t] = found[t] /\ Dag!Unfinished(found, t)
  BY <1>1 DEF OnlyDownstream, Dag!Unfinished, Dag!Terminal
<1>4. ASSUME NEW S \in SUBSET Id, Dag!ClosedUnderBlocking(found, S) PROVE t \in S
  <2>1. found[d] \in Dag!Dead \/ d \in S
    <3>1. CASE st[d] = found[d]
      BY <1>1, <3>1
    <3>2. CASE st[d] # found[d]
      <4>1. d \in Dag!Downstream(found)
        BY <1>2, <3>2 DEF OnlyDownstream
      <4> QED BY <1>4, <4>1 DEF Dag!Downstream
    <3> QED BY <3>1, <3>2
  <2> QED BY <1>3, <1>4, <2>1, ClosedIs
<1> QED BY <1>3, <1>4 DEF Dag!Downstream

\* Where nothing blocks any more, everything that had to be blocked is.
LEMMA QuietIsLeast ==
  ASSUME GraphTypes, SweepTypes, OnlyDownstream, \A t \in Id : ~Blocks(t)
  PROVE  st = Dag!PropagateFailure(found)
<1> DEFINE B == {t \in Id : st[t] # found[t]}
<1>1. ASSUME NEW t \in Id, Dag!Unfinished(found, t), NEW d \in Requires[t], found[d] \in Dag!Dead \/ d \in B
      PROVE  t \in B
  <2>1. d \in Id
    BY RequiredInGraph
  <2>2. st[d] \in Dag!Dead
    <3>1. CASE d \in B
      BY <2>1, <3>1 DEF OnlyDownstream, Dag!Dead
    <3>2. CASE d \notin B
      BY <1>1, <2>1, <3>2
    <3> QED BY <3>1, <3>2
  <2>3. CASE st[t] = found[t]
    <3>1. Dag!Unfinished(st, t)
      BY <1>1, <2>3 DEF Dag!Unfinished
    <3>2. Dag!NeedsDead(st, t)
      BY <2>2, <3>1, BlocksIs
    <3> QED BY <3>2 DEF Blocks
  <2> QED BY <2>3
<1>2. Dag!ClosedUnderBlocking(found, B) /\ B \in SUBSET Id
  BY <1>1, ClosedIs
<1>3. \A t \in Id : t \in Dag!Downstream(found) => t \in B
  BY <1>2 DEF Dag!Downstream
<1>4. \A t \in Id : st[t] = IF t \in Dag!Downstream(found) THEN "blocked" ELSE found[t]
  BY <1>3 DEF OnlyDownstream
<1>5. st = [t \in Id |-> st[t]]
  BY DEF SweepTypes
<1>6. st = [t \in Id |-> IF t \in Dag!Downstream(found) THEN "blocked" ELSE found[t]]
  BY <1>4, <1>5
<1> QED BY <1>6 DEF Dag!PropagateFailure

\* And a plan without a cycle has then something that can start, or nothing left.
LEMMA QuietIsNotStalled ==
  ASSUME GraphTypes, SweepTypes, Dag!Acyclic, \A t \in Id : ~Blocks(t)
  PROVE  ~Dag!Stalled(st)
<1> SUFFICES ASSUME Dag!Stalled(st) PROVE FALSE
  OBVIOUS
<1> DEFINE S == {t \in Id : Dag!Unfinished(st, t)}
<1>1. S \in SUBSET Id /\ S # {}
  BY DEF Dag!Stalled
<1>2. PICK t \in S : Dag!Edges(t) \cap S = {}
  BY <1>1 DEF Dag!Acyclic
<1>3. t \in Id /\ Dag!Unfinished(st, t)
  OBVIOUS
<1>4. Dag!Edges(t) = Needs[t] /\ Needs[t] = Requires[t] \cup Targets(contributory, t) /\ Needs[t] \subseteq Id
  BY <1>3, EdgesAre, EdgesInGraph DEF Needs, Requires
<1>5. ASSUME NEW d \in Needs[t] PROVE st[d] \in Dag!Terminal
  <2>1. d \in Id /\ ~Dag!Unfinished(st, d)
    BY <1>2, <1>4
  <2>2. st[d] # Dag!Absent
    BY <2>1 DEF SweepTypes, FoundState, Dag!Absent
  <2> QED BY <2>1, <2>2 DEF Dag!Unfinished
<1>6. \A d \in Requires[t] : st[d] = "succeeded"
  <2> SUFFICES ASSUME NEW d \in Requires[t] PROVE st[d] = "succeeded"
    OBVIOUS
  <2>1. st[d] \in Dag!Terminal
    BY <1>4, <1>5
  <2>2. ~Dag!NeedsDead(st, t)
    BY <1>3 DEF Blocks
  <2>3. st[d] \notin Dag!Dead
    BY <1>3, <2>2, BlocksIs
  <2> QED BY <2>1, <2>3 DEF Dag!Terminal, Dag!Dead
<1>7. Dag!DependenciesSucceeded(st, t)
  BY <1>3, <1>4, <1>5, <1>6 DEF Dag!DependenciesSucceeded, Requires
<1>8. st[t] = "pending"
  BY <1>3 DEF SweepTypes, FoundState, Dag!Unfinished, Dag!Terminal, Dag!Stalled
<1> QED BY <1>3, <1>7, <1>8 DEF Dag!Stalled, Dag!ReadySet

\* A pass blocks what has to be blocked.
LEMMA BlockingKeeps ==
  ASSUME GraphTypes, SweepTypes, OnlyDownstream, found' = found, UNCHANGED graph, NEW T \in SUBSET Id, \A t \in T : Blocks(t),
         st' = [t \in Id |-> IF t \in T THEN "blocked" ELSE st[t]]
  PROVE  st' \in [Id -> FoundState \cup {"blocked"}] /\ OnlyDownstream'
<1>1. st' \in [Id -> FoundState \cup {"blocked"}]
  BY DEF SweepTypes
<1>2. Dag!Downstream(found)' = Dag!Downstream(found) /\ \A t \in Id : Dag!Unfinished(found, t)' <=> Dag!Unfinished(found, t)
  BY DEF Dag!Downstream, Dag!ClosedUnderBlocking, Dag!NeedsDead, Dag!Unfinished, graph
<1>3. ASSUME NEW t \in Id, st'[t] # found[t]
      PROVE  st'[t] = "blocked" /\ Dag!Unfinished(found, t) /\ t \in Dag!Downstream(found)
  <2>1. CASE t \in T
    BY <2>1, BlockedIsDownstream
  <2>2. CASE t \notin T
    BY <1>3, <2>2 DEF OnlyDownstream
  <2> QED BY <2>1, <2>2
<1> QED BY <1>1, <1>2, <1>3 DEF OnlyDownstream

LEMMA GraphStill ==
  ASSUME UNCHANGED graph
  PROVE  /\ GraphTypes => GraphTypes'
         /\ Dag!Acyclic' <=> Dag!Acyclic
         /\ st' = st => \A t \in Id : Blocks(t)' <=> Blocks(t)
BY DEF graph, GraphTypes, Dag!Acyclic, Dag!Edges, Blocks, Dag!NeedsDead, Dag!Unfinished, Targets

LEMMA SweepStill == ASSUME SweepInv, UNCHANGED <<graph, sweep>>, verdict = "none" => verdict' = "none" PROVE SweepInv'
<1>1. found' = found /\ st' = st /\ leg' = leg /\ cursor' = cursor /\ changed' = changed
  BY DEF sweep
<1>2. SweepTypes'
  BY <1>1 DEF SweepInv, SweepTypes
<1>3. Dag!Downstream(found)' = Dag!Downstream(found) /\ \A t \in Id : Dag!Unfinished(found, t)' <=> Dag!Unfinished(found, t)
  BY <1>1 DEF Dag!Downstream, Dag!ClosedUnderBlocking, Dag!NeedsDead, Dag!Unfinished, graph
<1>4. OnlyDownstream'
  BY <1>1, <1>3 DEF SweepInv, OnlyDownstream
<1>5. QuietBehind'
  BY <1>1, GraphStill DEF SweepInv, QuietBehind
<1> QED BY <1>1, <1>2, <1>4, <1>5, GraphStill DEF SweepInv

LEMMA SearchStep ==
  ASSUME DagInv, NextRoot \/ Enter \/ Leave \/ NoCycle PROVE DagInv'
<1> USE DEF DagInv
<1>1. UNCHANGED <<graph, sweep>> /\ verdict = "searching" /\ Searching /\ verdict # "none"
  BY DEF NextRoot, Enter, Leave, NoCycle
<1>2. GraphTypes' /\ SweepInv'
  BY <1>1, GraphStill, SweepStill
<1>3. ASSUME Searching', verdict' = "searching" PROVE DagInv'
  BY <1>2, <1>3 DEF Searching
<1>4. ASSUME stack # << >>
      PROVE  \E n : n = Len(stack) /\ n \in Nat \ {0} /\ Top = stack[n] /\ Top \in Id
  BY <1>4 DEF Top, SearchTypes
<1>5. CASE NextRoot
  <2>1. Searching' /\ verdict' = "searching"
    BY <1>1, <1>5, RootKeeps DEF NextRoot
  <2> QED BY <1>3, <2>1
<1>6. CASE Enter
  <2>1. PICK n : n = Len(stack) /\ n \in Nat \ {0} /\ Top = stack[n] /\ Top \in Id
    BY <1>4, <1>6 DEF Enter
  <2>2. PICK t : t = Top
    OBVIOUS
  <2>3. t \in Id /\ colour[t] = "white" /\ colour' = [colour EXCEPT ![t] = "grey"] /\ UNCHANGED <<graph, root>> /\ stack \in Seq(Id)
    BY <1>6, <2>1, <2>2 DEF Enter, SearchTypes
  <2>4. Needs[t] = Dag!Edges(t)
    BY <2>3 DEF Needs
  <2>5. CASE \E d \in Dag!Edges(t) : colour'[d] = "grey"
    <3>1. verdict' = "cycle" /\ stack' = stack
      BY <1>6, <2>2, <2>5 DEF Enter
    <3>2. PICK d \in Needs[t] : colour'[d] = "grey"
      BY <2>4, <2>5
    <3>3. d = t \/ colour[d] = "grey"
      BY <2>3, <3>2, EdgesInGraph DEF SearchTypes
    <3>4. ~Dag!Acyclic
      BY <1>1, <2>1, <2>2, <2>3, <3>2, <3>3, BackEdgeIsCycle DEF Searching
    <3>5. SearchTypes'
      BY <2>3, <3>1 DEF SearchTypes, Colour
    <3> QED BY <1>1, <1>2, <3>1, <3>4, <3>5, GraphStill
  <2>6. CASE ~\E d \in Dag!Edges(t) : colour'[d] = "grey"
    <3>1. verdict' = verdict /\ \E p \in EdgeLists(t) : stack' = stack \o p
      BY <1>6, <2>2, <2>6 DEF Enter
    <3>2. stack' \in Seq(Id) /\ \E k, m : Pushes(k, m, Whites(t))
      BY <2>3, <3>1, PushingIs
    <3>3. PICK k, m : Pushes(k, m, Whites(t))
      BY <3>2
    <3>4. k = n
      BY <2>1, <3>3 DEF Pushes
    <3>5. \A d \in Needs[t] : colour'[d] # "grey"
      BY <2>4, <2>6
    <3>6. Searching'
      BY <1>1, <2>1, <2>2, <2>3, <3>1, <3>2, <3>3, <3>4, <3>5, EnterKeeps
    <3> QED BY <1>1, <1>3, <3>1, <3>6
  <2> QED BY <2>5, <2>6
<1>7. CASE Leave
  <2>1. stack \in Seq(Id) /\ stack # << >> /\ stack' = Pop /\ verdict' = verdict
    BY <1>7 DEF Leave, SearchTypes
  <2>2. stack' \in Seq(Id) /\ \E n : Pops(n)
    BY <2>1, PoppingIs
  <2>3. PICK n : Pops(n)
    BY <2>2
  <2>4. PICK t : t = Top
    OBVIOUS
  <2>5. t \in Id /\ t = stack[n] /\ colour[t] # "white" /\ colour' = [colour EXCEPT ![t] = "black"] /\ UNCHANGED <<graph, root>>
    BY <1>4, <1>7, <2>1, <2>3, <2>4 DEF Leave, Pops
  <2>6. Searching'
    BY <1>1, <2>1, <2>2, <2>3, <2>5, LeaveKeeps
  <2> QED BY <1>1, <1>3, <2>1, <2>6
<1>8. CASE NoCycle
  <2>1. Dag!Acyclic /\ verdict' = "none" /\ SearchTypes'
    BY <1>1, <1>8, AllBlack DEF NoCycle, SearchTypes
  <2> QED BY <1>1, <1>2, <2>1, GraphStill
<1> QED BY <1>5, <1>6, <1>7, <1>8

LEMMA SearchStill == ASSUME DagInv, UNCHANGED <<graph, search>>, verdict # "searching", SweepInv' PROVE DagInv'
BY GraphStill DEF DagInv, search, SearchTypes

LEMMA SweepStep ==
  ASSUME DagInv, Arrive \/ SweepTask \/ EndPass \/ SweepPass PROVE DagInv'
<1>1. UNCHANGED <<graph, search>> /\ verdict' = verdict
  BY DEF Arrive, SweepTask, EndPass, SweepPass, search
<1>2. verdict = "none" /\ SweepInv /\ GraphTypes /\ SweepTypes /\ OnlyDownstream
  BY DEF Arrive, SweepTask, EndPass, SweepPass, DagInv, SweepInv
<1>3. CASE Arrive
  <2>1. found' \in [Id -> FoundState] /\ st' = found' /\ leg' \in {"memory", "postgres"} /\ cursor' = cursor /\ changed' = changed /\ leg = "none"
    BY <1>3 DEF Arrive
  <2>2. SweepTypes' /\ OnlyDownstream'
    BY <1>2, <2>1 DEF SweepTypes, OnlyDownstream
  <2>3. QuietBehind'
    BY <1>2, <2>1 DEF QuietBehind, SweepInv
  <2>4. SweepInv'
    BY <1>1, <1>2, <2>1, <2>2, <2>3 DEF SweepInv
  <2> QED BY <1>1, <1>2, <2>4, SearchStill
<1>4. \A t \in Id : Blocks(t) \in BOOLEAN
  BY DEF Blocks, Dag!NeedsDead, Dag!Unfinished
<1>5. CASE SweepTask
  <2>1. /\ leg = "memory" /\ cursor \in Id /\ cursor \in Nat /\ found' = found /\ leg' = leg /\ cursor' = cursor + 1
        /\ st' = [st EXCEPT ![cursor] = IF Blocks(cursor) THEN "blocked" ELSE st[cursor]]
        /\ changed' = IF cursor = 1 THEN Blocks(1) ELSE changed \/ Blocks(cursor)
    BY <1>2, <1>5, SizeAssumption DEF SweepTask, SweepTypes, Id
  <2>2. PICK c : c = cursor
    OBVIOUS
  <2> DEFINE T == IF Blocks(c) THEN {c} ELSE {}
  <2>3. T \in SUBSET Id /\ \A t \in T : Blocks(t)
    BY <2>1, <2>2
  <2>4. st' = [t \in Id |-> IF t \in T THEN "blocked" ELSE st[t]]
    <3>1. CASE Blocks(c)
      BY <1>2, <2>1, <2>2, <3>1 DEF SweepTypes
    <3>2. CASE ~Blocks(c)
      BY <1>2, <2>1, <2>2, <3>2 DEF SweepTypes
    <3> QED BY <3>1, <3>2
  <2>5. st' \in [Id -> FoundState \cup {"blocked"}] /\ OnlyDownstream'
    <3> HIDE DEF T
    <3> QED BY <1>1, <1>2, <2>1, <2>3, <2>4, BlockingKeeps
  <2>6. changed' \in BOOLEAN
    BY <1>2, <1>4, <2>1 DEF SweepTypes
  <2>7. SweepTypes'
    BY <1>2, <2>1, <2>5, <2>6 DEF SweepTypes
  <2>8. ASSUME changed' = FALSE, NEW t \in Id, t < c + 1 PROVE ~Blocks(t)'
    <3>1. ~Blocks(c) /\ (c = 1 \/ ~changed)
      BY <1>2, <1>4, <2>1, <2>2, <2>8 DEF SweepTypes
    <3>2. st' = st
      BY <1>2, <2>1, <2>2, <3>1 DEF SweepTypes
    <3>3. t \in Nat /\ c \in Nat /\ t >= 1
      BY <2>1, <2>2, SizeAssumption DEF Id
    <3>4. t = c \/ (c > 1 /\ t < c)
      BY <2>8, <3>3
    <3>5. ~Blocks(t)
      BY <1>2, <2>1, <2>2, <3>1, <3>3, <3>4 DEF SweepInv, QuietBehind
    <3> QED BY <1>1, <3>2, <3>5, GraphStill
  <2>9. QuietBehind'
    BY <2>1, <2>2, <2>6, <2>8 DEF QuietBehind
  <2>10. SweepInv'
    BY <1>1, <1>2, <2>1, <2>5, <2>7, <2>9 DEF SweepInv
  <2> QED BY <1>1, <1>2, <2>10, SearchStill
<1>6. CASE EndPass
  <2>1. /\ leg = "memory" /\ cursor > Size /\ found' = found /\ st' = st /\ changed' = changed /\ cursor' = 1
        /\ leg' = IF changed THEN leg ELSE "done"
    BY <1>6 DEF EndPass
  <2>2. SweepTypes' /\ leg' # "none"
    BY <1>2, <2>1 DEF SweepTypes
  <2>3. Dag!Downstream(found)' = Dag!Downstream(found) /\ \A t \in Id : Dag!Unfinished(found, t)' <=> Dag!Unfinished(found, t)
    BY <1>1, <2>1 DEF Dag!Downstream, Dag!ClosedUnderBlocking, Dag!NeedsDead, Dag!Unfinished, graph
  <2>4. OnlyDownstream'
    BY <1>2, <2>1, <2>3 DEF OnlyDownstream
  <2>5. QuietBehind'
    BY <2>1 DEF QuietBehind
  <2>6. ASSUME leg' = "done" PROVE \A t \in Id : ~Blocks(t)'
    <3>1. ~changed /\ \A t \in Id : t < cursor /\ cursor > 1
      BY <1>2, <2>1, <2>6, SizeAssumption DEF SweepTypes, Id
    <3>2. \A t \in Id : ~Blocks(t)
      BY <1>2, <2>1, <3>1 DEF SweepInv, QuietBehind
    <3> QED BY <1>1, <2>1, <3>2, GraphStill
  <2>7. SweepInv'
    BY <1>1, <1>2, <2>1, <2>2, <2>4, <2>5, <2>6 DEF SweepInv
  <2> QED BY <1>1, <1>2, <2>7, SearchStill
<1>7. CASE SweepPass
  <2>1. /\ leg = "postgres" /\ found' = found /\ cursor' = cursor /\ changed' = changed
        /\ st' = [t \in Id |-> IF Blocks(t) THEN "blocked" ELSE st[t]]
        /\ leg' = IF \E t \in Id : Blocks(t) THEN leg ELSE "done"
    BY <1>7 DEF SweepPass
  <2> DEFINE T == {t \in Id : Blocks(t)}
  <2>2. T \in SUBSET Id /\ (\A t \in T : Blocks(t)) /\ st' = [t \in Id |-> IF t \in T THEN "blocked" ELSE st[t]]
    BY <2>1
  <2>3. st' \in [Id -> FoundState \cup {"blocked"}] /\ OnlyDownstream'
    <3> HIDE DEF T
    <3> QED BY <1>1, <1>2, <2>1, <2>2, BlockingKeeps
  <2>4. SweepTypes' /\ leg' # "none" /\ leg' # "memory"
    BY <1>2, <2>1, <2>3 DEF SweepTypes
  <2>5. ASSUME leg' = "done" PROVE \A t \in Id : ~Blocks(t)'
    <3>1. \A t \in Id : ~Blocks(t)
      BY <2>1, <2>5
    <3>2. st' = st
      BY <1>2, <2>1, <3>1 DEF SweepTypes
    <3> QED BY <1>1, <3>1, <3>2, GraphStill
  <2>6. SweepInv'
    BY <1>1, <1>2, <2>3, <2>4, <2>5 DEF SweepInv, QuietBehind
  <2> QED BY <1>1, <1>2, <2>6, SearchStill
<1> QED BY <1>3, <1>5, <1>6, <1>7

LEMMA DagStarts == ASSUME Init PROVE DagInv
<1>1. GraphTypes
  BY DEF Init, SmallGraphs, GraphTypes
<1>2. SearchTypes /\ verdict = "searching" /\ stack = << >> /\ root = 1 /\ \A t \in Id : colour[t] = "white"
  BY DEF Init, SearchTypes, Colour
<1>3. Place = {} /\ Black = {}
  BY <1>2 DEF Place, Black
<1>4. ~\E t \in Id : t < root
  BY <1>2, SizeAssumption DEF Id
<1>5. Searching
  BY <1>2, <1>3, <1>4 DEF Searching, GreyHasPlace, PathOnStack, GreyWaits, BlackClosed, BlackAcyclic, RootsSeen
<1>6. SweepInv
  BY DEF Init, SweepInv, SweepTypes, FoundState, OnlyDownstream, QuietBehind
<1> QED BY <1>1, <1>2, <1>5, <1>6 DEF DagInv

LEMMA DagStays == ASSUME DagInv, UNCHANGED vars PROVE DagInv'
<1>1. UNCHANGED <<graph, search, sweep>> /\ verdict' = verdict
  BY DEF vars, search
<1>2. SweepInv'
  BY <1>1, SweepStill DEF DagInv
<1>3. CASE verdict # "searching"
  BY <1>1, <1>2, <1>3, SearchStill
<1>4. CASE verdict = "searching"
  <2>1. Needs' = Needs /\ colour' = colour /\ stack' = stack /\ root' = root
    BY <1>1, SameEdges DEF search
  <2>2. SearchTypes' /\ Black' = Black /\ Place' = Place /\ \A i : Own(i)' <=> Own(i)
    BY <1>1, <2>1 DEF DagInv, SearchTypes, Black, Place, Own
  <2>3. Searching'
    BY <1>4, <2>1, <2>2 DEF DagInv, Searching, GreyHasPlace, PathOnStack, GreyWaits, BlackClosed, BlackAcyclic, RootsSeen
  <2> QED BY <1>1, <1>2, <1>4, <2>2, <2>3, GraphStill DEF DagInv
<1> QED BY <1>3, <1>4

\* The invariant of both loops, over every graph and every order of a task's edges.
THEOREM LoopsAreRight == Spec => []DagInv
<1>1. Init => DagInv
  BY DagStarts
<1>2. DagInv /\ [Next]_vars => DagInv'
  BY SearchStep, SweepStep, DagStays DEF Next
<1> QED BY <1>1, <1>2, PTL DEF Spec

\* detectCycle answers "cycle" exactly when the graph has one.
THEOREM CyclesAreFound == Spec => []CycleVerdictIsRight
<1>1. DagInv => CycleVerdictIsRight
  BY DEF DagInv, CycleVerdictIsRight
<1> QED BY <1>1, LoopsAreRight, PTL

\* PropagateFailure and propagateFailure block the least set that must be blocked.
THEOREM BlockedIsWhatMustBe == Spec => []PropagationIsLeast
<1>1. DagInv => PropagationIsLeast
  BY QuietIsLeast DEF DagInv, SweepInv, PropagationIsLeast
<1> QED BY <1>1, LoopsAreRight, PTL

\* After either loop the plan is not stalled (what PropagatedNeverStalls says of the set,
\* said of the loops).
THEOREM PropagatedIsNotStalled == Spec => []NoStallAfterPropagation
<1>1. DagInv => NoStallAfterPropagation
  BY QuietIsNotStalled DEF DagInv, SweepInv, NoStallAfterPropagation
<1> QED BY <1>1, LoopsAreRight, PTL

=============================================================================
