------------------------------- MODULE Console -------------------------------
(***************************************************************************)
(* The console of one deployment, shared by its organizations:             *)
(* src/internal/api/server.go (loading and restoring a repository, asking, *)
(* recording, starting a goal), converse.go (the agent's turn, pending     *)
(* actions, confirming) and effects.go (proposing).                        *)
(*                                                                         *)
(* Each request is a goroutine; what they share is the process's memory    *)
(* (subjects, pending actions, the tool registry) and the database.  A     *)
(* request starts at most one thing, and an ask makes at most one pending  *)
(* action, so both are named by their request.                             *)
(***************************************************************************)
EXTENDS Routing, Memory
LOCAL INSTANCE SequencesExt

CONSTANTS
  Tenant, Repo,
  ToolKind,     \* the source-bound tools, in the order loadSubject replaces them
  Request,      \* Writer is this set
  Wishes,       \* sets of traffic: functions from Request to what it is for
  Choosable,      \* capabilities the model may choose
  MaxFaults, MaxRestarts   \* bounds

NoRepo == "no repository"
Fixture == "fixture"      \* what the tools are bound to at startup
Unregistered == "unregistered"   \* for the moment a tool is being replaced
Unasked == "unasked"      \* the cause of a run nobody confirmed

ASSUME ConsoleAssumption ==
  /\ Writer = Request /\ Unasked \notin Request /\ Unlocked \notin Request
  /\ \A w \in Wishes : \A q \in Request :
       w[q].kind \in {"load", "ask", "confirm"} /\ w[q].asked \in Request /\ w[q].yes \in BOOLEAN

VARIABLES
  wish,         \* request |-> [kind, tenant, conv, sentence, repo, asked, yes]
  req,          \* request |-> [step, ref, rest, sub, decided, faulty]; faulty is a ghost
  subject,      \* tenant |-> the repository in memory
  remembered,   \* tenant |-> the reference in the database
  tool,         \* tool |-> what it is bound to
  action,       \* request |-> the pending action it made: [step, capability, axis]
  said,         \* ghost: request |-> the answers its action got, in the order they were taken
  run,          \* request |-> what it started: [kind, repo, by, acted]
  faults, restarts

chatVars == <<wish, req, subject, remembered, tool, action, said, run, faults, restarts>>
consoleVars == <<chatVars, memoryVars>>

ConsoleInit ==
  /\ MemoryInit
  /\ wish \in Wishes
  /\ req = [q \in Request |-> [step |-> "new", ref |-> NoRepo, rest |-> << >>, sub |-> NoRepo,
                               decided |-> "", faulty |-> FALSE]]
  /\ subject = [t \in Tenant |-> NoRepo] /\ remembered = [t \in Tenant |-> NoRepo]
  /\ tool = [k \in ToSet(ToolKind) |-> Fixture]
  /\ action = [q \in Request |-> [step |-> "none", capability |-> "", axis |-> ""]]
  /\ said = [q \in Request |-> << >>]
  /\ run = [q \in Request |-> [kind |-> "none", repo |-> NoRepo, by |-> Unasked, acted |-> NoRepo]]
  /\ faults = 0 /\ restarts = 0

Fault == faults < MaxFaults /\ faults' = faults + 1
NoFault == faults' = faults

At(q, kind, step) == wish[q].kind = kind /\ req[q].step = step
Goto(q, step) == req' = [req EXCEPT ![q].step = step]

-----------------------------------------------------------------------------
(***************************************************************************)
(* The repository of an organization                                       *)
(***************************************************************************)
\* What comes after a subject was looked for, found or not.
Ready(q, s) == req' = [req EXCEPT ![q].sub = s, ![q].step = IF wish[q].kind = "ask" THEN "thinking" ELSE "acting"]

\* subjectOrRestore: from memory, or by loading again what is remembered; a reference that
\* cannot be read is none.
subjectOrRestore(q) ==
  LET t == wish[q].tenant IN
  \/ subject[t] # NoRepo /\ Ready(q, subject[t]) /\ NoFault
  \/ subject[t] = NoRepo /\ remembered[t] = NoRepo /\ Ready(q, NoRepo) /\ NoFault
  \/ subject[t] = NoRepo /\ remembered[t] # NoRepo /\ NoFault
       /\ req' = [req EXCEPT ![q].step = "resolving", ![q].ref = remembered[t]]
  \/ subject[t] = NoRepo /\ remembered[t] # NoRepo /\ Fault /\ Ready(q, NoRepo)

handleSubject(q) ==
  /\ At(q, "load", "new")
  /\ req' = [req EXCEPT ![q].step = "resolving", ![q].ref = wish[q].repo]
  /\ UNCHANGED <<wish, subject, remembered, tool, action, said, run, faults, restarts, memoryVars>>

\* loadSubject: resolve, index, set ...
Resolve(q) ==
  /\ req[q].step = "resolving"
  /\ \/ /\ NoFault
        /\ subject' = [subject EXCEPT ![wish[q].tenant] = req[q].ref]
        /\ req' = [req EXCEPT ![q].step = "binding", ![q].rest = ToolKind]
     \/ /\ Fault /\ UNCHANGED subject
        /\ IF wish[q].kind = "load" THEN Goto(q, "done") ELSE Ready(q, NoRepo)
  /\ UNCHANGED <<wish, remembered, tool, action, said, run, restarts, memoryVars>>

\* ... rebind the tools of the one registry, one after another: out of the map ...
Replace(q) ==
  /\ req[q].step = "binding" /\ req[q].rest # << >>
  /\ tool' = [tool EXCEPT ![Head(req[q].rest)] = Unregistered]
  /\ Goto(q, "registering")
  /\ UNCHANGED <<wish, subject, remembered, action, said, run, faults, restarts, memoryVars>>

\* ... and into it again, unless another load was faster: that is refused, and not looked at ...
Register(q) ==
  LET k == Head(req[q].rest) IN
  /\ req[q].step = "registering"
  /\ tool' = [tool EXCEPT ![k] = IF @ = Unregistered THEN req[q].ref ELSE @]
  /\ req' = [req EXCEPT ![q].rest = Tail(@), ![q].step = "binding"]
  /\ UNCHANGED <<wish, subject, remembered, action, said, run, faults, restarts, memoryVars>>

\* ... and remember it, as best one can.
RememberSubject(q) ==
  LET t == wish[q].tenant IN
  /\ req[q].step = "binding" /\ req[q].rest = << >>
  /\ \/ NoFault /\ remembered' = [remembered EXCEPT ![t] = req[q].ref]
     \/ Fault /\ UNCHANGED remembered
  /\ IF wish[q].kind = "load" THEN Goto(q, "done") ELSE Ready(q, subject[t])
  /\ UNCHANGED <<wish, subject, tool, action, said, run, restarts, memoryVars>>

-----------------------------------------------------------------------------
(***************************************************************************)
(* Asking                                                                  *)
(***************************************************************************)
\* A reply is recorded before it is sent, in a conversation that has a name.
Reply(q, decided) ==
  req' = [req EXCEPT ![q].decided = decided,
                     ![q].step = IF wish[q].conv \in Conversation THEN "recording" ELSE "done"]

\* decide: the floor first, and nothing is planned, or even restored, for what it refuses.
Ask(q) ==
  /\ At(q, "ask", "new")
  /\ IF Unbounded(wish[q].sentence) \/ Redirects(wish[q].sentence)
     THEN Reply(q, "floor") /\ NoFault ELSE subjectOrRestore(q)
  /\ UNCHANGED <<wish, subject, remembered, tool, action, said, run, restarts, memoryVars>>

\* put: a capability the model chose waits for the person.
Pending(q, c, axis) == action' = [action EXCEPT ![q] = [step |-> "waiting", capability |-> c, axis |-> axis]]

\* converseOrFallback: the model talks, or chooses a capability, or there is no answer from it.
Converse(q) ==
  /\ At(q, "ask", "thinking")
  /\ \/ /\ \E kind \in {"say", "ask"} : Reply(q, "model")
        /\ NoFault /\ UNCHANGED action
     \/ Goto(q, "routing") /\ NoFault /\ UNCHANGED action
     \/ \E c \in Choosable : \E axis \in {AxisOfSpec(c)} \cup (IF AxisOfSpec(c) = "" THEN {"tools"} ELSE {}) :
          \/ req[q].sub = NoRepo /\ Reply(q, "model") /\ NoFault /\ UNCHANGED action
          \/ /\ req[q].sub # NoRepo /\ NeedsConfirmation(c)
             /\ Pending(q, c, axis) /\ Reply(q, "model") /\ NoFault
          \/ /\ req[q].sub # NoRepo /\ ~NeedsConfirmation(c) /\ UNCHANGED action
             /\ \/ Reply(q, "model") /\ NoFault
                \/ Goto(q, "routing") /\ Fault
  /\ UNCHANGED <<wish, subject, remembered, tool, said, run, restarts, memoryVars>>

Began(q, kind, cause) ==
  run' = [run EXCEPT ![q] = [kind |-> kind, repo |-> req[q].sub, by |-> cause, acted |-> NoRepo]]

\* startGoal: the row, the plan, the drive.  An error after the row leaves a running goal that
\* has no plan.
startGoal(q, cause, After) ==
  \/ Began(q, "goal", cause) /\ After /\ NoFault
  \/ Fault /\ Goto(q, "done") /\ (Began(q, "unplanned", cause) \/ UNCHANGED run)

\* handleEffect: a diff to approve, or the reason there is none.
handleEffect(q, i, axis, cause, After) ==
  /\ After
  /\ \/ (axis # "" \/ AxisOfSpec(i) # "") /\ Began(q, "proposal", cause) /\ NoFault
     \/ axis = "" /\ AxisOfSpec(i) = "" /\ UNCHANGED run /\ NoFault
     \/ Fault /\ UNCHANGED run

Serves(q, i, axis, cause, After) ==
  \/ Tier(i) = "goal" /\ startGoal(q, cause, After)
  \/ Tier(i) = "effect" /\ handleEffect(q, i, axis, cause, After)
  \/ Tier(i) = "query" /\ UNCHANGED run /\ ((After /\ NoFault) \/ (Fault /\ Goto(q, "done")))

\* The keyword router: what it understands is served at once.
Fallback(q) ==
  LET out == Route(wish[q].sentence) IN
  /\ At(q, "ask", "routing")
  /\ IF out.kind = "abstain" \/ req[q].sub = NoRepo
     THEN Reply(q, "fallback") /\ UNCHANGED run /\ NoFault
     ELSE Serves(q, out.intent, out.axis, Unasked, Reply(q, "fallback"))
  /\ UNCHANGED <<wish, subject, remembered, tool, action, said, restarts, memoryVars>>

-----------------------------------------------------------------------------
(***************************************************************************)
(* Recording                                                               *)
(***************************************************************************)
\* record: the question, then the answer; a failure ends it and is not told.
Record(q) ==
  /\ req[q].step = "recording"
  /\ \/ draft[q].step = "idle" /\ BeginTurn(q, wish[q].conv, "user")
     \/ draft[q].step = "ok" /\ draft[q].role = "user" /\ BeginTurn(q, wish[q].conv, "agent")
     \/ AppendStep(q)
  /\ UNCHANGED chatVars

RecordFails(q) ==
  /\ req[q].step = "recording" /\ FailTurn(q)
  /\ Fault /\ req' = [req EXCEPT ![q].faulty = TRUE]
  /\ UNCHANGED <<wish, subject, remembered, tool, action, said, run, restarts>>

\* The reply is sent.
Send(q) ==
  /\ req[q].step = "recording"
  /\ draft[q].step = "failed" \/ (draft[q].step = "ok" /\ draft[q].role = "agent")
  /\ Goto(q, "done")
  /\ UNCHANGED <<wish, subject, remembered, tool, action, said, run, faults, restarts, memoryVars>>

-----------------------------------------------------------------------------
(***************************************************************************)
(* Confirming                                                              *)
(***************************************************************************)
\* mutant: a second answer to one action is taken as well
TakeAgain(a) == action[a].step \in {"waiting", "decided"}

\* take refuses an action that is gone or already decided.
Take(a) == action[a].step = "waiting"

\* handleConfirm, by somebody the action was shown to; a no is an answer too.
Confirm(q) ==
  LET a == wish[q].asked IN
  /\ At(q, "confirm", "new") /\ action[a].step # "none" /\ req[a].step = "done"
  /\ IF Take(a)
     THEN /\ action' = [action EXCEPT ![a].step = "decided"]
          /\ said' = [said EXCEPT ![a] = Append(@, wish[q].yes)]
          /\ Goto(q, IF wish[q].yes THEN "agreed" ELSE "done")
     ELSE Goto(q, "done") /\ UNCHANGED <<action, said>>
  /\ UNCHANGED <<wish, subject, remembered, tool, run, faults, restarts, memoryVars>>

\* The repository is the one loaded now.
ConfirmSubject(q) ==
  /\ At(q, "confirm", "agreed") /\ subjectOrRestore(q)
  /\ UNCHANGED <<wish, subject, remembered, tool, action, said, run, restarts, memoryVars>>

\* What runs is what was written down when the question was asked.
ConfirmAct(q) ==
  LET a == wish[q].asked IN
  /\ At(q, "confirm", "acting")
  /\ IF req[q].sub = NoRepo THEN Goto(q, "done") /\ UNCHANGED run /\ NoFault
     ELSE Serves(q, action[a].capability, action[a].axis, a, Goto(q, "done"))
  /\ UNCHANGED <<wish, subject, remembered, tool, action, said, restarts, memoryVars>>

-----------------------------------------------------------------------------
\* A task of a run calls a tool: the one the registry has at that moment, if it has one.
RunActs(q) ==
  /\ run[q].kind = "goal" /\ run[q].acted = NoRepo
  /\ \E k \in DOMAIN tool : run' = [run EXCEPT ![q].acted = tool[k]]
  /\ UNCHANGED <<wish, req, subject, remembered, tool, action, said, faults, restarts, memoryVars>>

\* The process is started again: what was in memory is gone, and so are its requests.
Restart ==
  /\ restarts < MaxRestarts /\ restarts' = restarts + 1
  /\ subject' = [t \in Tenant |-> NoRepo]
  /\ tool' = [k \in DOMAIN tool |-> Fixture]
  /\ action' = [q \in Request |-> IF action[q].step = "none" THEN action[q] ELSE [action[q] EXCEPT !.step = "lost"]]
  /\ req' = [q \in Request |-> IF req[q].step \in {"new", "done"} THEN req[q] ELSE [req[q] EXCEPT !.step = "lost"]]
  /\ LoseWriters
  /\ UNCHANGED <<wish, remembered, said, run, faults>>

ConsoleNext ==
  \/ \E q \in Request :
       \/ handleSubject(q) \/ Resolve(q) \/ Replace(q) \/ Register(q) \/ RememberSubject(q)
       \/ Ask(q) \/ Converse(q) \/ Fallback(q)
       \/ Record(q) \/ RecordFails(q) \/ Send(q)
       \/ Confirm(q) \/ ConfirmSubject(q) \/ ConfirmAct(q)
       \/ RunActs(q)
  \/ Restart

ConsoleSpec == ConsoleInit /\ [][ConsoleNext]_consoleVars

-----------------------------------------------------------------------------
\* Properties

StartedRuns == {q \in Request : run[q].kind # "none"}

\* The sentence something was started for.
Behind(q) == wish[IF run[q].by = Unasked THEN q ELSE run[q].by].sentence

\* A yes starts one thing, once, whoever else answers at that moment, and a no that came first is
\* final ("confirming is consent to run something ONCE, and two clicks must not start two runs",
\* src/internal/api/converse.go); what starts without one is only what the keyword router read
\* while the model had no answer; and a sentence that asks for a run without end, or for what
\* another page does, starts and offers nothing.
ConsentOnce ==
  /\ \A a \in Request : Cardinality({q \in StartedRuns : run[q].by = a}) <= 1
  /\ \A q \in StartedRuns : run[q].by # Unasked => said[run[q].by] # << >> /\ said[run[q].by][1]
  /\ \A q \in StartedRuns : run[q].by = Unasked => wish[q].kind = "ask" /\ action[q].step = "none"
  /\ \A q \in StartedRuns : ~Unbounded(Behind(q)) /\ ~Redirects(Behind(q))

\* The turns of a conversation are numbered from one without a gap whatever is written at the
\* same time, an answer stands after its own question, and an exchange the database took is
\* there whole ("Two browser tabs on one conversation are exactly the concurrency that produces
\* it", src/internal/memory/store.go).
ReplyFollowsQuestion ==
  /\ \A c \in Conversation :
       /\ {t.seq : t \in turns[c]} = 1..Cardinality(turns[c])
       /\ \A t \in turns[c] : t.role = "agent" =>
            \E u \in turns[c] : u.role = "user" /\ u.by = t.by /\ u.seq < t.seq
  /\ \A q \in Request :
       At(q, "ask", "done") /\ ~req[q].faulty /\ req[q].decided # "" /\ wish[q].conv \in Conversation =>
         \E t \in turns[wish[q].conv] : t.by = q /\ t.role = "agent"

\* No task of a run acts on another repository than its run's, though the tools of all
\* organizations are in one registry: "Rebind every source-bound tool to this repository. Without this they would act on whatever
\* was loaded last, which is the worst kind of wrong: confident, well-formed, and about someone
\* else's code." (src/internal/api/server.go)
ToolsActOnOwnRepository ==
  \A q \in Request : run[q].acted \in {NoRepo, Fixture, Unregistered, run[q].repo}
=============================================================================
