------------------------------- MODULE Routing -------------------------------
(***************************************************************************)
(* What a sentence is taken for: the closed table of intents               *)
(* (src/internal/intent), the two refusals nothing may talk the console    *)
(* out of, and the keyword router (src/internal/router).                   *)
(*                                                                         *)
(* A sentence is the set of the phrases it contains: normalising it and    *)
(* finding words in it is left out.                                        *)
(***************************************************************************)
EXTENDS Naturals, Sequences, FiniteSets
LOCAL INSTANCE FiniteSetsExt
LOCAL INSTANCE Functions

CONSTANT
  Vocabulary,  \* intent |-> (phrase |-> weight), router.go's table or a part of it
  Name         \* intents, in the order of their names: what a tie is broken by

-----------------------------------------------------------------------------
\* Intents

Goals == {"assess", "improve", "evalset", "compare"}
Effects == {"author", "prompt", "model", "deliver"}
AxisAsked ==
  [graph |-> "graph", run_history |-> "", coverage |-> "", context |-> "context", memory |-> "memory",
   harness |-> "harness", loop |-> "loop", graph_order |-> "graph", preview_change |-> "",
   skills |-> "skills", tools |-> "tools"]
Queries == DOMAIN AxisAsked

Tier(i) == CASE i \in Goals -> "goal" [] i \in Effects -> "effect" [] i \in Queries -> "query"
AxisOfSpec(i) ==
  CASE i \in Queries -> AxisAsked[i] [] i \in {"prompt", "model"} -> i [] OTHER -> ""

Axes == {"model", "prompt", "skills", "context", "tools", "memory", "harness", "loop", "graph"}

\* What writes is an effect or the one goal that opens a pull request.
EffectBearing(i) == i \in Effects \/ i = "improve"

\* Everything but a read is confirmed by a person.
NeedsConfirmation(i) == i \in Goals \cup Effects \cup Queries /\ Tier(i) # "query"

\* Done on another page, and so never done from a sentence.
OutOfScope ==
  {"plan", "payment", "invoice", "password", "account", "member", "invite", "api key",
   "connect a repository", "revoke"}

-----------------------------------------------------------------------------
\* The floor

unboundedSignals ==
  {"until it is perfect", "until its perfect", "keep going until", "as many as it takes",
   "no limit", "unlimited", "forever", "until you run out", "everything you can find"}

Unbounded(sentence) == sentence \cap unboundedSignals # {}
Redirects(sentence) == sentence \cap OutOfScope # {}

-----------------------------------------------------------------------------
\* The router

AbstainThreshold == 2

axisWords ==
  [prompt  |-> {"prompt", "prompts", "instruction", "instructions", "system message"},
   model   |-> {"model", "models", "temperature", "sampling"},
   tools   |-> {"tool", "tools", "function calling"},
   skills  |-> {"skill", "skills", "capability", "capabilities"},
   context |-> {"context", "history", "message list", "context window", "conversation history"},
   memory  |-> {"memory", "remember", "persistence", "recall"},
   harness |-> {"harness", "permission", "permissions", "sandbox", "timeout", "retries", "ceiling"},
   loop    |-> {"loop", "loops", "turns", "iteration", "iterations", "stop condition"},
   graph   |-> {"graph", "topology", "edges", "ordering", "wiring"}]

\* The axis a sentence names; two are none.
AxisOf(sentence) ==
  LET found == {a \in Axes : axisWords[a] \cap sentence # {}} IN
  IF Cardinality(found) = 1 THEN CHOOSE a \in found : TRUE ELSE ""

Score(i, sentence) == MapThenSumSet(LAMBDA p : Vocabulary[i][p], DOMAIN Vocabulary[i] \cap sentence)

Before(i, j) == \E m, n \in DOMAIN Name : m < n /\ Name[m] = i /\ Name[n] = j

Routed(kind, i, axis) == [kind |-> kind, intent |-> i, axis |-> axis]

\* A redirection beats every score; the best intent below the threshold is an abstention.
Route(sentence) ==
  LET scored == {i \in DOMAIN Vocabulary : Score(i, sentence) > 0}
      best == CHOOSE i \in scored : \A j \in scored \ {i} :
                Score(i, sentence) > Score(j, sentence)
                  \/ (Score(i, sentence) = Score(j, sentence) /\ Before(i, j)) IN
  CASE Redirects(sentence) -> Routed("redirect", "", "")
    [] ~Redirects(sentence) /\ scored # {} /\ Score(best, sentence) >= AbstainThreshold ->
         Routed("intent", best, AxisOf(sentence))
    [] OTHER -> Routed("abstain", "", "")
=============================================================================
