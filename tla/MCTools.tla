------------------------------- MODULE MCTools -------------------------------
\* The tools: a behaviour either assesses or delivers.
EXTENDS Findings, Delivery, TLC

MCEarlier == ("llm" :> {}) @@ ("schema" :> {"llm"}) @@ ("traces" :> {"llm", "schema"})
MCBatches == {{"c1", "c2", "c3"}, {"c1", "c2"}, {"c2", "c4"}, {"hi", "c5"}}

Wants(i, r, a, n) == [intent |-> i, repo |-> r, axes |-> a, tries |-> n]
MCHistories ==
  {<< >>,
   <<Wants("assess", "r1", {"prompt", "tools"}, 2)>>,
   <<Wants("evalset", "r1", {}, 2)>>,
   <<Wants("assess", "r1", {"prompt", "tools"}, 1), Wants("compare", "r1", {"prompt"}, 1)>>,
   <<Wants("assess", "r1", {"prompt"}, 1), Wants("assess", "r2", {"prompt"}, 1),
     Wants("compare", "r1", {"prompt"}, 2)>>,
   <<Wants("assess", "r1", {"tools"}, 1), Wants("compare", "r1", {"prompt"}, 1),
     Wants("assess", "r1", {"prompt"}, 1)>>}

MCPathOf == [c \in Change |-> "main.py"]
\* a and b edit the same lines; c stands alone.
MCRivals == [c \in Change |-> IF c = "c" THEN {"c"} ELSE {"a", "b"}]
MCChangeOf == [j \in Job |-> CASE j = "ask1" -> "a" [] j = "run2" -> "b" [] OTHER -> "c"]
MCCasesOf == [j \in Published |-> 3]
MCCrews == {{}, {"ask1", "run1"}, {"run1", "run2"}, {"run1", "run3"}, {"set1", "set2"}}

ToolsInit == FindingsInit /\ DeliveryInit

Delivering == \E j \in DOMAIN job : job[j].step # "absent"

ToolsNext ==
  \/ FindingsNext /\ UNCHANGED deliveryVars
  \/ wishes = << >> /\ DeliveryNext /\ UNCHANGED findingVars

toolVars == <<findingVars, deliveryVars>>
=============================================================================
