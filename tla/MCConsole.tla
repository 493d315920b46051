------------------------------ MODULE MCConsole ------------------------------
\* What a person meets at the console, checked in one run: a behaviour is either a turn with a
\* model, or a stream of a run's events, or the traffic of two organizations, or the start of the
\* processes that serve it, or the diary of a run, or what the tools of a run find and deliver, or
\* the rows of a run under any clients, which its timeline is read from.
EXTENDS Turn, Console, EventStream, Boot, Records, MCTools, MCRunStore

\* Documents
Field(n, v) == [name |-> <<n>>, value |-> v, gap |-> << >>]
Text(v) == [name |-> TextName, value |-> v, gap |-> << >>]
SpacedText(v) == [name |-> TextName, value |-> v, gap |-> <<Space>>]
MCDocuments == {
  <<Field("action", <<"say">>), Text(<<"a", "newline", "quote", "te", "xt", "eacute">>)>>,
  <<SpacedText(<<" ", "a", "eacute", "b">>), Field("action", <<"ask">>)>>,
  <<Field("action", <<"say">>), Field("why", TextName), Text(<<"a", "b">>)>>,
  <<Field("action", <<"do">>), Field("capability", <<"assess">>), Field("axis", <<"tools">>)>>,
  <<Field("action", <<"do">>), Field("capability", <<"refactor">>),
    Field("why", <<"a", "quote", "te", "xt", "quote">>)>>,
  <<Field("why", <<"quote">> \o TextName), Field("action", <<"say">>), Text(<<"b">>)>>,
  <<Field("action", <<"say">>), Field("why", <<"quote">> \o TextName), Text(<<"b">>)>>,
  <<Field("action", <<"say">>), Text(Null)>>,
  <<Field("action", <<"say">>), Text(<<" ">>)>>}
MCAxisOfIntent == [c \in Capability |-> IF c = "prompt" THEN "prompt" ELSE ""]

\* A part of router.go's table.
MCVocabulary ==
  [assess |-> ("assess" :> 3 @@ "weak" :> 1), improve |-> ("improve" :> 3 @@ "fix it" :> 4),
   author |-> ("author" :> 1 @@ "change something on" :> 4), prompt |-> ("system prompt" :> 3 @@ "prompt" :> 1),
   run_history |-> ("what happened" :> 4 @@ "trace" :> 1)]
MCName == <<"assess", "author", "improve", "prompt", "run_history">>

MCToolKind == <<"assess_axis", "propose_change">>

\* Traffic
Wish(kind, t, c, words, r, a, y) ==
  [kind |-> kind, tenant |-> t, conv |-> c, sentence |-> words, repo |-> r, asked |-> a, yes |-> y]
Loads(t, r) == Wish("load", t, NoConversation, {}, r, "q1", FALSE)
Asks(t, c, words) == Wish("ask", t, c, words, NoRepo, "q1", FALSE)
Answers(t, a, y) == Wish("confirm", t, NoConversation, {}, NoRepo, a, y)

Consents(words, y) ==
  "q1" :> Asks("t1", "c1", words) @@ "q2" :> Loads("t1", "r1") @@
  "q3" :> Answers("t1", "q1", y) @@ "q4" :> Answers("t1", "q1", TRUE)
Talks ==
  "q1" :> Asks("t1", "c1", {"weak"}) @@ "q2" :> Asks("t1", "c1", {"change something on"}) @@
  "q3" :> Asks("t1", "c1", {"password", "fix it"}) @@ "q4" :> Answers("t1", "q1", TRUE)
Meets(words) ==
  "q1" :> Asks("t1", "c1", words) @@ "q2" :> Loads("t1", "r1") @@
  "q3" :> Loads("t2", "r2") @@ "q4" :> Answers("t1", "q1", TRUE)
Moves ==
  "q1" :> Asks("t1", NoConversation, {"system prompt", "prompt"}) @@ "q2" :> Loads("t1", "r1") @@
  "q3" :> Loads("t1", "r2") @@ "q4" :> Answers("t1", "q1", TRUE)

MCWishes ==
  {Consents({"improve", "prompt"}, y) : y \in BOOLEAN} \cup {Consents({"improve", "forever"}, TRUE), Talks, Moves} \cup
  {Meets(words) : words \in {{"assess"}, {"prompt", "fix it", "weak"}}}

\* The shape of the real chain: tables, columns and two of the constraints that are dropped and added.
Statement(kind, on) == [kind |-> kind, on |-> on]
MCChain == <<
  Statement("create", "users"), Statement("drop", "role_is_known"), Statement("add", "role_is_known"),
  Statement("promote", "users"), Statement("drop", "autonomy_is_known"), Statement("add", "autonomy_is_known"),
  Statement("create", "turns")>>
Deployment(relay, mode, url, admin) ==
  [key |-> TRUE, hashing |-> "unset", relay |-> relay, mode |-> mode, url |-> url, admin |-> admin, weak |-> FALSE]
MCEnvironment == {
  Deployment(RelaySetting, "", "origin", "admin"), Deployment({}, "off", "", "admin"),
  Deployment({"host"}, "off", "origin", "admin"), Deployment({}, "log", "origin", ""),
  [Deployment({}, "off", "", "admin") EXCEPT !.weak = TRUE],
  [Deployment({}, "log", "origin", "admin") EXCEPT !.hashing = "zero"]}
MCInstalled == {<< >>, <<[email |-> "first", role |-> "member"], [email |-> "admin", role |-> "admin"]>>}

\* What a behaviour is about; the other parts stay where they began.
VARIABLE part

MCInit ==
  /\ TurnInit /\ StreamInit /\ ConsoleInit /\ BootInit /\ RecordsInit /\ ToolsInit /\ StoreInit
  /\ part \in {"turn", "stream", "traffic", "boot", "diary", "tools", "rows"}
  /\ part # "traffic" => wish = CHOOSE w \in Wishes : TRUE
  /\ part # "boot" => schema = {}
  /\ IF part = "tools" THEN wishes = << >> <=> Delivering ELSE wishes = << >> /\ ~Delivering

MCNext ==
  \/ /\ part = "turn" /\ TurnNext
     /\ UNCHANGED <<part, streamVars, consoleVars, bootVars, recordVars, toolVars, storeVars>>
  \/ /\ part = "stream" /\ StreamNext
     /\ UNCHANGED <<part, turnVars, consoleVars, bootVars, recordVars, toolVars, storeVars>>
  \/ /\ part = "traffic" /\ ConsoleNext
     /\ UNCHANGED <<part, turnVars, streamVars, bootVars, recordVars, toolVars, storeVars>>
  \/ /\ part = "boot" /\ BootNext
     /\ UNCHANGED <<part, turnVars, streamVars, consoleVars, recordVars, toolVars, storeVars>>
  \/ /\ part = "diary" /\ RecordsNext
     /\ UNCHANGED <<part, turnVars, streamVars, consoleVars, bootVars, toolVars, storeVars>>
  \/ /\ part = "tools" /\ ToolsNext
     /\ UNCHANGED <<part, turnVars, streamVars, consoleVars, bootVars, recordVars, storeVars>>
  \/ /\ part = "rows" /\ StoreNext
     /\ UNCHANGED <<part, turnVars, streamVars, consoleVars, bootVars, recordVars, toolVars>>

\* The other parts are as MCInit left them, so a state is told by the part it is about.
Moving ==
  CASE part = "turn" -> <<part, turnVars>>
    [] part = "stream" -> <<part, streamVars>>
    [] part = "traffic" -> <<part, consoleVars>>
    [] part = "boot" -> <<part, bootVars>>
    [] part = "diary" -> <<part, recordVars>>
    [] part = "tools" -> <<part, toolVars>>
    [] part = "rows" -> <<part, storeVars>>

MCSpec == MCInit /\ [][MCNext]_<<part, turnVars, streamVars, consoleVars, bootVars, recordVars, toolVars, storeVars>>
=============================================================================
