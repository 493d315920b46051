----------------------------- MODULE EventStream -----------------------------
(***************************************************************************)
(* What a person watching a run sees: the fan-out of                       *)
(* src/internal/api/supervisor.go (Subscribe, Unsubscribe, publish, emit)  *)
(* and the stream handleEvents of server.go writes to a browser.           *)
(*                                                                         *)
(* Subscribe, Unsubscribe and publish run under the supervisor's mutex, so *)
(* each is one step -- but for a replay that does not fit the channel,     *)
(* which blocks with the mutex held.  What a cycle of the worker did is a  *)
(* choice here; WorkerRun says which.  One goal is watched.                *)
(***************************************************************************)
EXTENDS Naturals, Sequences
LOCAL INSTANCE SequencesExt

CONSTANTS
  Watcher,     \* streams the browsers open, one after another or together
  ChannelCap,  \* places of a subscriber's channel; 256 in the code
  MaxEvents    \* bound: events of one run; the code's is Bounds.MaxIterations, 200

ASSUME EventStreamAssumption == ChannelCap \in Nat \ {0} /\ MaxEvents \in Nat

VARIABLES
  history,   \* what was published
  driving,   \* a drive of the goal is running
  mutex,     \* the watcher that holds the mutex for good, or Unheld
  watch      \* watcher |-> [step, queue, got, missed]; missed is a ghost

streamVars == <<history, driving, mutex, watch>>

Unheld == "nobody"
Away == [step |-> "away", queue |-> << >>, got |-> << >>, missed |-> FALSE]

StreamInit ==
  /\ history = << >> /\ driving = TRUE /\ mutex = Unheld
  /\ watch = [w \in Watcher |-> Away]

Subscribed == {w \in Watcher : watch[w].step = "streaming"}

\* A full channel is skipped, never waited on.
Offered(s, e) ==
  IF Len(s.queue) < ChannelCap THEN [s EXCEPT !.queue = Append(@, e)] ELSE [s EXCEPT !.missed = TRUE]

publish(e) ==
  /\ mutex = Unheld
  /\ history' = Append(history, e)
  /\ watch' = [w \in Watcher |-> IF w \in Subscribed THEN Offered(watch[w], e) ELSE watch[w]]
  /\ UNCHANGED mutex

Event(kind, terminal) == [n |-> Len(history) + 1, kind |-> kind, terminal |-> terminal]

\* One cycle of the drive and its event.  Only the four outcomes that end a drive are terminal.
emit ==
  /\ driving /\ Len(history) < MaxEvents
  /\ \/ publish(Event("task", FALSE)) /\ UNCHANGED driving
     \/ publish(Event("replan", FALSE)) /\ UNCHANGED driving
     \/ \E did \in {"complete", "stall", "stop", "blocked_on_approval"} :
          publish(Event(did, TRUE)) /\ driving' = FALSE

\* The goal cannot be read back: the cycle is not shown, whatever it did.
EmitUnread ==
  /\ driving /\ \E more \in BOOLEAN : driving' = more
  /\ UNCHANGED <<history, mutex, watch>>

\* A store error ends the drive.
DriveError ==
  /\ driving /\ Len(history) < MaxEvents
  /\ publish(Event("error", TRUE)) /\ driving' = FALSE

\* A person answers the parked task, and the run is driven again.
Resume ==
  /\ ~driving /\ history # << >> /\ Last(history).kind = "blocked_on_approval" /\ mutex = Unheld
  /\ driving' = TRUE
  /\ UNCHANGED <<history, mutex, watch>>

\* mutant: the history is copied first and the channel registered under a second lock
SubscribeInTwo(w) ==
  /\ mutex = Unheld /\ Len(history) <= ChannelCap
  /\ \/ /\ watch[w].step = "away"
        /\ watch' = [watch EXCEPT ![w] = [Away EXCEPT !.step = "copied", !.queue = history]]
     \/ watch[w].step = "copied" /\ watch' = [watch EXCEPT ![w].step = "streaming"]
  /\ UNCHANGED <<history, driving, mutex>>

\* The channel is given the history and registered; a history that does not fit never finishes.
Subscribe(w) ==
  /\ watch[w].step = "away" /\ mutex = Unheld
  /\ IF Len(history) <= ChannelCap
     THEN /\ watch' = [watch EXCEPT ![w] = [Away EXCEPT !.step = "streaming", !.queue = history]]
          /\ UNCHANGED mutex
     ELSE mutex' = w /\ UNCHANGED watch
  /\ UNCHANGED <<history, driving>>

\* handleEvents writes one event; after the first terminal one it returns, whatever is queued
\* and whatever was published since.
Serve(w) ==
  /\ watch[w].step = "streaming" /\ watch[w].queue # << >>
  /\ LET e == Head(watch[w].queue) IN
       watch' = [watch EXCEPT ![w].queue = Tail(@), ![w].got = Append(@, e),
                              ![w].step = IF e.terminal THEN "served" ELSE @]
  /\ UNCHANGED <<history, driving, mutex>>

\* The browser goes away.
Leave(w) ==
  /\ watch[w].step = "streaming"
  /\ watch' = [watch EXCEPT ![w].step = "leaving"]
  /\ UNCHANGED <<history, driving, mutex>>

\* The deferred Unsubscribe: until it runs, publish still offers to the channel, to no effect.
Unsubscribe(w) ==
  /\ watch[w].step \in {"served", "leaving"} /\ mutex = Unheld
  /\ watch' = [watch EXCEPT ![w] = Away]
  /\ UNCHANGED <<history, driving, mutex>>

StreamNext ==
  \/ emit \/ EmitUnread \/ DriveError \/ Resume
  \/ \E w \in Watcher : Subscribe(w) \/ Serve(w) \/ Leave(w) \/ Unsubscribe(w)

StreamSpec == StreamInit /\ [][StreamNext]_streamVars

-----------------------------------------------------------------------------
\* Properties

\* A browser is written a beginning of the run, in order, nothing twice and nothing left out; what
\* its channel holds is all that was published since; and the server ends its stream with the
\* first terminal event and at no other ("replaying everything already published for this goal",
\* src/internal/api/supervisor.go).  Only a browser so slow that its channel was full lost something
\* in between.
\*
\* It does NOT say that a browser sees the whole run.  blocked_on_approval is terminal, so whoever
\* subscribes after a run was approved and driven on is replayed the old question and closed, and
\* is never shown what followed, which its channel holds.
StreamIsABeginning ==
  \A w \in Watcher : LET s == watch[w]  shown == Len(s.got)  all == s.got \o s.queue IN
    s.step # "away" =>
      /\ ~s.missed => s.got = SubSeq(history, 1, shown)
      /\ ~s.missed /\ s.step = "streaming" => all = history
      /\ s.missed => ChannelCap < Len(history)
      /\ \A i, j \in DOMAIN all : i < j => all[i].n < all[j].n
      /\ \A i \in 1..shown : s.got[i].terminal <=> i = shown /\ s.step = "served"
      /\ s.step = "served" => shown > 0
=============================================================================
