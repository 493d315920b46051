------------------------------- MODULE Records -------------------------------
(***************************************************************************)
(* The diary of a run: what workers record (src/internal/worker/worker.go),*)
(* how it is stored (src/internal/memory, the PostgreSQL store bound to an *)
(* organization), and what the timeline and the answer to "what happened"  *)
(* tell of it (src/internal/api/timeline.go, src/internal/api/server.go).  *)
(*                                                                         *)
(* An episode is stored as a turn of a conversation is, under an advisory  *)
(* lock of its own kind, so it is the protocol of Memory on other rows.    *)
(***************************************************************************)
EXTENDS Integers, Sequences, FiniteSets

CONSTANTS
  Narrator,             \* workers that record
  Run,                  \* the runs of one organization: another's are not found
  Reader,               \* who asks
  EpisodeKind,
  maxTimelineEntries,
  MaxEpisodes, MaxLost  \* bounds

VARIABLES
  episodes,   \* run |-> the committed episodes: a set of [seq, role, by], role being the kind
  goalLock, entry,      \* as lock and draft of Memory
  told,       \* reader |-> the last answer: [of, shown, dropped]; shown is in the order of the answer
  lost        \* ghost: narrator |-> how many episodes the database or a crash took from it

recordVars == <<episodes, goalLock, entry, told, lost>>

Diary == INSTANCE Memory WITH
  Writer <- Narrator, Conversation <- Run, turns <- episodes, lock <- goalLock, draft <- entry

ASSUME RecordsAssumption == Diary!Unlocked \notin Narrator /\ maxTimelineEntries \in Nat

Untold == [of |-> "no run", shown |-> << >>, dropped |-> 0]

RecordsInit ==
  /\ Diary!MemoryInit
  /\ told = [r \in Reader |-> Untold]
  /\ lost = [n \in Narrator |-> 0]

-----------------------------------------------------------------------------
\* record: one episode; whether it was stored is not asked.
record(n, g, kind) ==
  /\ Cardinality(episodes[g]) < MaxEpisodes
  /\ Diary!BeginTurn(n, g, kind)
  /\ UNCHANGED <<told, lost>>

\* AppendEpisode: lock, insert with the next number, commit.
AppendEpisode(n) == Diary!AppendStep(n) /\ UNCHANGED <<told, lost>>

Loses(n) == lost[n] < MaxLost /\ lost' = [lost EXCEPT ![n] = @ + 1]

EpisodeFails(n) == Diary!FailTurn(n) /\ Loses(n) /\ UNCHANGED told

\* A worker dies in the middle of its record, and the lock goes with its connection.
WorkerDies(n) ==
  /\ entry[n].step \in {"begun", "locked", "inserted"} /\ Loses(n)
  /\ entry' = [entry EXCEPT ![n] = Diary!Idle]
  /\ goalLock' = Diary!Released(n)
  /\ UNCHANGED <<episodes, told>>

-----------------------------------------------------------------------------
\* The members of a finite set of numbers, the lowest first.
Ascending(S) == [k \in 1..Cardinality(S) |-> CHOOSE i \in S : Cardinality({j \in S : j < i}) = k - 1]

\* Episodes: by number.
Episodes(g) ==
  LET numbers == Ascending({e.seq : e \in episodes[g]})
  IN [k \in DOMAIN numbers |-> CHOOSE e \in episodes[g] : e.seq = numbers[k]]

Essential(e) == e.role \in {"failure", "effect"}

\* The k lowest of a set of positions, all of them if there are not so many.
Oldest(S, k) == {i \in S : Cardinality({j \in S : j < i}) < k}

\* mutant: simply the oldest go
DropOldest(s) == Oldest(DOMAIN s, IF Len(s) > maxTimelineEntries THEN Len(s) - maxTimelineEntries ELSE 0)

\* trimEntries: what goes when there are too many, the essential last.
Drop(s) ==
  LET toDrop == IF Len(s) > maxTimelineEntries THEN Len(s) - maxTimelineEntries ELSE 0
      first == Oldest({i \in DOMAIN s : ~Essential(s[i])}, toDrop)
  IN first \cup Oldest(DOMAIN s \ first, toDrop - Cardinality(first))

Kept(s) ==
  LET left == Ascending(DOMAIN s \ Drop(s))
  IN [i \in DOMAIN left |-> s[left[i]]]

\* buildTimeline, after the run was found to be the caller's.
handleTimeline(r, g) ==
  LET s == Episodes(g) IN
  /\ told' = [told EXCEPT ![r] = [of |-> g, shown |-> Kept(s), dropped |-> Cardinality(Drop(s))]]
  /\ UNCHANGED <<episodes, goalLock, entry, lost>>

\* answerRunHistory: everything the last run of the organization recorded.
answerRunHistory(r, g) ==
  LET s == Episodes(g) IN
  /\ s # << >>
  /\ told' = [told EXCEPT ![r] = [of |-> g, shown |-> s, dropped |-> 0]]
  /\ UNCHANGED <<episodes, goalLock, entry, lost>>

RecordsNext ==
  \/ \E n \in Narrator :
       \/ \E g \in Run, kind \in EpisodeKind : record(n, g, kind)
       \/ AppendEpisode(n) \/ EpisodeFails(n) \/ WorkerDies(n)
  \/ \E r \in Reader, g \in Run : handleTimeline(r, g) \/ answerRunHistory(r, g)

RecordsSpec == RecordsInit /\ [][RecordsNext]_recordVars

-----------------------------------------------------------------------------
\* What a reader was told is a run's whole story up to then, in the order it happened: the
\* entries shown and those counted as dropped are the first of the diary, however many workers
\* wrote while it was read; an answer shows them as they still are; a failure or an effect is left
\* out only when nothing else is shown ("exactly the entry that falls off the front",
\* src/internal/api/timeline.go); and no worker costs another one an episode, only the database
\* or its own death does.
StoryIsWhole ==
  /\ \A r \in Reader : told[r].of \in Run =>
       LET a == told[r]  n == Len(a.shown) + a.dropped IN
       /\ \A i, j \in DOMAIN a.shown : i < j => a.shown[i].seq < a.shown[j].seq
       /\ \A i \in DOMAIN a.shown : a.shown[i] \in episodes[a.of] /\ a.shown[i].seq <= n
       /\ \A k \in 1..n : \E e \in episodes[a.of] : e.seq = k
       /\ \A e \in episodes[a.of] :
            Essential(e) /\ e.seq <= n /\ (\A i \in DOMAIN a.shown : a.shown[i] # e) =>
              \A i \in DOMAIN a.shown : Essential(a.shown[i])
  /\ \A n \in Narrator : entry[n].step = "failed" => lost[n] > 0
=============================================================================
