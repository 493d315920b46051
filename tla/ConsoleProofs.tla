---------------------------- MODULE ConsoleProofs ----------------------------
(***************************************************************************)
(* What a person of the console agreed to, what the transcript of a        *)
(* conversation says, what a browser sees of a run, and how the processes  *)
(* that serve it start: for any requests of any organizations, any         *)
(* watchers, any number of events and any number of starts.                *)
(*                                                                         *)
(* First the events.  A watcher that has missed nothing has in its hands and *)
(* in its channel exactly the history (SeesWell); an event is lost only when *)
(* the channel was full.  What a stream that is over has shown stays a     *)
(* beginning of a history that goes on without it (Shows).                 *)
(***************************************************************************)
EXTENDS Console, EventStream, Boot, FiniteSetTheorems, SequenceTheorems, TLAPS

Ending == {"complete", "stall", "stop", "blocked_on_approval", "error"}
Emitted == [n : Nat, kind : Ending \cup {"task", "replan"}, terminal : BOOLEAN]
Stream == [step : {"away", "streaming", "served", "leaving"}, queue : Seq(Emitted), got : Seq(Emitted),
           missed : BOOLEAN]

\* history is numbered
StreamTypes ==
  /\ history \in Seq(Emitted)
  /\ watch \in [Watcher -> Stream]

HistoryNumbered ==
  /\ Len(history) <= MaxEvents
  /\ \A i \in 1..Len(history) : history[i].n = i

\* What one watcher sees of a history.
SeesWell(s, h) ==
  LET seen == s.got \o s.queue IN
  /\ Len(s.queue) <= ChannelCap
  /\ Len(seen) <= Len(h)
  /\ ~s.missed => seen = h
  /\ \A i \in 1..Len(seen) : seen[i].n <= Len(h)
  /\ \A i, j \in 1..Len(seen) : i < j => seen[i].n < seen[j].n
  /\ s.missed => ChannelCap < Len(h)

\* What was written to the browser, of a stream that goes on or is over.
Ends(s, i) == s.got[i].terminal <=> i = Len(s.got) /\ s.step = "served"

Shows(s, h) ==
  LET all == s.got \o s.queue IN
  /\ Len(s.got) <= Len(h)
  /\ ~s.missed => \A i \in 1..Len(s.got) : s.got[i] = h[i]
  /\ s.missed => ChannelCap < Len(h)
  /\ \A i, j \in 1..Len(all) : i < j => all[i].n < all[j].n

EndsWell(s) ==
  /\ \A i \in 1..Len(s.got) : Ends(s, i)
  /\ s.step = "served" => Len(s.got) > 0

StreamsSeeWell == \A w \in Subscribed : SeesWell(watch[w], history)
StreamsShow == \A w \in Watcher : watch[w].step \in {"served", "leaving"} => Shows(watch[w], history)
StreamsEndWell == \A w \in Watcher : watch[w].step # "away" => EndsWell(watch[w])

StreamInv == StreamTypes /\ HistoryNumbered /\ StreamsSeeWell /\ StreamsShow /\ StreamsEndWell

\* A stream that shows everything so far shows a beginning.
LEMMA SeeingShows ==
  ASSUME NEW s \in Stream, NEW h \in Seq(Emitted), SeesWell(s, h)
  PROVE  Shows(s, h)
<1> DEFINE all == s.got \o s.queue
           gn == Len(s.got)
           qn == Len(s.queue)
           hn == Len(h)
<1>1. s.got \in Seq(Emitted) /\ s.queue \in Seq(Emitted)
  BY DEF Stream
<1>2. gn \in Nat /\ qn \in Nat /\ hn \in Nat
  BY <1>1, LenProperties
<1>3. Len(all) = gn + qn /\ \A i \in 1..gn : all[i] = s.got[i]
  <2> DEFINE g == s.got
             q == s.queue
  <2>1. g \in Seq(Emitted) /\ q \in Seq(Emitted)
    BY <1>1
  <2> HIDE DEF g, q
  <2>2. Len(g \o q) = Len(g) + Len(q) /\ \A i \in 1..Len(g) : (g \o q)[i] = g[i]
    BY <2>1, ConcatProperties
  <2> QED BY <2>2 DEF g, q
<1>4. /\ Len(all) <= hn
      /\ ~s.missed => all = h
      /\ \A i, j \in 1..Len(all) : i < j => all[i].n < all[j].n
      /\ s.missed => ChannelCap < hn
  BY DEF SeesWell
<1>5. ~s.missed => \A i \in 1..gn : s.got[i] = h[i]
  BY <1>3, <1>4
<1>6. gn <= hn
  <2> HIDE DEF gn, qn, hn, all
  <2> QED BY <1>2, <1>3, <1>4
<1> HIDE DEF all
<1> QED BY <1>4, <1>5, <1>6 DEF Shows, all

LEMMA ShowingStays ==
  ASSUME NEW s \in Stream, NEW h \in Seq(Emitted), NEW e \in Emitted, Shows(s, h)
  PROVE  Shows(s, Append(h, e))
<1> DEFINE now == Append(h, e)
           gn == Len(s.got)
           hn == Len(h)
<1>1. s.got \in Seq(Emitted)
  BY DEF Stream
<1>2. gn \in Nat /\ hn \in Nat
  BY <1>1, LenProperties
<1>3. Len(now) = hn + 1 /\ \A i \in 1..hn : now[i] = h[i]
  BY AppendProperties
<1> HIDE DEF now, gn, hn
<1>4. /\ gn <= hn
      /\ ~s.missed => \A i \in 1..gn : s.got[i] = h[i]
      /\ s.missed => ChannelCap < hn
  BY DEF Shows, gn, hn
<1>5. \A i \in 1..gn : i \in 1..hn
  BY <1>2, <1>4
<1>6. /\ gn <= Len(now)
      /\ s.missed => ChannelCap < Len(now)
  BY <1>2, <1>3, <1>4, EventStreamAssumption
<1>7. ~s.missed => \A i \in 1..gn : s.got[i] = now[i]
  BY <1>3, <1>4, <1>5
<1> QED BY <1>6, <1>7 DEF Shows, gn, now

LEMMA AppendToConcat ==
  ASSUME NEW S, NEW s \in Seq(S), NEW t \in Seq(S), NEW e \in S
  PROVE  s \o Append(t, e) = Append(s \o t, e)
<1> DEFINE l == <<e>>
<1>1. l \in Seq(S)
  OBVIOUS
<1>2. Append(t, e) = t \o l
  BY AppendIsConcat
<1>3. s \o t \in Seq(S)
  BY ConcatProperties
<1>4. Append(s \o t, e) = (s \o t) \o l
  BY <1>3, AppendIsConcat
<1> HIDE DEF l
<1>5. (s \o t) \o l = s \o (t \o l)
  BY <1>1, ConcatAssociative
<1> QED BY <1>2, <1>4, <1>5

LEMMA HeadMovesOver ==
  ASSUME NEW S, NEW s \in Seq(S), NEW t \in Seq(S), t # << >>
  PROVE  Append(s, Head(t)) \o Tail(t) = s \o t
<1> DEFINE e == Head(t)
           u == Tail(t)
           l == <<e>>
<1>1. e \in S /\ u \in Seq(S) /\ l \in Seq(S)
  BY HeadTailProperties
<1>2. t = l \o u
  OBVIOUS
<1>3. Append(s, e) = s \o l
  BY <1>1, AppendIsConcat
<1> HIDE DEF e, u, l
<1>4. (s \o l) \o u = s \o (l \o u)
  BY <1>1, ConcatAssociative
<1> QED BY <1>2, <1>3, <1>4 DEF e, u
LEMMA OfferedSeesWell ==
  ASSUME NEW s \in Stream, NEW h \in Seq(Emitted), NEW e \in Emitted, e.n = Len(h) + 1,
         s.step = "streaming", Len(h) < MaxEvents, SeesWell(s, h)
  PROVE  /\ Offered(s, e) \in Stream
         /\ Offered(s, e).step = "streaming"
         /\ Offered(s, e).got = s.got
         /\ SeesWell(Offered(s, e), Append(h, e))
<1> DEFINE o == Offered(s, e)
           g == s.got
           q == s.queue
           seen == g \o q
           now == o.got \o o.queue
           sn == Len(seen)
           qn == Len(q)
           hn == Len(h)
<1>1. g \in Seq(Emitted) /\ q \in Seq(Emitted) /\ s.missed \in BOOLEAN
  BY DEF Stream
<1> HIDE DEF g, q
<1>2. seen \in Seq(Emitted)
  BY <1>1, ConcatProperties
<1>n. sn \in Nat /\ hn \in Nat /\ qn \in Nat /\ qn <= sn
  <2> DEFINE gn == Len(g)
  <2>1. hn \in Nat /\ qn \in Nat /\ gn \in Nat
    BY <1>1, LenProperties
  <2>2. sn = gn + qn
    BY <1>1, ConcatProperties
  <2> HIDE DEF sn, hn, gn, qn
  <2> QED BY <2>1, <2>2
<1>3. /\ Append(h, e) \in Seq(Emitted) /\ Len(Append(h, e)) = hn + 1
  BY AppendProperties
<1>4. \A i \in 1..sn : seen[i].n \in Nat
  <2>1. \A i \in 1..sn : seen[i] \in Emitted
    BY <1>2, ElementOfSeq
  <2> QED BY <2>1 DEF Emitted
<1>5. /\ qn <= ChannelCap
      /\ sn <= hn
      /\ ~s.missed => seen = h
      /\ \A i \in 1..sn : seen[i].n <= hn
      /\ \A i, j \in 1..sn : i < j => seen[i].n < seen[j].n
      /\ s.missed => ChannelCap < hn
      /\ hn < MaxEvents
  BY DEF SeesWell, g, q
<1>6. CASE qn < ChannelCap
  <2>1. o = [s EXCEPT !.queue = Append(@, e)]
    BY <1>6 DEF Offered, q
  <2>2. /\ Append(q, e) \in Seq(Emitted) /\ Len(Append(q, e)) = qn + 1
    BY <1>1, AppendProperties
  <2>3. /\ o.step = s.step /\ o.got = g /\ o.missed = s.missed /\ o.queue = Append(q, e)
    BY <2>1 DEF Stream, g, q
  <2>4. o \in Stream
    BY <2>1, <2>2 DEF Stream, q
  <2> HIDE DEF o
  <2>5. now = Append(seen, e)
    <3>1. g \o Append(q, e) = Append(seen, e)
      BY <1>1, AppendToConcat
    <3> QED BY <2>3, <3>1
  <2> HIDE DEF now, seen
  <2>6. /\ now \in Seq(Emitted) /\ Len(now) = Len(seen) + 1
        /\ \A i \in 1..Len(seen) : now[i] = seen[i]
        /\ now[Len(seen) + 1] = e
    BY <2>5, <1>2, AppendProperties
  <2> HIDE DEF sn
  <2>7. /\ Len(now) = sn + 1 /\ now[sn + 1].n = hn + 1
        /\ \A i \in 1..sn : now[i].n = seen[i].n
    BY <2>6 DEF sn
  <2> HIDE DEF hn
  <2>8. \A i \in 1..Len(now) : now[i].n <= Len(Append(h, e))
    <3> SUFFICES ASSUME NEW i \in 1..(sn + 1) PROVE now[i].n <= hn + 1
      BY <2>7, <1>3
    <3>1. CASE i = sn + 1
      BY <3>1, <2>7, <1>n
    <3>2. CASE i # sn + 1
      BY <3>2, <2>7, <1>n, <1>4, <1>5
    <3> QED BY <3>1, <3>2
  <2>9. \A i, j \in 1..Len(now) : i < j => now[i].n < now[j].n
    <3> SUFFICES ASSUME NEW i \in 1..(sn + 1), NEW j \in 1..(sn + 1), i < j
                 PROVE  now[i].n < now[j].n
      BY <2>7
    <3>1. i \in 1..sn
      BY <1>n
    <3>2. CASE j \in 1..sn
      BY <3>1, <3>2, <2>7, <1>5
    <3>3. CASE j = sn + 1
      BY <3>1, <3>3, <2>7, <1>n, <1>4, <1>5
    <3> QED BY <3>2, <3>3, <1>n
  <2>10. /\ Len(o.queue) <= ChannelCap
    <3>1. Len(o.queue) = qn + 1
      BY <2>2, <2>3
    <3> HIDE DEF qn
    <3> QED BY <1>6, <1>n, <3>1, EventStreamAssumption
  <2>11. Len(now) <= Len(Append(h, e))
    BY <2>7, <1>n, <1>3, <1>5
  <2>12. ~o.missed => now = Append(h, e)
    BY <2>3, <2>5, <1>5
  <2>13. o.missed => ChannelCap < Len(Append(h, e))
    BY <2>3, <1>3, <1>5, <1>n, EventStreamAssumption
  <2>14. SeesWell(o, Append(h, e))
    BY <2>8, <2>9, <2>10, <2>11, <2>12, <2>13 DEF SeesWell, now
  <2> QED BY <2>3, <2>4, <2>14 DEF o, g
<1>7. CASE ~(qn < ChannelCap)
  <2>1. o = [s EXCEPT !.missed = TRUE]
    BY <1>7 DEF Offered, q
  <2>2. /\ o.step = s.step /\ o.got = g /\ o.missed /\ o.queue = q /\ o \in Stream
    BY <2>1 DEF Stream, g, q
  <2> HIDE DEF seen, sn, qn, hn, o
  <2>3. ChannelCap <= qn /\ qn <= sn
    BY <1>n, <1>7, EventStreamAssumption
  <2>4. ChannelCap < hn + 1
    BY <2>3, <1>n, <1>5, EventStreamAssumption
  <2>5. now = seen
    BY <2>2 DEF seen
  <2>6. sn <= hn + 1 /\ \A i \in 1..sn : seen[i].n <= hn + 1
    BY <1>n, <1>4, <1>5
  <2>7. SeesWell(o, Append(h, e))
    BY <2>2, <2>4, <2>5, <2>6, <1>3, <1>5 DEF SeesWell, sn, qn, now
  <2> QED BY <2>2, <2>7 DEF o, g
<1> QED BY <1>6, <1>7

LEMMA PublishKeeps ==
  ASSUME StreamInv, NEW e \in Emitted, e.n = Len(history) + 1, Len(history) < MaxEvents, publish(e)
  PROVE  StreamInv'
<1>0. history \in Seq(Emitted) /\ watch \in [Watcher -> Stream] /\ Len(history) \in Nat
  BY LenProperties DEF StreamInv, StreamTypes
<1>1. history' = Append(history, e) /\ history' \in Seq(Emitted) /\ Len(history') = Len(history) + 1
  BY <1>0, AppendProperties DEF publish
<1>2. \A w \in Subscribed : /\ Offered(watch[w], e) \in Stream
                            /\ Offered(watch[w], e).step = "streaming"
                            /\ Offered(watch[w], e).got = watch[w].got
                            /\ SeesWell(Offered(watch[w], e), Append(history, e))
  BY <1>0, OfferedSeesWell DEF StreamInv, StreamsSeeWell, Subscribed
<1>3. \A w \in Watcher : watch'[w] = IF w \in Subscribed THEN Offered(watch[w], e) ELSE watch[w]
  BY DEF publish
<1>4. watch' \in [Watcher -> Stream]
  BY <1>0, <1>2, <1>3 DEF publish
<1>5. Subscribed' = Subscribed
  BY <1>2, <1>3 DEF Subscribed
<1>6. StreamsSeeWell'
  BY <1>1, <1>2, <1>3, <1>5 DEF StreamsSeeWell, Subscribed
<1>7. HistoryNumbered'
  BY <1>0, <1>1, AppendProperties, EventStreamAssumption DEF StreamInv, HistoryNumbered
<1>8. StreamsShow'
  <2> SUFFICES ASSUME NEW w \in Watcher, watch'[w].step \in {"served", "leaving"}
               PROVE  Shows(watch'[w], history')
    BY DEF StreamsShow
  <2>1. w \notin Subscribed /\ watch'[w] = watch[w]
    BY <1>2, <1>3
  <2>2. Shows(watch[w], history)
    BY <2>1 DEF StreamInv, StreamsShow
  <2> QED BY <1>0, <1>1, <2>1, <2>2, ShowingStays
<1>9. StreamsEndWell'
  <2> SUFFICES ASSUME NEW w \in Watcher, watch'[w].step # "away" PROVE EndsWell(watch'[w])
    BY DEF StreamsEndWell
  <2>1. watch'[w].step = watch[w].step /\ watch'[w].got = watch[w].got
    BY <1>2, <1>3 DEF Subscribed
  <2>2. EndsWell(watch[w])
    BY <2>1 DEF StreamInv, StreamsEndWell
  <2> QED BY <2>1, <2>2 DEF EndsWell, Ends
<1> QED BY <1>1, <1>4, <1>6, <1>7, <1>8, <1>9 DEF StreamInv, StreamTypes

LEMMA OneStreamMoves ==
  ASSUME StreamInv, NEW w \in Watcher, NEW s \in Stream, watch' = [watch EXCEPT ![w] = s],
         history' = history, s.step = "streaming" => SeesWell(s, history),
         s.step \in {"served", "leaving"} => Shows(s, history), s.step # "away" => EndsWell(s)
  PROVE  StreamInv'
<1>1. StreamTypes' /\ HistoryNumbered'
  BY DEF StreamInv, StreamTypes, HistoryNumbered
<1>2. watch'[w] = s /\ \A v \in Watcher \ {w} : watch'[v] = watch[v]
  BY DEF StreamInv, StreamTypes
<1>3. ASSUME NEW v \in Watcher, watch'[v].step = "streaming" PROVE SeesWell(watch'[v], history)
  BY <1>2, <1>3 DEF StreamInv, StreamsSeeWell, Subscribed
<1>4. StreamsSeeWell'
  BY <1>3 DEF StreamsSeeWell, Subscribed
<1>5. StreamsShow'
  BY <1>2 DEF StreamInv, StreamsShow
<1>6. StreamsEndWell'
  BY <1>2 DEF StreamInv, StreamsEndWell
<1> QED BY <1>1, <1>4, <1>5, <1>6 DEF StreamInv

LEMMA StreamInitially == StreamInit => StreamInv
<1> SUFFICES ASSUME StreamInit PROVE StreamInv
  OBVIOUS
<1>1. << >> \in Seq(Emitted) /\ Len(<< >>) = 0
  BY EmptySeq
<1>2. Away \in Stream
  BY <1>1 DEF Away, Stream
<1>3. Away.step = "away"
  BY DEF Away
<1> QED BY <1>1, <1>2, <1>3, EventStreamAssumption
        DEF StreamInit, StreamInv, StreamTypes, HistoryNumbered, StreamsSeeWell, Subscribed,
            StreamsShow, StreamsEndWell

LEMMA StreamStep == StreamInv /\ [StreamNext]_streamVars => StreamInv'
<1> SUFFICES ASSUME StreamInv, [StreamNext]_streamVars PROVE StreamInv'
  OBVIOUS
<1>0. history \in Seq(Emitted) /\ watch \in [Watcher -> Stream] /\ Len(history) \in Nat
  BY LenProperties DEF StreamInv, StreamTypes
<1>1. ASSUME NEW k \in Ending \cup {"task", "replan"}, NEW t \in BOOLEAN
      PROVE  Event(k, t) \in Emitted /\ Event(k, t).n = Len(history) + 1
  BY <1>0 DEF Event, Emitted
<1>2. CASE emit
  <2>0. Len(history) < MaxEvents
    BY <1>2 DEF emit
  <2>1. CASE publish(Event("task", FALSE))
    <3>1. Event("task", FALSE) \in Emitted /\ Event("task", FALSE).n = Len(history) + 1
      BY <1>1
    <3> QED BY <3>1, <2>0, <2>1, PublishKeeps
  <2>2. CASE publish(Event("replan", FALSE))
    <3>1. Event("replan", FALSE) \in Emitted /\ Event("replan", FALSE).n = Len(history) + 1
      BY <1>1
    <3> QED BY <3>1, <2>0, <2>2, PublishKeeps
  <2>3. ASSUME NEW did \in {"complete", "stall", "stop", "blocked_on_approval"}, publish(Event(did, TRUE))
        PROVE  StreamInv'
    <3>1. did \in Ending \cup {"task", "replan"}
      BY DEF Ending
    <3>2. Event(did, TRUE) \in Emitted /\ Event(did, TRUE).n = Len(history) + 1
      BY <1>1, <3>1
    <3> QED BY <3>2, <2>0, <2>3, PublishKeeps
  <2> QED BY <1>2, <2>1, <2>2, <2>3 DEF emit
<1>3. CASE DriveError
  <2>1. publish(Event("error", TRUE)) /\ Len(history) < MaxEvents
    BY <1>3 DEF DriveError
  <2>2. Event("error", TRUE) \in Emitted /\ Event("error", TRUE).n = Len(history) + 1
    BY <1>1 DEF Ending
  <2> QED BY <2>1, <2>2, PublishKeeps
<1>4. ASSUME UNCHANGED <<history, watch>> PROVE StreamInv'
  BY <1>4 DEF StreamInv, StreamTypes, HistoryNumbered, StreamsSeeWell, Subscribed, SeesWell,
              StreamsShow, StreamsEndWell
<1>5. ASSUME NEW w \in Watcher, Subscribe(w) PROVE StreamInv'
  <2>1. CASE Len(history) <= ChannelCap
    <3> DEFINE s == [Away EXCEPT !.step = "streaming", !.queue = history]
    <3>0. Away \in Stream
      BY EmptySeq DEF Away, Stream
    <3>1. /\ s.step = "streaming" /\ s.queue = history /\ s.got = << >> /\ s.missed = FALSE
      BY DEF Away
    <3>2. s \in Stream
      BY <3>0, <1>0 DEF Stream
    <3> HIDE DEF s
    <3>3. s.got \o s.queue = history
      BY <3>1, <1>0, ConcatEmptySeq
    <3>4. SeesWell(s, history)
      BY <3>1, <3>3, <2>1, <1>0 DEF SeesWell, StreamInv, HistoryNumbered
    <3>5. watch' = [watch EXCEPT ![w] = s] /\ history' = history
      BY <1>5, <2>1 DEF Subscribe, s
    <3>6. EndsWell(s)
      BY <3>1, EmptySeq DEF EndsWell
    <3> QED BY <3>1, <3>2, <3>4, <3>5, <3>6, OneStreamMoves
  <2>2. CASE ~(Len(history) <= ChannelCap)
    BY <1>4, <1>5, <2>2 DEF Subscribe
  <2> QED BY <2>1, <2>2
<1>6. ASSUME NEW w \in Watcher, Serve(w) PROVE StreamInv'
  <2> DEFINE d == watch[w]
             e == Head(d.queue)
             n == Len(d.got)
             s == [d EXCEPT !.queue = Tail(@), !.got = Append(@, e),
                            !.step = IF e.terminal THEN "served" ELSE @]
  <2>1. d \in Stream /\ d.queue \in Seq(Emitted) /\ d.got \in Seq(Emitted) /\ d.queue # << >>
        /\ d.step = "streaming"
    BY <1>0, <1>6 DEF Serve, Stream
  <2>2. e \in Emitted /\ Tail(d.queue) \in Seq(Emitted) /\ Len(Tail(d.queue)) = Len(d.queue) - 1
        /\ Append(d.got, e) \in Seq(Emitted)
    BY <2>1, HeadTailProperties, AppendProperties
  <2>3. /\ s.step = (IF e.terminal THEN "served" ELSE d.step) /\ s.queue = Tail(d.queue)
        /\ s.got = Append(d.got, e) /\ s.missed = d.missed
    BY <2>1 DEF Stream
  <2>4. s \in Stream
    BY <2>1, <2>2 DEF Stream
  <2>5. watch' = [watch EXCEPT ![w] = s] /\ history' = history
    BY <1>0, <1>6 DEF Serve
  <2> HIDE DEF s
  <2>6. s.got \o s.queue = d.got \o d.queue
    BY <2>1, <2>3, HeadMovesOver
  <2>7. SeesWell(d, history)
    BY <2>1, <1>6 DEF StreamInv, StreamsSeeWell, Subscribed
  <2>8. Len(s.queue) <= ChannelCap
    BY <2>1, <2>2, <2>3, <2>7, LenProperties, EventStreamAssumption DEF SeesWell
  <2>9. SeesWell(s, history)
    BY <2>3, <2>6, <2>7, <2>8 DEF SeesWell
  <2>10. Shows(s, history)
    BY <1>0, <2>4, <2>9, SeeingShows
  <2>11. /\ n \in Nat /\ Len(s.got) = n + 1 /\ s.got[n + 1] = e
         /\ \A i \in 1..n : s.got[i] = d.got[i]
    BY <2>1, <2>2, <2>3, AppendProperties, LenProperties
  <2>12. \A i \in 1..n : ~d.got[i].terminal
    <3>1. EndsWell(d)
      BY <2>1 DEF StreamInv, StreamsEndWell
    <3> QED BY <3>1, <2>1 DEF EndsWell, Ends
  <2>13. e.terminal <=> s.step = "served"
    BY <2>1, <2>3
  <2>14. EndsWell(s)
    <3> HIDE DEF n, d, e
    <3>1. ASSUME NEW i \in 1..Len(s.got) PROVE Ends(s, i)
      <4>1. CASE i = n + 1
        BY <4>1, <2>11, <2>13 DEF Ends
      <4>2. CASE i # n + 1
        <5>1. i \in 1..n /\ i # Len(s.got)
          BY <4>2, <2>11
        <5> QED BY <5>1, <2>11, <2>12 DEF Ends
      <4> QED BY <4>1, <4>2
    <3>2. Len(s.got) > 0
      BY <2>11
    <3> QED BY <3>1, <3>2 DEF EndsWell
  <2> QED BY <2>4, <2>5, <2>9, <2>10, <2>14, OneStreamMoves
<1>7. ASSUME NEW w \in Watcher, Leave(w) PROVE StreamInv'
  <2> DEFINE d == watch[w]
             s == [d EXCEPT !.step = "leaving"]
  <2>0. d \in Stream /\ d.step = "streaming"
    BY <1>0, <1>7 DEF Leave
  <2>1. s \in Stream /\ s.step = "leaving" /\ s.got = d.got /\ s.queue = d.queue /\ s.missed = d.missed
    BY <2>0 DEF Stream
  <2>2. watch' = [watch EXCEPT ![w] = s] /\ history' = history
    BY <1>0, <1>7 DEF Leave
  <2>3. Shows(d, history)
    <3>1. SeesWell(d, history)
      BY <2>0 DEF StreamInv, StreamsSeeWell, Subscribed
    <3> QED BY <3>1, <1>0, <2>0, SeeingShows
  <2>4. EndsWell(d)
    BY <2>0 DEF StreamInv, StreamsEndWell
  <2> HIDE DEF s, d
  <2>5. Shows(s, history)
    BY <2>1, <2>3 DEF Shows
  <2>6. EndsWell(s)
    BY <2>0, <2>1, <2>4 DEF EndsWell, Ends
  <2> QED BY <2>1, <2>2, <2>5, <2>6, OneStreamMoves
<1>8. ASSUME NEW w \in Watcher, Unsubscribe(w) PROVE StreamInv'
  <2>1. Away \in Stream /\ Away.step = "away"
    BY EmptySeq DEF Away, Stream
  <2>2. watch' = [watch EXCEPT ![w] = Away] /\ history' = history
    BY <1>8 DEF Unsubscribe
  <2> QED BY <2>1, <2>2, OneStreamMoves
<1>9. CASE EmitUnread
  BY <1>4, <1>9 DEF EmitUnread
<1>10. CASE Resume
  BY <1>4, <1>10 DEF Resume
<1>11. CASE UNCHANGED streamVars
  BY <1>4, <1>11 DEF streamVars
<1> QED BY <1>2, <1>3, <1>5, <1>6, <1>7, <1>8, <1>9, <1>10, <1>11 DEF StreamNext

\* Whatever is published and whoever comes and goes: a browser is written a beginning of the run, in
\* order and whole, up to the first event that is terminal; what its channel holds is the rest; and
\* only a full channel loses events (publish, Subscribe, handleEvents).
THEOREM WatchersSeeABeginning == StreamSpec => []StreamIsABeginning
<1>1. StreamInv => StreamIsABeginning
  <2> SUFFICES ASSUME StreamInv PROVE StreamIsABeginning
    OBVIOUS
  <2>0. history \in Seq(Emitted)
    BY DEF StreamInv, StreamTypes
  <2>1. ASSUME NEW w \in Watcher, watch[w].step # "away"
        PROVE  LET s == watch[w]  shown == Len(s.got)  all == s.got \o s.queue IN
               /\ ~s.missed => s.got = SubSeq(history, 1, shown)
               /\ ~s.missed /\ s.step = "streaming" => all = history
               /\ s.missed => ChannelCap < Len(history)
               /\ \A i, j \in DOMAIN all : i < j => all[i].n < all[j].n
               /\ \A i \in 1..shown : s.got[i].terminal <=> i = shown /\ s.step = "served"
               /\ s.step = "served" => shown > 0
    <3> DEFINE s == watch[w]
               shown == Len(s.got)
               all == s.got \o s.queue
    <3>1. s \in Stream /\ s.got \in Seq(Emitted) /\ s.queue \in Seq(Emitted) /\ all \in Seq(Emitted)
      <4>1. s \in Stream
        BY DEF StreamInv, StreamTypes
      <4>2. s.got \in Seq(Emitted) /\ s.queue \in Seq(Emitted)
        BY <4>1 DEF Stream
      <4> QED BY <4>1, <4>2, ConcatProperties
    <3>2. s.step = "streaming" => SeesWell(s, history)
      BY DEF StreamInv, StreamsSeeWell, Subscribed
    <3>3. Shows(s, history)
      <4>1. CASE s.step = "streaming"
        BY <4>1, <2>0, <3>1, <3>2, SeeingShows
      <4>2. CASE s.step # "streaming"
        <5>1. s.step \in {"served", "leaving"}
          BY <2>1, <3>1, <4>2 DEF Stream
        <5> QED BY <5>1 DEF StreamInv, StreamsShow
      <4> QED BY <4>1, <4>2
    <3>4. EndsWell(s)
      BY <2>1 DEF StreamInv, StreamsEndWell
    <3>5. DOMAIN all = 1..Len(all)
      BY <3>1, LenProperties
    <3>6. ~s.missed => s.got = SubSeq(history, 1, shown)
      <4> SUFFICES ASSUME ~s.missed PROVE s.got = SubSeq(history, 1, shown)
        OBVIOUS
      <4>1. shown \in Nat /\ Len(history) \in Nat /\ shown <= Len(history)
        BY <2>0, <3>1, <3>3, LenProperties DEF Shows
      <4>2. \A i \in 1..shown : s.got[i] = history[i]
        BY <3>3 DEF Shows
      <4> HIDE DEF s
      <4>3. SubSeq(history, 1, shown) = [i \in 1..shown |-> history[i]]
        BY <2>0, <4>1
      <4>4. s.got = [i \in 1..shown |-> s.got[i]]
        BY <3>1, LenProperties
      <4> QED BY <4>2, <4>3, <4>4
    <3>7. ~s.missed /\ s.step = "streaming" => all = history
      BY <3>2 DEF SeesWell
    <3>8. /\ s.missed => ChannelCap < Len(history)
          /\ \A i, j \in 1..Len(all) : i < j => all[i].n < all[j].n
      BY <3>3 DEF Shows
    <3>9. /\ \A i \in 1..shown : s.got[i].terminal <=> i = shown /\ s.step = "served"
          /\ s.step = "served" => shown > 0
      BY <3>4 DEF EndsWell, Ends
    <3> HIDE DEF s, all, shown
    <3>10. \A i, j \in DOMAIN all : i < j => all[i].n < all[j].n
      BY <3>5, <3>8
    <3> QED BY <3>6, <3>7, <3>8, <3>9, <3>10 DEF s, all, shown
  <2> QED BY <2>1 DEF StreamIsABeginning
<1> QED BY <1>1, StreamInitially, StreamStep, PTL DEF StreamSpec

-----------------------------------------------------------------------------
(***************************************************************************)
(* The conversation and its requests.  Nothing locks a subject or a pending *)
(* action; what makes consent sound is that an action is taken out of the  *)
(* map in the one step that reads it, and that an answer of the agent is   *)
(* written by the request that wrote the question before it.               *)
(***************************************************************************)

Role == {"user", "agent"}
TurnRecord == [seq : Nat, role : Role, by : Writer]
DraftStep == {"idle", "begun", "locked", "inserted", "ok", "failed"}
DraftRecord == [step : DraftStep, conv : Conversation \cup {NoConversation}, role : Role, seq : Nat]

MemoryTypes ==
  /\ DOMAIN turns = Conversation /\ \A c \in Conversation : turns[c] \subseteq TurnRecord /\ IsFiniteSet(turns[c])
  /\ DOMAIN lock = Conversation
  /\ draft \in [Writer -> DraftRecord] /\ \A w \in Writer : draft[w].step # "idle" => draft[w].conv \in Conversation

Size(c) == Cardinality(turns[c])
HasTurn(w, c, r) == \E t \in turns[c] : t.by = w /\ t.role = r

NumberedInTurn == \A c \in Conversation : {t.seq : t \in turns[c]} = 1..Size(c)

AnswersFollow ==
  /\ \A c \in Conversation : \A t \in turns[c] : t.role = "agent" =>
       \E u \in turns[c] : u.role = "user" /\ u.by = t.by /\ u.seq < t.seq
  /\ \A w \in Writer, c \in Conversation :
       draft[w].step \in {"begun", "locked", "inserted"} /\ draft[w].role = "agent" /\ draft[w].conv = c =>
         HasTurn(w, c, "user")

OneWriterAtATime ==
  /\ \A w \in Writer : draft[w].step \in {"locked", "inserted"} => lock[draft[w].conv] = w
  /\ \A w \in Writer, c \in Conversation :
       draft[w].step = "inserted" /\ draft[w].conv = c => draft[w].seq = Size(c) + 1

WrittenIsThere ==
  \A w \in Writer, c \in Conversation, r \in Role :
    draft[w].step = "ok" /\ draft[w].conv = c /\ draft[w].role = r => HasTurn(w, c, r)

MemoryInv ==
  /\ MemoryTypes /\ NumberedInTurn /\ AnswersFollow
  /\ OneWriterAtATime /\ WrittenIsThere

\* What one transaction does to the rest: drafts of others stay, and no turn is lost.
DraftBecomes(w, d) ==
  /\ draft' \in [Writer -> DraftRecord] /\ draft'[w] = d
  /\ \A v \in Writer \ {w} : draft'[v] = draft[v]

LEMMA OneDraftMoves ==
  ASSUME MemoryTypes, NEW w \in Writer, NEW d \in DraftRecord, draft' = [draft EXCEPT ![w] = d]
  PROVE  DraftBecomes(w, d)
BY DEF MemoryTypes, DraftBecomes

LEMMA SizeIsNat == ASSUME MemoryTypes, NEW c \in Conversation PROVE Size(c) \in Nat
BY FS_CardinalityType DEF MemoryTypes, Size

LEMMA SameTurns ==
  ASSUME MemoryInv, turns' = turns, NEW w \in Writer, NEW d \in DraftRecord, DraftBecomes(w, d),
         DOMAIN lock' = Conversation,
         d.step # "idle" => d.conv \in Conversation,
         \A v \in Writer \ {w} : draft[v].step \in {"locked", "inserted"} => lock'[draft[v].conv] = v,
         d.step \in {"locked", "inserted"} => lock'[d.conv] = w,
         d.step = "inserted" => d.seq = Size(d.conv) + 1,
         d.step \in {"begun", "locked", "inserted"} /\ d.role = "agent" => HasTurn(w, d.conv, "user"),
         d.step # "ok"
  PROVE  MemoryInv'
<1>1. MemoryTypes'
  BY DEF MemoryInv, MemoryTypes, DraftBecomes
<1>2. \A c \in Conversation : Size(c)' = Size(c)
  BY DEF Size
<1>3. \A v, c, r : HasTurn(v, c, r)' <=> HasTurn(v, c, r)
  BY DEF HasTurn
<1>4. NumberedInTurn'
  BY <1>2 DEF MemoryInv, NumberedInTurn
<1>5. AnswersFollow'
  BY <1>3 DEF MemoryInv, AnswersFollow, DraftBecomes
<1>6. OneWriterAtATime'
  <2>1. ASSUME NEW v \in Writer, draft'[v].step \in {"locked", "inserted"} PROVE lock'[draft'[v].conv] = v
    BY <2>1 DEF MemoryInv, OneWriterAtATime, DraftBecomes
  <2>2. ASSUME NEW v \in Writer, NEW c \in Conversation, draft'[v].step = "inserted", draft'[v].conv = c
        PROVE  draft'[v].seq = Size(c)' + 1
    BY <1>2, <2>2 DEF MemoryInv, OneWriterAtATime, DraftBecomes
  <2> QED BY <2>1, <2>2 DEF OneWriterAtATime
<1>7. WrittenIsThere'
  BY <1>3 DEF MemoryInv, WrittenIsThere, DraftBecomes
<1> QED BY <1>1, <1>4, <1>5, <1>6, <1>7 DEF MemoryInv

LEMMA BeginKeeps ==
  ASSUME MemoryInv, NEW w \in Writer, NEW c, NEW r \in Role, BeginTurn(w, c, r),
         r = "agent" => HasTurn(w, c, "user")
  PROVE  MemoryInv' /\ turns' = turns /\ DraftBecomes(w, Begun(c, r))
<1> DEFINE d == Begun(c, r)
<1>1. /\ d \in DraftRecord /\ d.step = "begun" /\ d.conv = c /\ d.role = r /\ c \in Conversation
  BY DEF BeginTurn, Begun, DraftRecord, DraftStep
<1>2. draft' = [draft EXCEPT ![w] = d] /\ turns' = turns /\ lock' = lock
  BY DEF BeginTurn
<1> HIDE DEF d
<1>3. DraftBecomes(w, d)
  BY <1>1, <1>2, OneDraftMoves DEF MemoryInv
<1>4. DOMAIN lock' = Conversation
      /\ \A v \in Writer \ {w} : draft[v].step \in {"locked", "inserted"} => lock'[draft[v].conv] = v
  BY <1>2 DEF MemoryInv, MemoryTypes, OneWriterAtATime
<1>5. MemoryInv'
  BY <1>1, <1>2, <1>3, <1>4, SameTurns
<1> QED BY <1>2, <1>3, <1>5 DEF d

LEMMA LockKeeps ==
  ASSUME MemoryInv, NEW w \in Writer, Unlocked \notin Writer, LockConversation(w)
  PROVE  /\ MemoryInv' /\ turns' = turns
         /\ \E d \in DraftRecord : DraftBecomes(w, d) /\ d.step = "locked"
                                   /\ d.conv = draft[w].conv /\ d.role = draft[w].role
<1> DEFINE o == draft[w]
           d == [o EXCEPT !.step = "locked"]
<1>1. o \in DraftRecord /\ o.step = "begun" /\ o.conv \in Conversation /\ lock[o.conv] = Unlocked
  BY DEF MemoryInv, MemoryTypes, LockConversation
<1>2. draft' = [draft EXCEPT ![w] = d] /\ turns' = turns /\ lock' = [lock EXCEPT ![o.conv] = w]
  BY DEF LockConversation
<1>a. o.role = "agent" => HasTurn(w, o.conv, "user")
  BY <1>1 DEF MemoryInv, AnswersFollow
<1> HIDE DEF o
<1>3. d \in DraftRecord /\ d.step = "locked" /\ d.conv = o.conv /\ d.role = o.role
  BY <1>1 DEF DraftRecord, DraftStep
<1> HIDE DEF d
<1>4. DraftBecomes(w, d)
  BY <1>2, <1>3, OneDraftMoves DEF MemoryInv
<1>5. DOMAIN lock' = Conversation /\ lock'[o.conv] = w /\ \A c \in Conversation \ {o.conv} : lock'[c] = lock[c]
  BY <1>1, <1>2 DEF MemoryInv, MemoryTypes
<1>6. \A v \in Writer \ {w} : draft[v].step \in {"locked", "inserted"} => lock'[draft[v].conv] = v
  BY <1>1, <1>5 DEF MemoryInv, MemoryTypes, OneWriterAtATime
<1>7. MemoryInv'
  BY <1>1, <1>2, <1>3, <1>4, <1>5, <1>6, <1>a, SameTurns
<1> QED BY <1>2, <1>3, <1>4, <1>7 DEF o

LEMMA FailKeeps ==
  ASSUME MemoryInv, NEW w \in Writer, FailTurn(w)
  PROVE  /\ MemoryInv' /\ turns' = turns
         /\ \E d \in DraftRecord : DraftBecomes(w, d) /\ d.step = "failed" /\ d.conv = draft[w].conv
<1> DEFINE o == draft[w]
           d == [o EXCEPT !.step = "failed"]
<1>1. o \in DraftRecord /\ o.conv \in Conversation
  BY DEF MemoryInv, MemoryTypes, FailTurn
<1>2. draft' = [draft EXCEPT ![w] = d] /\ turns' = turns
      /\ lock' = [c \in Conversation |-> IF lock[c] = w THEN Unlocked ELSE lock[c]]
  BY DEF FailTurn, Released
<1> HIDE DEF o
<1>3. d \in DraftRecord /\ d.step = "failed" /\ d.conv = o.conv
  BY <1>1 DEF DraftRecord, DraftStep
<1> HIDE DEF d
<1>4. DraftBecomes(w, d)
  BY <1>2, <1>3, OneDraftMoves DEF MemoryInv
<1>5. DOMAIN lock' = Conversation
      /\ \A v \in Writer \ {w} : draft[v].step \in {"locked", "inserted"} => lock'[draft[v].conv] = v
  BY <1>2 DEF MemoryInv, MemoryTypes, OneWriterAtATime
<1>6. MemoryInv'
  BY <1>1, <1>2, <1>3, <1>4, <1>5, SameTurns
<1> QED BY <1>2, <1>3, <1>4, <1>6 DEF o

\* The next number: one more than the turns that are there.
LEMMA NextAfterAll ==
  ASSUME NEW c, NEW n \in Nat, {t.seq : t \in turns[c]} = 1..n PROVE NextSeq(c) = n + 1
<1> DEFINE T == {t.seq : t \in turns[c]} \cup {0}
           m == CHOOSE x \in T : \A y \in T : y <= x
<1>1. T = 1..n \cup {0}
  OBVIOUS
<1>2. NextSeq(c) = m + 1
  BY DEF NextSeq
<1> HIDE DEF T
<1>3. n \in T /\ \A y \in T : y <= n /\ y \in Nat
  BY <1>1
<1>4. m \in T /\ \A y \in T : y <= m
  BY <1>3
<1> HIDE DEF m
<1>5. m = n
  BY <1>3, <1>4
<1> QED BY <1>2, <1>5

LEMMA InsertKeeps ==
  ASSUME MemoryInv, NEW w \in Writer, InsertTurn(w)
  PROVE  /\ MemoryInv' /\ turns' = turns
         /\ \E d \in DraftRecord : DraftBecomes(w, d) /\ d.step = "inserted"
                                   /\ d.conv = draft[w].conv /\ d.role = draft[w].role
<1> DEFINE o == draft[w]
           n == NextSeq(o.conv)
           d == [o EXCEPT !.step = "inserted", !.seq = n]
<1>1. o \in DraftRecord /\ o.step = "locked" /\ o.conv \in Conversation /\ lock[o.conv] = w
  BY DEF MemoryInv, MemoryTypes, InsertTurn, OneWriterAtATime
<1>2. draft' = [draft EXCEPT ![w] = d] /\ turns' = turns /\ lock' = lock
  <2>1. draft' = [draft EXCEPT ![w].step = "inserted", ![w].seq = n] /\ turns' = turns /\ lock' = lock
    BY DEF InsertTurn
  <2>2. w \in DOMAIN draft
    BY DEF MemoryInv, MemoryTypes
  <2> HIDE DEF n
  <2> QED BY <2>1, <2>2
<1>a. o.role = "agent" => HasTurn(w, o.conv, "user")
  BY <1>1 DEF MemoryInv, AnswersFollow
<1>n. n = Size(o.conv) + 1 /\ n \in Nat
  <2>1. PICK k : k = Size(o.conv)
    OBVIOUS
  <2>2. {t.seq : t \in turns[o.conv]} = 1..k /\ k \in Nat
    BY <1>1, <2>1, SizeIsNat DEF MemoryInv, NumberedInTurn
  <2>3. NextSeq(o.conv) = k + 1
    BY <2>2, NextAfterAll
  <2> QED BY <2>1, <2>2, <2>3
<1> HIDE DEF o, n
<1>3. d \in DraftRecord /\ d.step = "inserted" /\ d.conv = o.conv /\ d.role = o.role /\ d.seq = n
  BY <1>1, <1>n DEF DraftRecord, DraftStep
<1> HIDE DEF d
<1>4. DraftBecomes(w, d)
  BY <1>2, <1>3, OneDraftMoves DEF MemoryInv
<1>5. DOMAIN lock' = Conversation
      /\ \A v \in Writer \ {w} : draft[v].step \in {"locked", "inserted"} => lock'[draft[v].conv] = v
  BY <1>2 DEF MemoryInv, MemoryTypes, OneWriterAtATime
<1>6. MemoryInv'
  BY <1>1, <1>2, <1>3, <1>4, <1>5, <1>a, <1>n, SameTurns
<1> QED BY <1>2, <1>3, <1>4, <1>6 DEF o

\* A commit is never refused, because its number was taken under the lock it still holds.
LEMMA CommitTurnKeeps ==
  ASSUME MemoryInv, NEW w \in Writer, Unlocked \notin Writer, CommitTurn(w)
  PROVE  /\ MemoryInv'
         /\ \A c \in Conversation : turns[c] \subseteq turns'[c]
         /\ \E d \in DraftRecord : DraftBecomes(w, d) /\ d.step = "ok"
                                   /\ d.conv = draft[w].conv /\ d.role = draft[w].role
<1>o. PICK o : o = draft[w]
  OBVIOUS
<1>c. PICK c : c = o.conv
  OBVIOUS
<1>k. PICK k : k = Size(c)
  OBVIOUS
<1> DEFINE e == [seq |-> o.seq, role |-> o.role, by |-> w]
           d == [o EXCEPT !.step = "ok"]
<1>1. /\ o \in DraftRecord /\ o.step = "inserted" /\ c \in Conversation /\ lock[c] = w /\ o.seq = k + 1
      /\ k \in Nat /\ {t.seq : t \in turns[c]} = 1..k
  <2>1. /\ o \in DraftRecord /\ o.step = "inserted" /\ c \in Conversation /\ lock[c] = w
        /\ {t.seq : t \in turns[c]} = 1..k /\ o.seq = k + 1
    BY <1>o, <1>c, <1>k DEF MemoryInv, MemoryTypes, CommitTurn, OneWriterAtATime, NumberedInTurn
  <2> QED BY <1>k, <2>1, SizeIsNat DEF MemoryInv
<1>2. ~\E t \in turns[c] : t.seq = o.seq
  <2> SUFFICES ASSUME NEW t \in turns[c], t.seq = o.seq PROVE FALSE
    OBVIOUS
  <2>1. o.seq \in 1..k
    BY <1>1
  <2> QED BY <1>1, <2>1
<1>3. /\ turns' = [turns EXCEPT ![c] = turns[c] \cup {e}]
      /\ draft' = [draft EXCEPT ![w] = d]
      /\ lock' = [x \in Conversation |-> IF lock[x] = w THEN Unlocked ELSE lock[x]]
  BY <1>o, <1>c, <1>2 DEF CommitTurn, Released
<1>a. o.role = "agent" => HasTurn(w, c, "user")
  BY <1>o, <1>c, <1>1 DEF MemoryInv, AnswersFollow
<1>4. e \in TurnRecord /\ e.seq = o.seq /\ e.role = o.role /\ e.by = w
  BY <1>1 DEF DraftRecord, TurnRecord
<1> HIDE DEF e
<1>5. d \in DraftRecord /\ d.step = "ok" /\ d.conv = c /\ d.role = o.role
  BY <1>1, <1>c DEF DraftRecord, DraftStep
<1> HIDE DEF d
<1>6. DraftBecomes(w, d)
  BY <1>3, <1>5, OneDraftMoves DEF MemoryInv
<1>7. /\ DOMAIN turns' = Conversation /\ turns'[c] = turns[c] \cup {e}
      /\ \A x \in Conversation \ {c} : turns'[x] = turns[x]
  BY <1>1, <1>3 DEF MemoryInv, MemoryTypes
<1>8. IsFiniteSet(turns'[c]) /\ Size(c)' = k + 1
  <2>1. IsFiniteSet(turns[c]) /\ e \notin turns[c]
    BY <1>1, <1>2, <1>4 DEF MemoryInv, MemoryTypes
  <2>2. IsFiniteSet(turns[c] \cup {e}) /\ Cardinality(turns[c] \cup {e}) = Cardinality(turns[c]) + 1
    BY <2>1, FS_AddElement
  <2> QED BY <1>k, <1>7, <2>2 DEF Size
<1>9. \A x \in Conversation \ {c} : Size(x)' = Size(x)
  BY <1>7 DEF Size
<1>10. MemoryTypes'
  <2>1. DOMAIN lock' = Conversation
    BY <1>3
  <2>2. \A x \in Conversation : turns'[x] \subseteq TurnRecord /\ IsFiniteSet(turns'[x])
    BY <1>4, <1>7, <1>8 DEF MemoryInv, MemoryTypes
  <2> QED BY <1>1, <1>5, <1>6, <1>7, <2>1, <2>2 DEF MemoryInv, MemoryTypes, DraftBecomes
<1>11. NumberedInTurn'
  <2>1. {t.seq : t \in turns'[c]} = {t.seq : t \in turns[c]} \cup {o.seq}
    BY <1>4, <1>7
  <2>2. {t.seq : t \in turns'[c]} = 1..(k + 1)
    <3>1. 1..(k + 1) = 1..k \cup {k + 1}
      BY <1>1
    <3> QED BY <1>1, <2>1, <3>1
  <2>3. \A x \in Conversation \ {c} : {t.seq : t \in turns'[x]} = 1..Size(x)'
    BY <1>7, <1>9 DEF MemoryInv, NumberedInTurn
  <2> QED BY <1>8, <2>2, <2>3 DEF NumberedInTurn
<1>12. \A x \in Conversation : turns[x] \subseteq turns'[x]
  BY <1>7
<1>13. \A v, r : \A x \in Conversation : HasTurn(v, x, r) => HasTurn(v, x, r)'
  BY <1>12 DEF HasTurn
<1>14. AnswersFollow'
  <2>1. ASSUME NEW x \in Conversation, NEW t \in turns'[x], t.role = "agent"
        PROVE  \E u \in turns'[x] : u.role = "user" /\ u.by = t.by /\ u.seq < t.seq
    <3>1. CASE t \in turns[x]
      BY <1>12, <2>1, <3>1 DEF MemoryInv, AnswersFollow
    <3>2. CASE t \notin turns[x]
      <4>1. x = c /\ t = e
        BY <1>7, <2>1, <3>2
      <4>2. PICK u \in turns[c] : u.by = w /\ u.role = "user"
        BY <1>4, <1>a, <2>1, <4>1 DEF HasTurn
      <4>3. u.seq \in 1..k
        BY <1>1
      <4>4. u.seq < k + 1
        BY <1>1, <4>3
      <4> QED BY <1>1, <1>4, <1>7, <4>1, <4>2, <4>4
    <3> QED BY <3>1, <3>2
  <2>2. ASSUME NEW v \in Writer, NEW x \in Conversation, draft'[v].conv = x,
               draft'[v].step \in {"begun", "locked", "inserted"}, draft'[v].role = "agent"
        PROVE  HasTurn(v, x, "user")'
    <3>1. v # w /\ draft'[v] = draft[v]
      BY <1>5, <1>6, <2>2 DEF DraftBecomes, MemoryInv, MemoryTypes
    <3> QED BY <1>13, <2>2, <3>1 DEF MemoryInv, AnswersFollow
  <2> QED BY <2>1, <2>2 DEF AnswersFollow
<1>15. \A v \in Writer \ {w} : draft'[v] = draft[v] /\ (draft[v].step \in {"locked", "inserted"} => draft[v].conv # c)
  BY <1>1, <1>6 DEF MemoryInv, OneWriterAtATime, DraftBecomes
<1>16. OneWriterAtATime'
  <2>1. ASSUME NEW v \in Writer, draft'[v].step \in {"locked", "inserted"}
        PROVE  /\ v # w /\ draft[v].conv \in Conversation \ {c} /\ draft'[v] = draft[v] /\ lock[draft[v].conv] = v
    BY <1>5, <1>6, <1>15, <2>1 DEF MemoryInv, MemoryTypes, OneWriterAtATime, DraftBecomes
  <2>2. \A v \in Writer : draft'[v].step \in {"locked", "inserted"} => lock'[draft'[v].conv] = v
    BY <1>3, <2>1
  <2>3. ASSUME NEW v \in Writer, NEW x \in Conversation, draft'[v].step = "inserted", draft'[v].conv = x
        PROVE  draft'[v].seq = Size(x)' + 1
    <3>1. x # c /\ draft'[v] = draft[v]
      BY <2>1, <2>3
    <3>2. draft[v].seq = Size(x) + 1
      BY <2>3, <3>1 DEF MemoryInv, OneWriterAtATime
    <3> QED BY <1>9, <3>1, <3>2
  <2> QED BY <2>2, <2>3 DEF OneWriterAtATime
<1>17. WrittenIsThere'
  <2>1. HasTurn(w, c, o.role)'
    BY <1>4, <1>7 DEF HasTurn
  <2> QED BY <1>5, <1>6, <1>13, <2>1 DEF MemoryInv, MemoryTypes, WrittenIsThere, DraftBecomes
<1>18. MemoryInv'
  BY <1>10, <1>11, <1>14, <1>16, <1>17 DEF MemoryInv
<1> QED BY <1>o, <1>c, <1>5, <1>6, <1>12, <1>18

-----------------------------------------------------------------------------
(***************************************************************************)
(* The console: consent and the record of an exchange.                     *)
(***************************************************************************)
Early == {"resolving", "binding", "registering", "thinking", "routing"}
Assent == {"agreed", "resolving", "binding", "registering", "acting"}

\* A record of the right fields, whatever is in them.
RequestOf(S) == [step : S, ref : S, rest : S, sub : S, decided : S, faulty : S]
IsRequest(r) == \E S : r \in RequestOf(S)
IsAction(a) == \E S : a \in [step : S, capability : S, axis : S]
IsRun(r) == \E S : r \in [kind : S, repo : S, by : S, acted : S]

ChatTypes ==
  /\ wish \in Wishes
  /\ DOMAIN req = Request /\ \A q \in Request : IsRequest(req[q])
  /\ DOMAIN action = Request /\ \A q \in Request : IsAction(action[q])
  /\ DOMAIN run = Request /\ \A q \in Request : IsRun(run[q])
  /\ DOMAIN said = Request

\* What the floor lets pass.
Allowed(q) == ~Unbounded(wish[q].sentence) /\ ~Redirects(wish[q].sentence)

\* q holds the yes to what a asked: it acts on it, or has.
Holds(q, a) ==
  /\ wish[q].kind = "confirm" /\ wish[q].asked = a
  /\ req[q].step \in Assent \/ run[q].kind # "none"

AnsweredOnce ==
  /\ \A a \in Request : action[a].step \in {"none", "waiting"} => said[a] = << >>
  /\ \A q, a \in Request : Holds(q, a) =>
       action[a].step \notin {"none", "waiting"} /\ said[a] # << >> /\ said[a][1]
  /\ \A p, q, a \in Request : Holds(p, a) /\ Holds(q, a) => p = q

OnlyAllowed ==
  /\ \A a \in Request : action[a].step # "none" => wish[a].kind = "ask" /\ Allowed(a)
  /\ \A q \in Request : wish[q].kind = "ask" /\ req[q].step \in Early \cup {"new"} =>
       action[q].step = "none" /\ run[q].kind = "none" /\ (req[q].step # "new" => Allowed(q))
  /\ \A q \in Request : run[q].kind # "none" =>
       \/ wish[q].kind = "ask" /\ run[q].by = Unasked /\ action[q].step = "none" /\ Allowed(q)
       \/ wish[q].kind = "confirm" /\ run[q].by = wish[q].asked

ConsentInv == ChatTypes /\ AnsweredOnce /\ OnlyAllowed

\* The drafts of a request, and what a finished exchange has left.
RecordInv ==
  /\ \A q \in Request : req[q].step = "recording" => wish[q].kind = "ask" /\ wish[q].conv \in Conversation
  /\ \A q \in Request : draft[q].step # "idle" => wish[q].kind = "ask" /\ draft[q].conv = wish[q].conv
  /\ \A q \in Request : draft[q].step # "idle" => req[q].step \in {"recording", "done"}
  /\ \A q \in Request : draft[q].step = "failed" => req[q].faulty
  /\ \A q \in Request : wish[q].kind = "ask" /\ req[q].step \in Early \cup {"new"} => req[q].decided = ""
  /\ \A q \in Request : At(q, "ask", "done") /\ ~req[q].faulty /\ req[q].decided # "" /\ wish[q].conv \in Conversation =>
       HasTurn(q, wish[q].conv, "agent")

ConsoleInv == MemoryInv /\ ConsentInv /\ RecordInv

-----------------------------------------------------------------------------
\* Request q goes to step s, with the decision d.
Moves(q, s, d) ==
  /\ DOMAIN req' = Request /\ IsRequest(req'[q])
  /\ req'[q].step = s /\ req'[q].decided = d /\ req'[q].faulty = req[q].faulty
  /\ \A p \in Request \ {q} : req'[p] = req[p]

Quietly == UNCHANGED <<wish, said, memoryVars>>
Recorded(q) == IF wish[q].conv \in Conversation THEN "recording" ELSE "done"

Walks(q) ==
  /\ Quietly /\ UNCHANGED <<action, run>>
  /\ \E s : /\ Moves(q, s, req[q].decided)
           /\ \/ wish[q].kind = "load" /\ s # "recording"
              \/ /\ wish[q].kind = "ask" /\ req[q].step \in Early \cup {"new"} /\ s \in Early
                 /\ req[q].step = "new" => Allowed(q)
              \/ wish[q].kind = "confirm" /\ req[q].step \in Assent /\ s \in Assent \cup {"done"}

Replies(q) ==
  /\ Quietly /\ UNCHANGED run
  /\ wish[q].kind = "ask" /\ req[q].step \in Early \cup {"new"}
  /\ \E d : d # "" /\ Moves(q, Recorded(q), d)
  /\ action' = action \/ (req[q].step # "new" /\ \E c, axis : Pending(q, c, axis))

Serving(q) ==
  /\ Quietly /\ UNCHANGED action
  /\ \/ /\ wish[q].kind = "ask" /\ req[q].step = "routing"
        /\ Moves(q, Recorded(q), "fallback") \/ Moves(q, "done", req[q].decided)
        /\ run' = run \/ \E kind : Began(q, kind, Unasked)
     \/ /\ wish[q].kind = "confirm" /\ req[q].step = "acting" /\ Moves(q, "done", req[q].decided)
        /\ run' = run \/ \E kind : Began(q, kind, wish[q].asked)

Answering(q) ==
  LET a == wish[q].asked IN
  /\ UNCHANGED <<wish, run, memoryVars>> /\ wish[q].kind = "confirm" /\ req[q].step = "new"
  /\ \/ Moves(q, "done", req[q].decided) /\ UNCHANGED <<action, said>>
     \/ /\ action[a].step = "waiting"
        /\ action' = [action EXCEPT ![a].step = "decided"]
        /\ said' = [said EXCEPT ![a] = Append(@, wish[q].yes)]
        /\ Moves(q, IF wish[q].yes THEN "agreed" ELSE "done", req[q].decided)

LEMMA RecordedIs ==
  ASSUME NEW q
  PROVE  \/ wish[q].conv \in Conversation /\ Recorded(q) = "recording"
         \/ wish[q].conv \notin Conversation /\ Recorded(q) = "done"
<1>1. CASE wish[q].conv \in Conversation
  BY <1>1 DEF Recorded
<1>2. CASE wish[q].conv \notin Conversation
  BY <1>2 DEF Recorded
<1> QED BY <1>1, <1>2

LEMMA Going ==
  ASSUME ChatTypes, NEW q \in Request, NEW s, NEW n, IsRequest(n), req' = [req EXCEPT ![q] = n],
         n.step = s, n.faulty = req[q].faulty
  PROVE  Moves(q, s, n.decided)
BY DEF ChatTypes, Moves

LEMMA GotoMoves ==
  ASSUME ChatTypes, NEW q \in Request, NEW s, Goto(q, s) PROVE Moves(q, s, req[q].decided)
<1> DEFINE o == req[q]
           n == [o EXCEPT !.step = s]
<1>1. IsRequest(o)
  BY DEF ChatTypes
<1>2. req' = [req EXCEPT ![q] = n]
  BY DEF Goto
<1> HIDE DEF o
<1>p. PICK S : o \in RequestOf(S)
  BY <1>1 DEF IsRequest
<1>n. n \in RequestOf(S \cup {s}) /\ n.step = s /\ n.decided = o.decided /\ n.faulty = o.faulty
  BY <1>p DEF RequestOf
<1>3. IsRequest(n)
  BY <1>n DEF IsRequest
<1> HIDE DEF n
<1> QED BY <1>2, <1>n, <1>3, Going DEF o

LEMMA ReplyMoves ==
  ASSUME ChatTypes, NEW q \in Request, NEW d, Reply(q, d) PROVE Moves(q, Recorded(q), d)
<1> DEFINE o == req[q]
           s == Recorded(q)
           n == [o EXCEPT !.decided = d, !.step = s]
<1>1. IsRequest(o)
  BY DEF ChatTypes
<1>2. req' = [req EXCEPT ![q] = n]
  BY DEF Reply, Recorded
<1> HIDE DEF o, s
<1>p. PICK S : o \in RequestOf(S)
  BY <1>1 DEF IsRequest
<1>n. n \in RequestOf(S \cup {s, d}) /\ n.step = s /\ n.decided = d /\ n.faulty = o.faulty
  BY <1>p DEF RequestOf
<1>3. IsRequest(n)
  BY <1>n DEF IsRequest
<1> HIDE DEF n
<1>4. Moves(q, s, d)
  BY <1>2, <1>n, <1>3, Going DEF o
<1> QED BY <1>4 DEF s

LEMMA ReadyMoves ==
  ASSUME ChatTypes, NEW q \in Request, NEW x, Ready(q, x)
  PROVE  Moves(q, IF wish[q].kind = "ask" THEN "thinking" ELSE "acting", req[q].decided)
<1> DEFINE o == req[q]
           s == IF wish[q].kind = "ask" THEN "thinking" ELSE "acting"
           n == [o EXCEPT !.sub = x, !.step = s]
<1>1. IsRequest(o)
  BY DEF ChatTypes
<1>2. req' = [req EXCEPT ![q] = n]
  BY DEF Ready
<1> HIDE DEF o, s
<1>p. PICK S : o \in RequestOf(S)
  BY <1>1 DEF IsRequest
<1>n. n \in RequestOf(S \cup {s, x}) /\ n.step = s /\ n.decided = o.decided /\ n.faulty = o.faulty
  BY <1>p DEF RequestOf
<1>3. IsRequest(n)
  BY <1>n DEF IsRequest
<1> HIDE DEF n
<1>4. Moves(q, s, o.decided)
  BY <1>2, <1>n, <1>3, Going DEF o
<1> QED BY <1>4 DEF o, s

LEMMA RefMoves ==
  ASSUME ChatTypes, NEW q \in Request, NEW s, NEW x, req' = [req EXCEPT ![q].step = s, ![q].ref = x]
  PROVE  Moves(q, s, req[q].decided)
<1> DEFINE o == req[q]
           n == [o EXCEPT !.step = s, !.ref = x]
<1>1. IsRequest(o)
  BY DEF ChatTypes
<1>2. req' = [req EXCEPT ![q] = n]
  OBVIOUS
<1> HIDE DEF o
<1>3. PICK S : o \in RequestOf(S)
  BY <1>1 DEF IsRequest
<1>4. n \in RequestOf(S \cup {s, x}) /\ n.step = s /\ n.decided = o.decided /\ n.faulty = o.faulty
  BY <1>3 DEF RequestOf
<1>5. IsRequest(n)
  BY <1>4 DEF IsRequest
<1> HIDE DEF n
<1> QED BY <1>2, <1>4, <1>5, Going DEF o

LEMMA RestMoves ==
  ASSUME ChatTypes, NEW q \in Request, NEW s, NEW x, req' = [req EXCEPT ![q].step = s, ![q].rest = x]
  PROVE  Moves(q, s, req[q].decided)
<1> DEFINE o == req[q]
           n == [o EXCEPT !.step = s, !.rest = x]
<1>1. IsRequest(o)
  BY DEF ChatTypes
<1>2. req' = [req EXCEPT ![q] = n]
  OBVIOUS
<1> HIDE DEF o
<1>3. PICK S : o \in RequestOf(S)
  BY <1>1 DEF IsRequest
<1>4. n \in RequestOf(S \cup {s, x}) /\ n.step = s /\ n.decided = o.decided /\ n.faulty = o.faulty
  BY <1>3 DEF RequestOf
<1>5. IsRequest(n)
  BY <1>4 DEF IsRequest
<1> HIDE DEF n
<1> QED BY <1>2, <1>4, <1>5, Going DEF o

LEMMA RestoreMoves ==
  ASSUME ChatTypes, NEW q \in Request, subjectOrRestore(q)
  PROVE  \/ Moves(q, "resolving", req[q].decided)
         \/ wish[q].kind = "ask" /\ Moves(q, "thinking", req[q].decided)
         \/ wish[q].kind # "ask" /\ Moves(q, "acting", req[q].decided)
<1>1. ASSUME NEW x, Ready(q, x)
      PROVE  \/ wish[q].kind = "ask" /\ Moves(q, "thinking", req[q].decided)
             \/ wish[q].kind # "ask" /\ Moves(q, "acting", req[q].decided)
  <2>1. Moves(q, IF wish[q].kind = "ask" THEN "thinking" ELSE "acting", req[q].decided)
    BY <1>1, ReadyMoves
  <2>2. CASE wish[q].kind = "ask"
    BY <2>1, <2>2
  <2>3. CASE wish[q].kind # "ask"
    BY <2>1, <2>3
  <2> QED BY <2>2, <2>3
<1>2. ASSUME NEW x, req' = [req EXCEPT ![q].step = "resolving", ![q].ref = x] PROVE Moves(q, "resolving", req[q].decided)
  BY <1>2, RefMoves
<1> QED BY <1>1, <1>2 DEF subjectOrRestore

LEMMA KindsOfWish ==
  ASSUME ChatTypes, NEW q \in Request
  PROVE  wish[q].kind \in {"load", "ask", "confirm"} /\ wish[q].asked \in Request /\ wish[q].yes \in BOOLEAN
BY ConsoleAssumption DEF ChatTypes

\* The steps of loading a repository, whoever does it.
LEMMA LoadingWalks ==
  ASSUME ChatTypes, NEW q \in Request,
         handleSubject(q) \/ Resolve(q) \/ Replace(q) \/ Register(q) \/ RememberSubject(q)
  PROVE  Walks(q)
<1> DEFINE Later == IF wish[q].kind = "ask" THEN "thinking" ELSE "acting"
<1>1. Quietly /\ UNCHANGED <<action, run>>
  BY DEF handleSubject, Resolve, Replace, Register, RememberSubject, Quietly
<1>2. CASE handleSubject(q)
  <2>1. wish[q].kind = "load" /\ req' = [req EXCEPT ![q].step = "resolving", ![q].ref = wish[q].repo]
    BY <1>2 DEF handleSubject, At
  <2>2. Moves(q, "resolving", req[q].decided)
    BY <2>1, RefMoves
  <2> QED BY <1>1, <2>1, <2>2 DEF Walks
<1>3. ASSUME req[q].step \in {"resolving", "binding", "registering"},
             NEW s, Moves(q, s, req[q].decided),
             s \in {"binding", "registering"} \/ (wish[q].kind = "load" /\ s = "done")
               \/ (wish[q].kind # "load" /\ s = Later)
      PROVE  Walks(q)
  <2>1. CASE wish[q].kind = "load"
    BY <1>1, <1>3, <2>1 DEF Walks
  <2>2. CASE wish[q].kind = "ask"
    BY <1>1, <1>3, <2>2 DEF Walks, Early
  <2>3. CASE wish[q].kind = "confirm"
    BY <1>1, <1>3, <2>3 DEF Walks, Assent
  <2> QED BY <2>1, <2>2, <2>3, KindsOfWish
<1>4. ASSUME wish[q].kind # "load", NEW x, Ready(q, x) PROVE Moves(q, Later, req[q].decided)
  BY <1>4, ReadyMoves
<1>5. CASE Resolve(q)
  <2>1. CASE req' = [req EXCEPT ![q].step = "binding", ![q].rest = ToolKind]
    <3>1. Moves(q, "binding", req[q].decided)
      BY <2>1, RestMoves
    <3> QED BY <1>3, <1>5, <3>1 DEF Resolve
  <2>2. CASE wish[q].kind = "load" /\ Goto(q, "done")
    <3>1. Moves(q, "done", req[q].decided)
      BY <2>2, GotoMoves
    <3> QED BY <1>3, <1>5, <2>2, <3>1 DEF Resolve
  <2>3. CASE wish[q].kind # "load" /\ Ready(q, NoRepo)
    BY <1>3, <1>4, <1>5, <2>3 DEF Resolve
  <2> QED BY <1>5, <2>1, <2>2, <2>3 DEF Resolve
<1>6. CASE Replace(q)
  <2>1. Moves(q, "registering", req[q].decided)
    BY <1>6, GotoMoves DEF Replace
  <2> QED BY <1>3, <1>6, <2>1 DEF Replace
<1>7. CASE Register(q)
  <2>1. req' = [req EXCEPT ![q].rest = Tail(req[q].rest), ![q].step = "binding"]
    BY <1>7 DEF Register
  <2>2. Moves(q, "binding", req[q].decided)
    <3> DEFINE o == req[q]
               x == Tail(o.rest)
               n == [o EXCEPT !.rest = x, !.step = "binding"]
    <3>1. IsRequest(o)
      BY DEF ChatTypes
    <3>2. req' = [req EXCEPT ![q] = n]
      BY <2>1
    <3> HIDE DEF o, x
    <3>3. PICK S : o \in RequestOf(S)
      BY <3>1 DEF IsRequest
    <3>4. n \in RequestOf(S \cup {"binding", x}) /\ n.step = "binding" /\ n.decided = o.decided /\ n.faulty = o.faulty
      BY <3>3 DEF RequestOf
    <3>5. IsRequest(n)
      BY <3>4 DEF IsRequest
    <3> HIDE DEF n
    <3> QED BY <3>2, <3>4, <3>5, Going DEF o
  <2> QED BY <1>3, <1>7, <2>2 DEF Register
<1>8. CASE RememberSubject(q)
  <2>1. CASE wish[q].kind = "load" /\ Goto(q, "done")
    <3>1. Moves(q, "done", req[q].decided)
      BY <2>1, GotoMoves
    <3> QED BY <1>3, <1>8, <2>1, <3>1 DEF RememberSubject
  <2>2. CASE wish[q].kind # "load" /\ Ready(q, subject[wish[q].tenant])
    BY <1>3, <1>4, <1>8, <2>2 DEF RememberSubject
  <2> QED BY <1>8, <2>1, <2>2 DEF RememberSubject
<1> QED BY <1>2, <1>5, <1>6, <1>7, <1>8

LEMMA AskingSteps ==
  ASSUME ChatTypes, NEW q \in Request, Ask(q) \/ Converse(q) PROVE Walks(q) \/ Replies(q)
<1>1. Quietly /\ UNCHANGED run /\ wish[q].kind = "ask" /\ req[q].step \in {"new", "thinking"}
  BY DEF Ask, Converse, Quietly, At
<1>2. ASSUME NEW d, d # "", Reply(q, d), action' = action \/ (req[q].step # "new" /\ \E c, axis : Pending(q, c, axis))
      PROVE  Replies(q)
  <2>1. Moves(q, Recorded(q), d)
    BY <1>2, ReplyMoves
  <2> QED BY <1>1, <1>2, <2>1 DEF Replies, Early
<1>3. ASSUME Goto(q, "routing"), action' = action, req[q].step = "thinking" PROVE Walks(q)
  <2>1. Moves(q, "routing", req[q].decided)
    BY <1>3, GotoMoves
  <2> QED BY <1>1, <1>3, <2>1 DEF Walks, Early
<1>4. ASSUME Ask(q) PROVE Walks(q) \/ Replies(q)
  <2>1. CASE Unbounded(wish[q].sentence) \/ Redirects(wish[q].sentence)
    BY <1>2, <1>4, <2>1 DEF Ask
  <2>2. CASE ~(Unbounded(wish[q].sentence) \/ Redirects(wish[q].sentence))
    <3>0. subjectOrRestore(q)
      BY <1>4, <2>2 DEF Ask
    <3>1. Moves(q, "resolving", req[q].decided) \/ Moves(q, "thinking", req[q].decided)
      BY <1>1, <3>0, RestoreMoves
    <3>2. Allowed(q) /\ action' = action
      BY <1>4, <2>2 DEF Ask, Allowed
    <3> QED BY <1>1, <3>1, <3>2 DEF Walks, Early
  <2> QED BY <2>1, <2>2
<1>5. ASSUME Converse(q) PROVE Walks(q) \/ Replies(q)
  <2>1. req[q].step = "thinking"
    BY <1>5 DEF Converse, At
  <2>2. CASE (\E kind \in {"say", "ask"} : Reply(q, "model")) /\ action' = action
    BY <1>2, <2>2
  <2>3. CASE Goto(q, "routing") /\ action' = action
    BY <1>3, <2>1, <2>3
  <2>4. CASE \E c, axis : Pending(q, c, axis) /\ Reply(q, "model")
    BY <1>2, <2>1, <2>4
  <2>5. CASE Reply(q, "model") /\ action' = action
    BY <1>2, <2>5
  <2> QED BY <1>5, <2>2, <2>3, <2>4, <2>5 DEF Converse
<1> QED BY <1>4, <1>5

LEMMA ServingSteps ==
  ASSUME ChatTypes, NEW q \in Request, Fallback(q) \/ ConfirmAct(q) PROVE Walks(q) \/ Replies(q) \/ Serving(q)
<1>1. Quietly /\ UNCHANGED action
  BY DEF Fallback, ConfirmAct, Quietly
<1>2. ASSUME Goto(q, "done") PROVE Moves(q, "done", req[q].decided)
  BY <1>2, GotoMoves
<1>3. ASSUME Reply(q, "fallback") PROVE Moves(q, Recorded(q), "fallback")
  BY <1>3, ReplyMoves
<1>4. ASSUME Fallback(q) PROVE Replies(q) \/ Serving(q)
  <2> DEFINE out == Route(wish[q].sentence)
  <2>1. wish[q].kind = "ask" /\ req[q].step = "routing"
    BY <1>4 DEF Fallback, At
  <2>2. CASE Reply(q, "fallback") /\ run' = run
    <3>1. Moves(q, Recorded(q), "fallback")
      BY <1>3, <2>2
    <3> QED BY <1>1, <2>1, <2>2, <3>1 DEF Replies, Early
  <2>3. CASE Serves(q, out.intent, out.axis, Unasked, Reply(q, "fallback"))
    <3>1. /\ Reply(q, "fallback") \/ Goto(q, "done")
          /\ run' = run \/ \E kind : Began(q, kind, Unasked)
      BY <2>3 DEF Serves, startGoal, handleEffect
    <3> QED BY <1>1, <1>2, <1>3, <2>1, <3>1 DEF Serving
  <2> QED BY <1>4, <2>2, <2>3 DEF Fallback
<1>5. ASSUME ConfirmAct(q) PROVE Walks(q) \/ Serving(q)
  <2>1. wish[q].kind = "confirm" /\ req[q].step = "acting"
    BY <1>5 DEF ConfirmAct, At
  <2>2. CASE Goto(q, "done") /\ run' = run
    BY <1>1, <1>2, <2>1, <2>2 DEF Serving
  <2>3. CASE Serves(q, action[wish[q].asked].capability, action[wish[q].asked].axis, wish[q].asked, Goto(q, "done"))
    <3>1. /\ Goto(q, "done")
          /\ run' = run \/ \E kind : Began(q, kind, wish[q].asked)
      BY <2>3 DEF Serves, startGoal, handleEffect
    <3> QED BY <1>1, <1>2, <2>1, <3>1 DEF Serving
  <2> QED BY <1>5, <2>2, <2>3 DEF ConfirmAct
<1> QED BY <1>4, <1>5

LEMMA ConfirmingSteps ==
  ASSUME ChatTypes, NEW q \in Request, Confirm(q) \/ ConfirmSubject(q) PROVE Walks(q) \/ Answering(q)
<1>1. wish[q].kind = "confirm" /\ UNCHANGED <<wish, run, memoryVars>>
  BY DEF Confirm, ConfirmSubject, At
<1>2. ASSUME ConfirmSubject(q) PROVE Walks(q)
  <2>0. subjectOrRestore(q)
    BY <1>2 DEF ConfirmSubject
  <2>1. Moves(q, "resolving", req[q].decided) \/ Moves(q, "acting", req[q].decided)
    BY <1>1, <2>0, RestoreMoves
  <2>2. Quietly /\ UNCHANGED action /\ req[q].step = "agreed"
    BY <1>2 DEF ConfirmSubject, Quietly, At
  <2> QED BY <1>1, <2>1, <2>2 DEF Walks, Assent
<1>3. ASSUME Confirm(q) PROVE Answering(q)
  <2> DEFINE a == wish[q].asked
             s == IF wish[q].yes THEN "agreed" ELSE "done"
  <2>1. req[q].step = "new"
    BY <1>3 DEF Confirm, At
  <2>2. CASE Take(a)
    <3>1. Goto(q, s)
      BY <1>3, <2>2 DEF Confirm
    <3>2. Moves(q, s, req[q].decided)
      <4> HIDE DEF s
      <4> QED BY <3>1, GotoMoves
    <3> QED BY <1>1, <1>3, <2>1, <2>2, <3>2 DEF Confirm, Take, Answering
  <2>3. CASE ~Take(a)
    <3>1. Goto(q, "done") /\ UNCHANGED <<action, said>>
      BY <1>3, <2>3 DEF Confirm
    <3>2. Moves(q, "done", req[q].decided)
      BY <3>1, GotoMoves
    <3> QED BY <1>1, <2>1, <3>1, <3>2 DEF Answering
  <2> QED BY <2>2, <2>3
<1> QED BY <1>2, <1>3

\* Nothing but the three variables of the transcripts is behind its invariant.
LEMMA MemoryStill ==
  ASSUME MemoryInv, UNCHANGED memoryVars PROVE MemoryInv' /\ \A q, c, r : HasTurn(q, c, r)' <=> HasTurn(q, c, r)
<1>1. \A c : Size(c)' = Size(c)
  BY DEF memoryVars, Size
<1>2. \A q, c, r : HasTurn(q, c, r)' <=> HasTurn(q, c, r)
  BY DEF memoryVars, HasTurn
<1>3. MemoryTypes' /\ NumberedInTurn'
  BY <1>1 DEF MemoryInv, MemoryTypes, NumberedInTurn, memoryVars
<1>4. AnswersFollow' /\ WrittenIsThere'
  BY <1>2 DEF MemoryInv, AnswersFollow, WrittenIsThere, memoryVars
<1>5. OneWriterAtATime'
  BY <1>1 DEF MemoryInv, OneWriterAtATime, memoryVars
<1> QED BY <1>2, <1>3, <1>4, <1>5 DEF MemoryInv

\* What becomes of one pending action, and of one run.
ActionBecomes(q, s) ==
  /\ DOMAIN action' = Request /\ IsAction(action'[q]) /\ action'[q].step = s
  /\ \A p \in Request \ {q} : action'[p] = action[p]

RunBecomes(q, k, cause) ==
  /\ DOMAIN run' = Request /\ IsRun(run'[q]) /\ run'[q].kind = k /\ run'[q].by = cause
  /\ \A p \in Request \ {q} : run'[p] = run[p]

LEMMA PendingBecomes ==
  ASSUME ChatTypes, NEW q \in Request, NEW c, NEW axis, Pending(q, c, axis) PROVE ActionBecomes(q, "waiting")
<1> DEFINE n == [step |-> "waiting", capability |-> c, axis |-> axis]
           S == {"waiting", c, axis}
<1>1. action' = [action EXCEPT ![q] = n]
  BY DEF Pending
<1>2. n \in [step : S, capability : S, axis : S] /\ n.step = "waiting"
  OBVIOUS
<1>3. IsAction(n)
  BY <1>2 DEF IsAction
<1> HIDE DEF n
<1> QED BY <1>1, <1>2, <1>3 DEF ChatTypes, ActionBecomes

LEMMA DecidedBecomes ==
  ASSUME ChatTypes, NEW a \in Request, action' = [action EXCEPT ![a].step = "decided"]
  PROVE  ActionBecomes(a, "decided")
<1> DEFINE o == action[a]
           n == [o EXCEPT !.step = "decided"]
<1>1. IsAction(o) /\ action' = [action EXCEPT ![a] = n]
  BY DEF ChatTypes
<1> HIDE DEF o
<1>2. PICK S : o \in [step : S, capability : S, axis : S]
  BY <1>1 DEF IsAction
<1> DEFINE T == S \cup {"decided"}
<1>3. n \in [step : T, capability : T, axis : T] /\ n.step = "decided"
  BY <1>2
<1>4. IsAction(n)
  BY <1>3 DEF IsAction
<1> HIDE DEF n
<1> QED BY <1>1, <1>3, <1>4 DEF ChatTypes, ActionBecomes

LEMMA BeganBecomes ==
  ASSUME ChatTypes, NEW q \in Request, NEW k, NEW cause, Began(q, k, cause) PROVE RunBecomes(q, k, cause)
<1> DEFINE x == req[q].sub
           n == [kind |-> k, repo |-> x, by |-> cause, acted |-> NoRepo]
           S == {k, x, cause, NoRepo}
<1>1. run' = [run EXCEPT ![q] = n]
  BY DEF Began
<1> HIDE DEF x
<1>2. n \in [kind : S, repo : S, by : S, acted : S] /\ n.kind = k /\ n.by = cause
  OBVIOUS
<1>3. IsRun(n)
  BY <1>2 DEF IsRun
<1> HIDE DEF n
<1> QED BY <1>1, <1>2, <1>3 DEF ChatTypes, RunBecomes

LEMMA ActedBecomes ==
  ASSUME ChatTypes, NEW q \in Request, NEW x, run' = [run EXCEPT ![q].acted = x]
  PROVE  RunBecomes(q, run[q].kind, run[q].by)
<1> DEFINE o == run[q]
           n == [o EXCEPT !.acted = x]
<1>1. IsRun(o) /\ run' = [run EXCEPT ![q] = n]
  BY DEF ChatTypes
<1> HIDE DEF o
<1>2. PICK S : o \in [kind : S, repo : S, by : S, acted : S]
  BY <1>1 DEF IsRun
<1> DEFINE T == S \cup {x}
<1>3. n \in [kind : T, repo : T, by : T, acted : T] /\ n.kind = o.kind /\ n.by = o.by
  BY <1>2
<1>4. IsRun(n)
  BY <1>3 DEF IsRun
<1> HIDE DEF n
<1> QED BY <1>1, <1>3, <1>4 DEF ChatTypes, RunBecomes, o

\* The types of the rest stay whatever moves.
LEMMA TypesKept ==
  ASSUME ChatTypes, wish' = wish, NEW q \in Request, NEW s, NEW d, Moves(q, s, d) \/ req' = req,
         action' = action \/ \E a \in Request : \E x : ActionBecomes(a, x),
         run' = run \/ \E k, by : RunBecomes(q, k, by),
         DOMAIN said' = Request
  PROVE  ChatTypes'
<1>1. DOMAIN req' = Request /\ \A p \in Request : IsRequest(req'[p])
  BY DEF ChatTypes, Moves
<1>2. DOMAIN action' = Request /\ \A p \in Request : IsAction(action'[p])
  BY DEF ChatTypes, ActionBecomes
<1>3. DOMAIN run' = Request /\ \A p \in Request : IsRun(run'[p])
  BY DEF ChatTypes, RunBecomes
<1>4. wish' \in Wishes
  BY DEF ChatTypes
<1> QED BY <1>1, <1>2, <1>3, <1>4 DEF ChatTypes, IsRequest, RequestOf, IsAction, IsRun

LEMMA AllowedStill == ASSUME wish' = wish PROVE \A q : Allowed(q)' = Allowed(q)
BY DEF Allowed


LEMMA WalksConsent == ASSUME ConsentInv, NEW q \in Request, Walks(q) PROVE ConsentInv'
<1>1. PICK s : /\ Moves(q, s, req[q].decided)
               /\ \/ wish[q].kind = "load" /\ s # "recording"
                  \/ /\ wish[q].kind = "ask" /\ req[q].step \in Early \cup {"new"} /\ s \in Early
                     /\ req[q].step = "new" => Allowed(q)
                  \/ wish[q].kind = "confirm" /\ req[q].step \in Assent /\ s \in Assent \cup {"done"}
  BY DEF Walks
<1>2. wish' = wish /\ said' = said /\ action' = action /\ run' = run
  BY DEF Walks, Quietly
<1>3. ChatTypes'
  BY <1>1, <1>2, TypesKept DEF ConsentInv, ChatTypes
<1>4. \A p, a \in Request : Holds(p, a)' => Holds(p, a)
  BY <1>1, <1>2 DEF Holds, Moves
<1>5. AnsweredOnce'
  BY <1>2, <1>4 DEF ConsentInv, AnsweredOnce
<1>6. OnlyAllowed'
  <2>1. \A p \in Request : wish[p].kind = "ask" /\ req'[p].step \in Early \cup {"new"} =>
          req[p].step \in Early \cup {"new"} /\ (req'[p].step # "new" => Allowed(p))
    BY <1>1 DEF Moves, ConsentInv, OnlyAllowed, Early
  <2> QED BY <1>2, <2>1, AllowedStill DEF ConsentInv, OnlyAllowed
<1> QED BY <1>3, <1>5, <1>6 DEF ConsentInv

LEMMA RepliesConsent == ASSUME ConsentInv, NEW q \in Request, Replies(q) PROVE ConsentInv'
<1>1. PICK d : Moves(q, Recorded(q), d)
  BY DEF Replies
<1>2. wish' = wish /\ said' = said /\ run' = run /\ wish[q].kind = "ask" /\ req[q].step \in Early \cup {"new"}
  BY DEF Replies, Quietly
<1>3. action' = action \/ (req[q].step # "new" /\ ActionBecomes(q, "waiting"))
  BY PendingBecomes DEF Replies, ConsentInv
<1>4. ChatTypes'
  BY <1>1, <1>2, <1>3, TypesKept DEF ConsentInv, ChatTypes
<1>5. action[q].step = "none" /\ run[q].kind = "none" /\ (req[q].step # "new" => Allowed(q))
  BY <1>2 DEF ConsentInv, OnlyAllowed
<1>6. \A p, a \in Request : Holds(p, a)' => Holds(p, a)
  BY <1>1, <1>2 DEF Holds, Moves
<1>7. AnsweredOnce'
  <2>1. \A a \in Request : action'[a].step \in {"none", "waiting"} => action[a].step \in {"none", "waiting"}
    BY <1>3, <1>5 DEF ActionBecomes
  <2>2. \A p, a \in Request : Holds(p, a)' => action'[a] = action[a]
    BY <1>3, <1>5, <1>6 DEF ActionBecomes, ConsentInv, AnsweredOnce
  <2> QED BY <1>2, <1>6, <2>1, <2>2 DEF ConsentInv, AnsweredOnce
<1>8. OnlyAllowed'
  <2>1. \A a \in Request : action'[a].step # "none" => wish[a].kind = "ask" /\ Allowed(a)
    BY <1>2, <1>3, <1>5 DEF ActionBecomes, ConsentInv, OnlyAllowed
  <2>2. \A p \in Request : wish[p].kind = "ask" /\ req'[p].step \in Early \cup {"new"} =>
          p # q /\ req'[p] = req[p] /\ action'[p] = action[p]
    BY <1>1, <1>3 DEF Moves, ActionBecomes, Early, Recorded
  <2>3. \A p \in Request : run[p].kind # "none" => action'[p] = action[p]
    BY <1>3, <1>5 DEF ActionBecomes
  <2> QED BY <1>2, <2>1, <2>2, <2>3, AllowedStill DEF ConsentInv, OnlyAllowed
<1> QED BY <1>4, <1>7, <1>8 DEF ConsentInv

LEMMA ServingConsent == ASSUME ConsentInv, NEW q \in Request, Serving(q) PROVE ConsentInv'
<1>1. wish' = wish /\ said' = said /\ action' = action
  BY DEF Serving, Quietly
<1>2. /\ \E s, d : Moves(q, s, d) /\ s \in {"recording", "done"}
      /\ run' = run \/ \E k, cause : RunBecomes(q, k, cause) /\ cause = IF wish[q].kind = "ask" THEN Unasked ELSE wish[q].asked
      /\ \/ wish[q].kind = "ask" /\ req[q].step = "routing"
         \/ wish[q].kind = "confirm" /\ req[q].step = "acting"
  <2>1. CASE /\ wish[q].kind = "ask" /\ req[q].step = "routing"
             /\ Moves(q, Recorded(q), "fallback") \/ Moves(q, "done", req[q].decided)
             /\ run' = run \/ \E kind : Began(q, kind, Unasked)
    <3>1. run' = run \/ \E k : RunBecomes(q, k, Unasked)
      BY <2>1, BeganBecomes DEF ConsentInv
    <3>2. Moves(q, "recording", "fallback") \/ Moves(q, "done", "fallback") \/ Moves(q, "done", req[q].decided)
      <4>1. CASE Moves(q, Recorded(q), "fallback")
        BY <4>1, RecordedIs
      <4>2. CASE Moves(q, "done", req[q].decided)
        BY <4>2
      <4> QED BY <2>1, <4>1, <4>2
    <3>3. \E r, d : Moves(q, r, d) /\ r \in {"recording", "done"}
      BY <3>2
    <3> QED BY <2>1, <3>1, <3>3
  <2>2. CASE /\ wish[q].kind = "confirm" /\ req[q].step = "acting" /\ Moves(q, "done", req[q].decided)
             /\ run' = run \/ \E kind : Began(q, kind, wish[q].asked)
    <3>1. run' = run \/ \E k : RunBecomes(q, k, wish[q].asked)
      BY <2>2, BeganBecomes DEF ConsentInv
    <3> QED BY <2>2, <3>1
  <2> QED BY <2>1, <2>2 DEF Serving
<1>3. ChatTypes'
  BY <1>1, <1>2, TypesKept DEF ConsentInv, ChatTypes
<1>4. wish[q].kind = "ask" => action[q].step = "none" /\ run[q].kind = "none" /\ Allowed(q)
  BY <1>2 DEF ConsentInv, OnlyAllowed, Early
<1>5. \A p \in Request \ {q} : run'[p] = run[p] /\ req'[p] = req[p]
  BY <1>2 DEF RunBecomes, Moves
<1>6. \A p, a \in Request : Holds(p, a)' => Holds(p, a)
  <2>1. wish[q].kind = "confirm" => req[q].step \in Assent
    BY <1>2 DEF Assent
  <2> QED BY <1>1, <1>5, <2>1 DEF Holds
<1>7. AnsweredOnce'
  BY <1>1, <1>6 DEF ConsentInv, AnsweredOnce
<1>8. OnlyAllowed'
  <2>1. req'[q].step \notin Early \cup {"new"}
    BY <1>2 DEF Moves, Early
  <2>2. run'[q] = run[q] \/ run'[q].by = IF wish[q].kind = "ask" THEN Unasked ELSE wish[q].asked
    BY <1>2 DEF RunBecomes
  <2>3. run'[q].kind # "none" =>
          \/ wish[q].kind = "ask" /\ run'[q].by = Unasked /\ action[q].step = "none" /\ Allowed(q)
          \/ wish[q].kind = "confirm" /\ run'[q].by = wish[q].asked
    <3>1. CASE run'[q] = run[q]
      BY <3>1 DEF ConsentInv, OnlyAllowed
    <3>2. CASE wish[q].kind = "ask" /\ run'[q].by = Unasked
      BY <1>4, <3>2
    <3>3. CASE wish[q].kind = "confirm" /\ run'[q].by = wish[q].asked
      BY <3>3
    <3> QED BY <1>2, <2>2, <3>1, <3>2, <3>3
  <2> QED BY <1>1, <1>5, <2>1, <2>3, AllowedStill DEF ConsentInv, OnlyAllowed
<1> QED BY <1>3, <1>7, <1>8 DEF ConsentInv

LEMMA AnsweringConsent == ASSUME ConsentInv, NEW q \in Request, Answering(q) PROVE ConsentInv'
<1> DEFINE a == wish[q].asked
<1>1. wish' = wish /\ run' = run /\ wish[q].kind = "confirm" /\ req[q].step = "new" /\ a \in Request /\ wish[q].yes \in BOOLEAN
  BY KindsOfWish DEF Answering, ConsentInv
<1>2. CASE Moves(q, "done", req[q].decided) /\ UNCHANGED <<action, said>>
  <2>1. ChatTypes'
    BY <1>1, <1>2, TypesKept DEF ConsentInv, ChatTypes
  <2>2. \A p, b \in Request : Holds(p, b)' => Holds(p, b)
    BY <1>1, <1>2 DEF Holds, Moves, Assent
  <2>3. AnsweredOnce'
    BY <1>2, <2>2 DEF ConsentInv, AnsweredOnce
  <2>4. OnlyAllowed'
    BY <1>1, <1>2, AllowedStill DEF ConsentInv, OnlyAllowed, Moves
  <2> QED BY <2>1, <2>3, <2>4 DEF ConsentInv
<1>3. CASE /\ action[a].step = "waiting"
           /\ action' = [action EXCEPT ![a].step = "decided"]
           /\ said' = [said EXCEPT ![a] = Append(@, wish[q].yes)]
           /\ Moves(q, IF wish[q].yes THEN "agreed" ELSE "done", req[q].decided)
  <2>1. /\ ActionBecomes(a, "decided") /\ wish[a].kind = "ask" /\ Allowed(a) /\ a # q
        /\ said[a] = << >>
    BY <1>1, <1>3, DecidedBecomes DEF ConsentInv, AnsweredOnce, OnlyAllowed
  <2>2. DOMAIN said' = Request /\ said'[a] = <<wish[q].yes>> /\ \A b \in Request \ {a} : said'[b] = said[b]
    BY <1>1, <1>3, <2>1 DEF ConsentInv, ChatTypes
  <2>3. ChatTypes'
    BY <1>1, <1>3, <2>1, <2>2, TypesKept DEF ConsentInv
  <2>4. \A p \in Request : ~Holds(p, a)
    BY <1>1, <1>3 DEF ConsentInv, AnsweredOnce
  <2>5. \A p, b \in Request : Holds(p, b)' => Holds(p, b) \/ (p = q /\ b = a /\ wish[q].yes)
    <3>1. wish[q].yes \/ req'[q].step = "done"
      BY <1>3 DEF Moves
    <3>2. \A p \in Request \ {q} : req'[p] = req[p]
      BY <1>3 DEF Moves
    <3> QED BY <1>1, <3>1, <3>2 DEF Holds, Assent
  <2>6. AnsweredOnce'
    <3>1. \A b \in Request : action'[b].step \in {"none", "waiting"} => said'[b] = << >>
      BY <2>1, <2>2 DEF ActionBecomes, ConsentInv, AnsweredOnce
    <3>2. ASSUME NEW p \in Request, NEW b \in Request, Holds(p, b)'
          PROVE  action'[b].step \notin {"none", "waiting"} /\ said'[b] # << >> /\ said'[b][1]
      <4>1. CASE b = a
        <5>1. wish[q].yes
          BY <2>4, <2>5, <3>2, <4>1
        <5>2. said'[b] # << >> /\ said'[b][1] = wish[q].yes
          BY <2>2, <4>1
        <5>3. action'[b].step = "decided"
          BY <2>1, <4>1 DEF ActionBecomes
        <5> QED BY <5>1, <5>2, <5>3
      <4>2. CASE b # a
        <5>1. Holds(p, b) /\ action'[b] = action[b] /\ said'[b] = said[b]
          BY <2>1, <2>2, <2>5, <3>2, <4>2 DEF ActionBecomes
        <5> QED BY <5>1 DEF ConsentInv, AnsweredOnce
      <4> QED BY <4>1, <4>2
    <3>3. \A p, r, b \in Request : Holds(p, b)' /\ Holds(r, b)' => p = r
      BY <2>4, <2>5 DEF ConsentInv, AnsweredOnce
    <3> QED BY <3>1, <3>2, <3>3 DEF AnsweredOnce
  <2>7. OnlyAllowed'
    <3>1. \A b \in Request : action'[b].step # "none" => wish[b].kind = "ask" /\ Allowed(b)
      BY <2>1 DEF ActionBecomes, ConsentInv, OnlyAllowed
    <3>2. \A p \in Request : p # a => action'[p] = action[p]
      BY <2>1 DEF ActionBecomes
    <3>3. \A p \in Request : wish[p].kind = "ask" => req'[p] = req[p]
      BY <1>1, <1>3 DEF Moves
    <3>4. \A p \in Request : action[p].step = "none" => action'[p] = action[p]
      BY <1>3, <3>2
    <3> QED BY <1>1, <3>1, <3>3, <3>4, AllowedStill DEF ConsentInv, OnlyAllowed
  <2> QED BY <2>3, <2>6, <2>7 DEF ConsentInv
<1> QED BY <1>2, <1>3 DEF Answering


\* What leaves actions, runs and answers alone, and lets a request that records be done or lost.
LEMMA RecordingConsent ==
  ASSUME ConsentInv, UNCHANGED <<wish, action, said, run>>, DOMAIN req' = Request,
         \A p \in Request : IsRequest(req'[p]),
         \A p \in Request : req'[p].step = req[p].step \/ req'[p].step = "done"
  PROVE  ConsentInv'
<1>1. ChatTypes'
  BY DEF ConsentInv, ChatTypes, IsRequest, RequestOf, IsAction, IsRun
<1>2. \A p, a \in Request : Holds(p, a)' => Holds(p, a)
  BY DEF Holds, Assent
<1>3. AnsweredOnce'
  BY <1>2 DEF ConsentInv, AnsweredOnce
<1>4. OnlyAllowed'
  <2>1. \A p \in Request : req'[p].step \in Early \cup {"new"} => req'[p].step = req[p].step
    BY DEF Early
  <2> QED BY <2>1, AllowedStill DEF ConsentInv, OnlyAllowed
<1> QED BY <1>1, <1>3, <1>4 DEF ConsentInv

LEMMA ActingConsent == ASSUME ConsentInv, NEW q \in Request, RunActs(q) PROVE ConsentInv'
<1>1. UNCHANGED <<wish, req, action, said>> /\ run[q].kind = "goal"
  BY DEF RunActs
<1>2. RunBecomes(q, run[q].kind, run[q].by)
  BY ActedBecomes DEF RunActs, ConsentInv
<1>3. ChatTypes'
  BY <1>1, <1>2, TypesKept DEF ConsentInv, ChatTypes
<1>4. \A p \in Request : run'[p].kind = run[p].kind /\ run'[p].by = run[p].by
  BY <1>2 DEF RunBecomes
<1>5. \A p, a \in Request : Holds(p, a)' => Holds(p, a)
  BY <1>1, <1>4 DEF Holds
<1>6. AnsweredOnce'
  BY <1>1, <1>5 DEF ConsentInv, AnsweredOnce
<1>7. OnlyAllowed'
  BY <1>1, <1>4, AllowedStill DEF ConsentInv, OnlyAllowed
<1> QED BY <1>3, <1>6, <1>7 DEF ConsentInv

LEMMA LostRequest ==
  ASSUME NEW r, IsRequest(r)
  PROVE  LET n == [r EXCEPT !.step = "lost"] IN
         IsRequest(n) /\ n.step = "lost" /\ n.decided = r.decided /\ n.faulty = r.faulty
<1> DEFINE n == [r EXCEPT !.step = "lost"]
<1>1. PICK S : r \in RequestOf(S)
  BY DEF IsRequest
<1>2. n \in RequestOf(S \cup {"lost"}) /\ n.step = "lost" /\ n.decided = r.decided /\ n.faulty = r.faulty
  BY <1>1 DEF RequestOf
<1> QED BY <1>2 DEF IsRequest

LEMMA LostAction ==
  ASSUME NEW r, IsAction(r)
  PROVE  LET n == [r EXCEPT !.step = "lost"] IN IsAction(n) /\ n.step = "lost"
<1> DEFINE n == [r EXCEPT !.step = "lost"]
<1>1. PICK S : r \in [step : S, capability : S, axis : S]
  BY DEF IsAction
<1> DEFINE T == S \cup {"lost"}
<1>2. n \in [step : T, capability : T, axis : T] /\ n.step = "lost"
  BY <1>1
<1> QED BY <1>2 DEF IsAction

\* What a start again does to requests and actions.
Dropped ==
  /\ DOMAIN req' = Request /\ DOMAIN action' = Request
  /\ \A q \in Request :
       /\ IsRequest(req'[q]) /\ req'[q].decided = req[q].decided /\ req'[q].faulty = req[q].faulty
       /\ req'[q].step = IF req[q].step \in {"new", "done"} THEN req[q].step ELSE "lost"
       /\ IsAction(action'[q])
       /\ action'[q].step = IF action[q].step = "none" THEN "none" ELSE "lost"

LEMMA RestartDrops == ASSUME ChatTypes, Restart PROVE Dropped /\ UNCHANGED <<wish, said, run>> /\ LoseWriters
<1>1. ASSUME NEW q \in Request
      PROVE  /\ IsRequest(req'[q]) /\ req'[q].decided = req[q].decided /\ req'[q].faulty = req[q].faulty
             /\ req'[q].step = IF req[q].step \in {"new", "done"} THEN req[q].step ELSE "lost"
  <2>1. IsRequest(req[q]) /\ req'[q] = IF req[q].step \in {"new", "done"} THEN req[q] ELSE [req[q] EXCEPT !.step = "lost"]
    BY DEF Restart, ChatTypes
  <2>2. CASE req[q].step \in {"new", "done"}
    BY <2>1, <2>2 DEF IsRequest, RequestOf
  <2>3. CASE req[q].step \notin {"new", "done"}
    <3>1. req'[q] = [req[q] EXCEPT !.step = "lost"]
      BY <2>1, <2>3
    <3> DEFINE n == [req[q] EXCEPT !.step = "lost"]
    <3>2. IsRequest(n) /\ n.step = "lost" /\ n.decided = req[q].decided /\ n.faulty = req[q].faulty
      BY <2>1, LostRequest
    <3> HIDE DEF n
    <3>3. req'[q] = n
      BY <3>1 DEF n
    <3> QED BY <2>3, <3>2, <3>3
  <2> QED BY <2>2, <2>3
<1>2. ASSUME NEW q \in Request
      PROVE  IsAction(action'[q]) /\ action'[q].step = IF action[q].step = "none" THEN "none" ELSE "lost"
  <2>1. IsAction(action[q]) /\ action'[q] = IF action[q].step = "none" THEN action[q] ELSE [action[q] EXCEPT !.step = "lost"]
    BY DEF Restart, ChatTypes
  <2>2. CASE action[q].step = "none"
    BY <2>1, <2>2 DEF IsAction
  <2>3. CASE action[q].step # "none"
    <3> DEFINE n == [action[q] EXCEPT !.step = "lost"]
    <3>1. IsAction(n) /\ n.step = "lost"
      BY <2>1, LostAction
    <3>2. action'[q] = n
      BY <2>1, <2>3
    <3> HIDE DEF n
    <3> QED BY <2>3, <3>1, <3>2
  <2> QED BY <2>2, <2>3
<1>3. DOMAIN req' = Request /\ DOMAIN action' = Request /\ UNCHANGED <<wish, said, run>> /\ LoseWriters
  BY DEF Restart
<1> QED BY <1>1, <1>2, <1>3 DEF Dropped

LEMMA RestartConsent == ASSUME ConsentInv, Dropped, UNCHANGED <<wish, said, run>> PROVE ConsentInv'
<1>1. ChatTypes'
  BY DEF Dropped, ConsentInv, ChatTypes, IsRequest, RequestOf, IsAction, IsRun
<1>2. \A p, a \in Request : Holds(p, a)' => Holds(p, a)
  BY DEF Dropped, Holds, Assent
<1>3. AnsweredOnce'
  BY <1>2 DEF Dropped, ConsentInv, AnsweredOnce
<1>4. OnlyAllowed'
  <2>1. \A p \in Request : req'[p].step \in Early \cup {"new"} => req'[p].step = req[p].step
    BY DEF Dropped, Early
  <2>2. \A p \in Request : action'[p].step = "none" <=> action[p].step = "none"
    BY DEF Dropped
  <2> QED BY <2>1, <2>2, AllowedStill DEF ConsentInv, OnlyAllowed
<1> QED BY <1>1, <1>3, <1>4 DEF ConsentInv


-----------------------------------------------------------------------------
\* Request q goes only as far as its answer is.
GoesOn(q) ==
  /\ req'[q].step = "recording" => wish[q].kind = "ask" /\ wish[q].conv \in Conversation
  /\ draft[q].step # "idle" => req'[q].step \in {"recording", "done"}
  /\ req[q].faulty => req'[q].faulty
  /\ wish[q].kind = "ask" /\ req'[q].step \in Early \cup {"new"} => req'[q].decided = ""
  /\ wish[q].kind = "ask" /\ req'[q].step = "done" /\ ~req'[q].faulty /\ req'[q].decided # ""
       /\ wish[q].conv \in Conversation => HasTurn(q, wish[q].conv, "agent")

LEMMA UnmovedGoOn == ASSUME RecordInv, NEW q \in Request, req'[q] = req[q] PROVE GoesOn(q)
BY DEF RecordInv, GoesOn, At

\* A step that writes nothing of the transcripts keeps their record.
LEMMA UnwrittenRecord ==
  ASSUME MemoryInv, RecordInv, UNCHANGED <<wish, memoryVars>>, \A q \in Request : GoesOn(q)
  PROVE  MemoryInv' /\ RecordInv'
<1>1. MemoryInv' /\ (\A q, c, r : HasTurn(q, c, r)' <=> HasTurn(q, c, r)) /\ draft' = draft
  BY MemoryStill DEF memoryVars
<1> QED BY <1>1 DEF RecordInv, GoesOn, At

LEMMA MovesRecord ==
  ASSUME MemoryInv, RecordInv, UNCHANGED <<wish, memoryVars>>, NEW q \in Request, NEW s, NEW d, Moves(q, s, d), GoesOn(q)
  PROVE  MemoryInv' /\ RecordInv'
<1>1. ASSUME NEW p \in Request PROVE GoesOn(p)
  <2>1. CASE p = q
    BY <2>1
  <2>2. CASE p # q
    BY <2>2, UnmovedGoOn DEF Moves
  <2> QED BY <2>1, <2>2
<1> QED BY <1>1, UnwrittenRecord

LEMMA WalksRecord == ASSUME MemoryInv, RecordInv, NEW q \in Request, Walks(q) PROVE MemoryInv' /\ RecordInv'
<1>1. PICK s : /\ Moves(q, s, req[q].decided)
               /\ \/ wish[q].kind = "load" /\ s # "recording"
                  \/ /\ wish[q].kind = "ask" /\ req[q].step \in Early \cup {"new"} /\ s \in Early
                     /\ req[q].step = "new" => Allowed(q)
                  \/ wish[q].kind = "confirm" /\ req[q].step \in Assent /\ s \in Assent \cup {"done"}
  BY DEF Walks
<1>2. UNCHANGED <<wish, memoryVars>>
  BY DEF Walks, Quietly
<1>3. s # "recording" /\ (wish[q].kind = "ask" => req[q].step \in Early \cup {"new"} /\ s \in Early)
  BY <1>1 DEF Early, Assent
<1>4. draft[q].step = "idle"
  BY <1>1, <1>3 DEF RecordInv, Early
<1>5. wish[q].kind = "ask" => req[q].decided = "" /\ s # "done"
  BY <1>3 DEF RecordInv, Early
<1>6. GoesOn(q)
  BY <1>1, <1>3, <1>4, <1>5 DEF GoesOn, Moves
<1> QED BY <1>1, <1>2, <1>6, MovesRecord

LEMMA RepliesRecord == ASSUME MemoryInv, RecordInv, NEW q \in Request, Replies(q) PROVE MemoryInv' /\ RecordInv'
<1>1. PICK d : Moves(q, Recorded(q), d)
  BY DEF Replies
<1>2. UNCHANGED <<wish, memoryVars>> /\ wish[q].kind = "ask" /\ req[q].step \in Early \cup {"new"}
  BY DEF Replies, Quietly
<1>3. draft[q].step = "idle"
  BY <1>2 DEF RecordInv, Early
<1>4. PICK s : s = Recorded(q)
  OBVIOUS
<1>5. (s = "recording" /\ wish[q].conv \in Conversation) \/ (s = "done" /\ wish[q].conv \notin Conversation)
  BY <1>4, RecordedIs
<1>6. Moves(q, s, d)
  BY <1>1, <1>4
<1>7. GoesOn(q)
  BY <1>2, <1>3, <1>5, <1>6 DEF GoesOn, Moves, Early
<1> QED BY <1>2, <1>6, <1>7, MovesRecord

LEMMA ServingRecord == ASSUME MemoryInv, RecordInv, NEW q \in Request, Serving(q) PROVE MemoryInv' /\ RecordInv'
<1>1. UNCHANGED <<wish, memoryVars>>
  BY DEF Serving, Quietly
<1>2. CASE wish[q].kind = "ask" /\ req[q].step = "routing"
  <2>1. draft[q].step = "idle" /\ req[q].decided = ""
    BY <1>2 DEF RecordInv, Early
  <2>2. CASE Moves(q, Recorded(q), "fallback")
    <3>1. PICK s : s = Recorded(q)
      OBVIOUS
    <3>2. (s = "recording" /\ wish[q].conv \in Conversation) \/ (s = "done" /\ wish[q].conv \notin Conversation)
      BY <3>1, RecordedIs
    <3>3. Moves(q, s, "fallback")
      BY <2>2, <3>1
    <3>4. GoesOn(q)
      BY <1>2, <2>1, <3>2, <3>3 DEF GoesOn, Moves, Early
    <3> QED BY <1>1, <3>3, <3>4, MovesRecord
  <2>3. CASE Moves(q, "done", req[q].decided)
    <3>1. GoesOn(q)
      BY <1>2, <2>1, <2>3 DEF GoesOn, Moves, Early
    <3> QED BY <1>1, <2>3, <3>1, MovesRecord
  <2> QED BY <1>2, <2>2, <2>3 DEF Serving
<1>3. CASE wish[q].kind = "confirm" /\ Moves(q, "done", req[q].decided)
  <2>1. GoesOn(q)
    BY <1>3 DEF GoesOn, Moves, RecordInv
  <2> QED BY <1>1, <1>3, <2>1, MovesRecord
<1> QED BY <1>2, <1>3 DEF Serving

LEMMA AnsweringRecord == ASSUME MemoryInv, RecordInv, NEW q \in Request, Answering(q) PROVE MemoryInv' /\ RecordInv'
<1>1. UNCHANGED <<wish, memoryVars>> /\ wish[q].kind = "confirm"
  BY DEF Answering
<1>2. PICK s : Moves(q, s, req[q].decided) /\ s \in {"agreed", "done"}
  <2>1. CASE Moves(q, "done", req[q].decided)
    BY <2>1
  <2>2. CASE Moves(q, IF wish[q].yes THEN "agreed" ELSE "done", req[q].decided)
    <3>1. CASE wish[q].yes
      BY <2>2, <3>1
    <3>2. CASE ~wish[q].yes
      BY <2>2, <3>2
    <3> QED BY <3>1, <3>2
  <2> QED BY <2>1, <2>2 DEF Answering
<1>3. GoesOn(q)
  BY <1>1, <1>2 DEF GoesOn, Moves, RecordInv
<1> QED BY <1>1, <1>2, <1>3, MovesRecord

LEMMA ActingRecord == ASSUME MemoryInv, RecordInv, NEW q \in Request, RunActs(q) PROVE MemoryInv' /\ RecordInv'
<1>1. UNCHANGED <<wish, req, memoryVars>>
  BY DEF RunActs
<1> QED BY <1>1, UnmovedGoOn, UnwrittenRecord

LEMMA SendRecord == ASSUME ChatTypes, MemoryInv, RecordInv, NEW q \in Request, Send(q) PROVE MemoryInv' /\ RecordInv'
<1>1. UNCHANGED <<wish, memoryVars>> /\ Moves(q, "done", req[q].decided)
  BY GotoMoves DEF Send
<1>2. wish[q].kind = "ask" /\ wish[q].conv \in Conversation
  BY DEF Send, RecordInv
<1>3. req[q].faulty \/ HasTurn(q, wish[q].conv, "agent")
  <2>1. CASE draft[q].step = "failed"
    BY <2>1 DEF RecordInv
  <2>2. CASE draft[q].step = "ok" /\ draft[q].role = "agent"
    <3>1. draft[q].conv = wish[q].conv
      BY <2>2 DEF RecordInv
    <3> QED BY <1>2, <2>2, <3>1, ConsoleAssumption DEF MemoryInv, WrittenIsThere, Role
  <2> QED BY <2>1, <2>2 DEF Send
<1>4. GoesOn(q)
  BY <1>1, <1>3 DEF GoesOn, Moves, RecordInv, Early
<1> QED BY <1>1, <1>4, MovesRecord

\* A step of the transcript of request q, seen from outside.
Writes(q) ==
  /\ MemoryInv' /\ UNCHANGED <<wish, action, said, run>>
  /\ DOMAIN req' = Request
  /\ \A p \in Request : IsRequest(req'[p]) /\ req'[p].step = req[p].step /\ req'[p].decided = req[p].decided
  /\ \A p \in Request : req[p].faulty => req'[p].faulty
  /\ \A c \in Conversation : turns[c] \subseteq turns'[c]
  /\ \E d : /\ DraftBecomes(q, d) /\ d.step # "idle" /\ d.conv = wish[q].conv
            /\ d.step = "failed" => req'[q].faulty

LEMMA WritesRecord == ASSUME ConsentInv, RecordInv, NEW q \in Request, req[q].step = "recording", Writes(q) PROVE RecordInv'
<1>1. PICK d : /\ DraftBecomes(q, d) /\ d.step # "idle" /\ d.conv = wish[q].conv
               /\ d.step = "failed" => req'[q].faulty
  BY DEF Writes
<1>2. \A p, r : \A c \in Conversation : HasTurn(p, c, r) => HasTurn(p, c, r)'
  BY DEF Writes, HasTurn
<1>3. draft'[q] = d /\ \A p \in Request \ {q} : draft'[p] = draft[p]
  BY <1>1, ConsoleAssumption DEF DraftBecomes
<1>4. wish[q].kind = "ask"
  BY DEF RecordInv
<1>5. /\ wish' = wish
      /\ \A p \in Request : req'[p].step = req[p].step /\ req'[p].decided = req[p].decided /\ (req[p].faulty => req'[p].faulty)
  BY DEF Writes
<1>6. ASSUME NEW p \in Request, draft'[p].step # "idle"
      PROVE  /\ wish[p].kind = "ask" /\ draft'[p].conv = wish[p].conv /\ req'[p].step \in {"recording", "done"}
             /\ draft'[p].step = "failed" => req'[p].faulty
  <2>1. CASE p = q
    BY <1>1, <1>3, <1>4, <1>5, <2>1
  <2>2. CASE p # q
    BY <1>3, <1>5, <1>6, <2>2 DEF RecordInv
  <2> QED BY <2>1, <2>2
<1>7. ASSUME NEW p \in Request, wish[p].kind = "ask", req'[p].step = "done", ~req'[p].faulty, req'[p].decided # "",
             wish[p].conv \in Conversation
      PROVE  HasTurn(p, wish[p].conv, "agent")'
  <2>1. PICK c : c = wish[p].conv
    OBVIOUS
  <2>2. HasTurn(p, c, "agent") /\ c \in Conversation
    BY <1>5, <1>7, <2>1 DEF RecordInv, At
  <2>3. HasTurn(p, c, "agent")'
    BY <1>2, <2>2
  <2> QED BY <1>5, <2>1, <2>3
<1>8. \A p \in Request : req'[p].step = "recording" => wish'[p].kind = "ask" /\ wish'[p].conv \in Conversation
  BY <1>5 DEF RecordInv
<1>9. \A p \in Request : wish'[p].kind = "ask" /\ req'[p].step \in Early \cup {"new"} => req'[p].decided = ""
  BY <1>5 DEF RecordInv
<1> QED BY <1>5, <1>6, <1>7, <1>8, <1>9 DEF RecordInv, At


LEMMA RecordWrites ==
  ASSUME ConsentInv, MemoryInv, RecordInv, NEW q \in Request, Record(q) PROVE Writes(q)
<1>1. /\ q \in Writer /\ Unlocked \notin Writer /\ req[q].step = "recording"
      /\ wish[q].kind = "ask" /\ wish[q].conv \in Conversation
  BY ConsoleAssumption DEF Record, RecordInv
<1>2. UNCHANGED <<wish, action, said, run, req>> /\ DOMAIN req' = Request /\ \A p \in Request : IsRequest(req'[p])
  BY DEF Record, chatVars, ConsentInv, ChatTypes, IsRequest, RequestOf
<1>3. ASSUME MemoryInv', \A c \in Conversation : turns[c] \subseteq turns'[c],
             NEW d, DraftBecomes(q, d), d.step \notin {"idle", "failed"}, d.conv = wish[q].conv
      PROVE  Writes(q)
  BY <1>2, <1>3 DEF Writes
<1>4. draft[q].step # "idle" => draft[q].conv = wish[q].conv
  BY <1>1 DEF RecordInv
<1>5. ASSUME NEW r \in Role, BeginTurn(q, wish[q].conv, r), r = "agent" => draft[q].step = "ok" /\ draft[q].role = "user"
      PROVE  Writes(q)
  <2>0. PICK c : c = wish[q].conv
    OBVIOUS
  <2>1. r = "agent" => HasTurn(q, c, "user")
    BY <1>1, <1>4, <1>5, <2>0 DEF MemoryInv, WrittenIsThere, Role
  <2> DEFINE d == Begun(c, r)
  <2>2. MemoryInv' /\ turns' = turns /\ DraftBecomes(q, d)
    BY <1>1, <1>5, <2>0, <2>1, BeginKeeps
  <2>3. d.step = "begun" /\ d.conv = c
    BY DEF Begun
  <2> HIDE DEF d
  <2> QED BY <1>3, <2>0, <2>2, <2>3
<1>6. CASE draft[q].step = "idle" /\ BeginTurn(q, wish[q].conv, "user")
  BY <1>5, <1>6 DEF Role
<1>7. CASE draft[q].step = "ok" /\ draft[q].role = "user" /\ BeginTurn(q, wish[q].conv, "agent")
  BY <1>5, <1>7 DEF Role
<1>8. CASE AppendStep(q)
  <2>1. draft[q].conv = wish[q].conv
    BY <1>4, <1>8 DEF AppendStep, LockConversation, InsertTurn, CommitTurn
  <2>2. CASE LockConversation(q)
    BY <1>1, <1>3, <2>1, <2>2, LockKeeps
  <2>3. CASE InsertTurn(q)
    BY <1>1, <1>3, <2>1, <2>3, InsertKeeps
  <2>4. CASE CommitTurn(q)
    BY <1>1, <1>3, <2>1, <2>4, CommitTurnKeeps
  <2> QED BY <1>8, <2>2, <2>3, <2>4 DEF AppendStep
<1> QED BY <1>6, <1>7, <1>8 DEF Record

LEMMA FailingWrites ==
  ASSUME ConsentInv, MemoryInv, RecordInv, NEW q \in Request, RecordFails(q) PROVE Writes(q)
<1>1. q \in Writer /\ req[q].step = "recording" /\ FailTurn(q) /\ UNCHANGED <<wish, action, said, run>>
  BY ConsoleAssumption DEF RecordFails
<1>2. /\ MemoryInv' /\ turns' = turns
      /\ \E d \in DraftRecord : DraftBecomes(q, d) /\ d.step = "failed" /\ d.conv = draft[q].conv
  BY <1>1, FailKeeps
<1>3. draft[q].conv = wish[q].conv
  BY <1>1 DEF RecordInv, FailTurn
<1> DEFINE o == req[q]
           n == [o EXCEPT !.faulty = TRUE]
<1>4. IsRequest(o) /\ req' = [req EXCEPT ![q] = n]
  BY DEF RecordFails, ConsentInv, ChatTypes
<1> HIDE DEF o
<1>5. PICK S : o \in RequestOf(S)
  BY <1>4 DEF IsRequest
<1>6. n \in RequestOf(S \cup {TRUE}) /\ n.step = o.step /\ n.decided = o.decided /\ n.faulty = TRUE
  BY <1>5 DEF RequestOf
<1>7. IsRequest(n)
  BY <1>6 DEF IsRequest
<1> HIDE DEF n
<1>8. /\ DOMAIN req' = Request /\ req'[q].faulty
      /\ \A p \in Request : IsRequest(req'[p]) /\ req'[p].step = req[p].step /\ req'[p].decided = req[p].decided
      /\ \A p \in Request : req[p].faulty => req'[p].faulty
  BY <1>4, <1>6, <1>7 DEF ConsentInv, ChatTypes, o
<1> QED BY <1>1, <1>2, <1>3, <1>8 DEF Writes

LEMMA WritesKeep ==
  ASSUME ConsentInv, RecordInv, NEW q \in Request, req[q].step = "recording", Writes(q)
  PROVE  ConsentInv' /\ MemoryInv' /\ RecordInv'
<1>1. ConsentInv'
  BY RecordingConsent DEF Writes
<1> QED BY <1>1, WritesRecord DEF Writes

LEMMA SendConsent == ASSUME ConsentInv, NEW q \in Request, Send(q) PROVE ConsentInv'
<1>1. UNCHANGED <<wish, action, said, run>> /\ Moves(q, "done", req[q].decided)
  BY GotoMoves DEF Send, ConsentInv
<1>2. DOMAIN req' = Request /\ \A p \in Request : IsRequest(req'[p]) /\ (req'[p].step = req[p].step \/ req'[p].step = "done")
  BY <1>1 DEF Moves, ConsentInv, ChatTypes
<1> QED BY <1>1, <1>2, RecordingConsent

LEMMA IdleIs == Idle \in DraftRecord /\ Idle.step = "idle"
BY DEF Idle, DraftRecord, DraftStep, Role

LEMMA RestartRecord ==
  ASSUME MemoryInv, RecordInv, Dropped, UNCHANGED <<wish, said, run>>, LoseWriters PROVE MemoryInv' /\ RecordInv'
<1>1. turns' = turns /\ draft' \in [Writer -> DraftRecord] /\ (\A w \in Writer : draft'[w].step = "idle") /\ DOMAIN lock' = Conversation
  BY IdleIs DEF LoseWriters
<1>2. \A q, c, r : HasTurn(q, c, r)' <=> HasTurn(q, c, r)
  BY <1>1 DEF HasTurn
<1>3. \A c : Size(c)' = Size(c)
  BY <1>1 DEF Size
<1>4. MemoryTypes' /\ NumberedInTurn'
  BY <1>1, <1>3 DEF MemoryInv, MemoryTypes, NumberedInTurn
<1>5. AnswersFollow' /\ OneWriterAtATime' /\ WrittenIsThere'
  BY <1>1, <1>2 DEF MemoryInv, AnswersFollow, OneWriterAtATime, WrittenIsThere
<1>6. RecordInv'
  <2>1. \A q \in Request : draft'[q].step = "idle"
    BY <1>1, ConsoleAssumption
  <2>2. \A q \in Request : req'[q].step # "recording" /\ (req'[q].step \in Early \cup {"new"} => req'[q].step = req[q].step)
    BY DEF Dropped, Early
  <2>3. \A q \in Request : wish[q].kind = "ask" /\ req'[q].step \in Early \cup {"new"} => req'[q].decided = ""
    <3> SUFFICES ASSUME NEW q \in Request, wish[q].kind = "ask", req'[q].step \in Early \cup {"new"} PROVE req'[q].decided = ""
      OBVIOUS
    <3>1. req[q].step \in Early \cup {"new"}
      BY <2>2
    <3>2. req[q].decided = ""
      BY <3>1 DEF RecordInv
    <3> QED BY <3>2 DEF Dropped
  <2>4. ASSUME NEW q \in Request, wish[q].kind = "ask", req'[q].step = "done", ~req'[q].faulty, req'[q].decided # "",
               wish[q].conv \in Conversation
        PROVE  HasTurn(q, wish[q].conv, "agent")'
    <3>1. PICK c : c = wish[q].conv
      OBVIOUS
    <3>2. req[q].step = "done" /\ ~req[q].faulty /\ req[q].decided # ""
      BY <2>4 DEF Dropped
    <3>3. HasTurn(q, c, "agent")
      BY <2>4, <3>1, <3>2 DEF RecordInv, At
    <3>4. HasTurn(q, c, "agent")'
      BY <1>2, <3>3
    <3> QED BY <3>1, <3>4
  <2> QED BY <2>1, <2>2, <2>3, <2>4 DEF RecordInv, At
<1> QED BY <1>4, <1>5, <1>6 DEF MemoryInv

LEMMA ConsoleStarts == ASSUME ConsoleInit PROVE ConsoleInv
<1>1. MemoryInv
  <2>1. draft \in [Writer -> DraftRecord] /\ \A w \in Writer : draft[w].step = "idle"
    BY IdleIs DEF ConsoleInit, MemoryInit
  <2>2. \A c \in Conversation : turns[c] = {} /\ IsFiniteSet(turns[c]) /\ Size(c) = 0
    BY FS_EmptySet DEF ConsoleInit, MemoryInit, Size
  <2>3. MemoryTypes
    BY <2>1, <2>2 DEF ConsoleInit, MemoryInit, MemoryTypes
  <2>4. NumberedInTurn
    BY <2>2 DEF NumberedInTurn
  <2> QED BY <2>1, <2>2, <2>3, <2>4 DEF MemoryInv, AnswersFollow, OneWriterAtATime, WrittenIsThere
<1>2. ASSUME NEW q \in Request
      PROVE  /\ IsRequest(req[q]) /\ req[q].step = "new" /\ req[q].decided = ""
             /\ IsAction(action[q]) /\ action[q].step = "none"
             /\ IsRun(run[q]) /\ run[q].kind = "none" /\ said[q] = << >>
             /\ draft[q].step = "idle"
  <2>1. req[q] \in RequestOf({"new", NoRepo, << >>, "", FALSE}) /\ req[q].step = "new" /\ req[q].decided = ""
    BY DEF ConsoleInit, RequestOf
  <2>2. action[q] \in [step : {"none", ""}, capability : {"none", ""}, axis : {"none", ""}] /\ action[q].step = "none"
    BY DEF ConsoleInit
  <2> DEFINE S == {"none", NoRepo, Unasked}
  <2>3. run[q] \in [kind : S, repo : S, by : S, acted : S] /\ run[q].kind = "none" /\ said[q] = << >>
    BY DEF ConsoleInit
  <2>4. draft[q].step = "idle"
    BY ConsoleAssumption, IdleIs DEF ConsoleInit, MemoryInit
  <2> QED BY <2>1, <2>2, <2>3, <2>4 DEF IsRequest, IsAction, IsRun
<1>3. ChatTypes
  BY <1>2 DEF ConsoleInit, ChatTypes
<1>4. AnsweredOnce
  BY <1>2 DEF AnsweredOnce, Holds, Assent
<1>5. OnlyAllowed
  BY <1>2 DEF OnlyAllowed, Early
<1>6. RecordInv
  BY <1>2 DEF RecordInv, At
<1> QED BY <1>1, <1>3, <1>4, <1>5, <1>6 DEF ConsoleInv, ConsentInv

LEMMA ConsoleStays == ASSUME ConsoleInv, UNCHANGED consoleVars PROVE ConsoleInv'
<1>1. UNCHANGED <<wish, action, said, run, req, memoryVars>>
  BY DEF consoleVars, chatVars
<1>2. ConsentInv'
  <2>1. \A p \in Request : IsRequest(req'[p])
    BY <1>1 DEF ConsoleInv, ConsentInv, ChatTypes
  <2> QED BY <1>1, <2>1, RecordingConsent DEF ConsoleInv, ConsentInv, ChatTypes
<1>3. MemoryInv' /\ RecordInv'
  BY <1>1, UnmovedGoOn, UnwrittenRecord DEF ConsoleInv
<1> QED BY <1>2, <1>3 DEF ConsoleInv

LEMMA ConsoleKeeps == ASSUME ConsoleInv, ConsoleNext PROVE ConsoleInv'
<1> USE DEF ConsoleInv
<1>1. ASSUME NEW q \in Request, Walks(q) PROVE ConsoleInv'
  BY <1>1, WalksConsent, WalksRecord
<1>2. ASSUME NEW q \in Request, Replies(q) PROVE ConsoleInv'
  BY <1>2, RepliesConsent, RepliesRecord
<1>3. ASSUME NEW q \in Request, Serving(q) PROVE ConsoleInv'
  BY <1>3, ServingConsent, ServingRecord
<1>4. ASSUME NEW q \in Request, Answering(q) PROVE ConsoleInv'
  BY <1>4, AnsweringConsent, AnsweringRecord
<1>5. ASSUME NEW q \in Request, Record(q) \/ RecordFails(q) PROVE ConsoleInv'
  <2>1. Writes(q) /\ req[q].step = "recording"
    BY <1>5, RecordWrites, FailingWrites DEF Record, RecordFails
  <2> QED BY <2>1, WritesKeep
<1>6. ASSUME NEW q \in Request, Send(q) PROVE ConsoleInv'
  BY <1>6, SendConsent, SendRecord DEF ConsentInv
<1>7. ASSUME NEW q \in Request, RunActs(q) PROVE ConsoleInv'
  BY <1>7, ActingConsent, ActingRecord
<1>8. CASE Restart
  BY <1>8, RestartDrops, RestartConsent, RestartRecord DEF ConsentInv
<1>9. ChatTypes
  BY DEF ConsentInv
<1>10. ASSUME NEW q \in Request, handleSubject(q) \/ Resolve(q) \/ Replace(q) \/ Register(q) \/ RememberSubject(q) PROVE ConsoleInv'
  BY <1>1, <1>9, <1>10, LoadingWalks
<1>11. ASSUME NEW q \in Request, Ask(q) \/ Converse(q) PROVE ConsoleInv'
  BY <1>1, <1>2, <1>9, <1>11, AskingSteps
<1>12. ASSUME NEW q \in Request, Fallback(q) \/ ConfirmAct(q) PROVE ConsoleInv'
  BY <1>1, <1>2, <1>3, <1>9, <1>12, ServingSteps
<1>13. ASSUME NEW q \in Request, Confirm(q) \/ ConfirmSubject(q) PROVE ConsoleInv'
  BY <1>1, <1>4, <1>9, <1>13, ConfirmingSteps
<1> HIDE DEF ConsoleInv
<1> QED BY <1>5, <1>6, <1>7, <1>8, <1>10, <1>11, <1>12, <1>13 DEF ConsoleNext

\* The invariant of the console: who has been answered what, what may start, and the transcript.
THEOREM ConsoleIsOrderly == ConsoleSpec => []ConsoleInv
<1>1. ConsoleInit => ConsoleInv
  BY ConsoleStarts
<1>2. ConsoleInv /\ [ConsoleNext]_consoleVars => ConsoleInv'
  BY ConsoleStays, ConsoleKeeps
<1> QED BY <1>1, <1>2, PTL DEF ConsoleSpec

LEMMA ConsentFollows == ASSUME ConsoleInv PROVE ConsentOnce
<1> USE DEF ConsoleInv, ConsentInv
<1>1. ASSUME NEW q \in StartedRuns, run[q].by # Unasked
      PROVE  /\ Holds(q, run[q].by) /\ run[q].by \in Request /\ run[q].by = wish[q].asked
  BY <1>1, KindsOfWish DEF StartedRuns, OnlyAllowed, Holds
<1>2. ASSUME NEW q \in StartedRuns, run[q].by = Unasked
      PROVE  wish[q].kind = "ask" /\ action[q].step = "none" /\ Allowed(q)
  BY <1>2, KindsOfWish, ConsoleAssumption DEF StartedRuns, OnlyAllowed
<1>3. ASSUME NEW a \in Request PROVE Cardinality({q \in StartedRuns : run[q].by = a}) <= 1
  <2> DEFINE S == {q \in StartedRuns : run[q].by = a}
  <2>1. a # Unasked
    BY ConsoleAssumption
  <2>2. \A p, q \in S : p = q
    BY <1>1, <2>1 DEF AnsweredOnce, StartedRuns
  <2>3. CASE S = {}
    BY <2>3, FS_EmptySet
  <2>4. CASE S # {}
    <3>1. PICK p : S = {p}
      BY <2>2, <2>4
    <3> HIDE DEF S
    <3>2. Cardinality(S) = 1
      BY <3>1, FS_Singleton
    <3> QED BY <3>2 DEF S
  <2> QED BY <2>3, <2>4
<1>4. ASSUME NEW q \in StartedRuns, run[q].by # Unasked
      PROVE  said[run[q].by] # << >> /\ said[run[q].by][1] /\ Allowed(run[q].by)
  <2>1. q \in Request /\ run[q].by \in Request /\ Holds(q, run[q].by)
    BY <1>1, <1>4 DEF StartedRuns
  <2> QED BY <2>1 DEF AnsweredOnce, OnlyAllowed
<1>5. \A q \in StartedRuns : ~Unbounded(Behind(q)) /\ ~Redirects(Behind(q))
  BY <1>2, <1>4 DEF Behind, Allowed
<1> QED BY <1>2, <1>3, <1>4, <1>5 DEF ConsentOnce

LEMMA RecordFollows == ASSUME ConsoleInv PROVE ReplyFollowsQuestion
BY DEF ConsoleInv, MemoryInv, NumberedInTurn, Size, AnswersFollow, RecordInv, HasTurn, ReplyFollowsQuestion

\* One yes starts one thing, a first no is final, and what starts unasked is what the router read
\* (takePending, handleConfirm).
THEOREM ConsentIsGivenOnce == ConsoleSpec => []ConsentOnce
BY ConsoleIsOrderly, ConsentFollows, PTL

\* The turns of every conversation are numbered without a gap and every answer follows its own
\* question, whatever is written at the same time (AppendTurn).
THEOREM RepliesFollowQuestions == ConsoleSpec => []ReplyFollowsQuestion
BY ConsoleIsOrderly, RecordFollows, PTL

-----------------------------------------------------------------------------
(***************************************************************************)
(* Starting the daemon.  While no connection dies, the process that runs   *)
(* the chain holds the lock and finds gone what the chain has dropped      *)
(* (Alone); a chain that ran whole and alone leaves the whole schema, and  *)
(* nobody is past the lock before one has (Settled); behind the statement  *)
(* that promotes, and ever after, there is an owner or nobody (Peopled).   *)
(***************************************************************************)
Row == [email : STRING, role : {"owner", "admin", "member", "viewer"}]
Statements == {Chain[i] : i \in 1..Len(Chain)}
BootStep == {"down", "refused", "gating", "migrating", "wiring", "counting", "founding", "hiring",
             "confirming", "listening", "serving", "failed"}
Daemon == [step : BootStep, env : Environment, at : Nat,
           why : {"", "already exists", "no first account", "address in use"}]

BootTypes ==
  /\ schema \subseteq Whole
  /\ accounts \in Seq(Row)
  /\ inFlight \subseteq Statements
  /\ gate \in Process \cup {Free}
  /\ proc \in [Process -> Daemon]
  /\ torn \in BOOLEAN /\ unguarded \in BOOLEAN

\* The lock is held by a process that migrates, and a chain is run from its first statement.
GateKept ==
  /\ gate # Free => proc[gate].step = "migrating"
  /\ \A p \in Process :
       /\ proc[p].step = "gating" => proc[p].at = 1
       /\ proc[p].step = "migrating" => proc[p].at \in 1..(Len(Chain) + 1)

\* What was dropped before statement i and not made since is not there; what was made and not
\* dropped since is.
Absent(i, present) ==
  \A j \in 1..(i - 1) :
    (Chain[j].kind = "drop" /\ \A k \in (j + 1)..(i - 1) : ~Makes(Chain[k], Chain[j].on))
      => Chain[j].on \notin present
Built(i, present) ==
  \A j \in 1..(i - 1) :
    (Makes(Chain[j], Chain[j].on) /\ \A k \in (j + 1)..(i - 1) : ~Drops(Chain[k], Chain[j].on))
      => Chain[j].on \in present

\* As long as no connection died, the one that migrates is the one that holds the lock.
Alone ==
  ~unguarded =>
    /\ inFlight = {}
    /\ \A p \in Process : proc[p].step = "migrating" => gate = p /\ Absent(proc[p].at, schema)
    /\ \A p \in Process : proc[p].why # "already exists"

\* A chain that ran whole and alone left the whole schema, unless none has been run yet.
Settled ==
  ~torn =>
    IF gate = Free
    THEN schema = Whole \/ \A p \in Process : proc[p].step \in {"down", "refused", "gating"}
    ELSE Built(proc[gate].at, schema)

HasOwner == \E i \in DOMAIN accounts : accounts[i].role = "owner"
Led == accounts = << >> \/ HasOwner
OneAddressEach == \A i, j \in DOMAIN accounts : accounts[i].email = accounts[j].email => i = j

Promoting(i) == \E j \in 1..(i - 1) : Chain[j].kind = "promote"
BehindTheGate == {"wiring", "counting", "founding", "hiring", "confirming", "listening", "serving"}

\* Behind the statement that promotes, there is an owner or nobody at all.
Past(d) == d.step \in BehindTheGate \/ (d.step = "migrating" /\ Promoting(d.at))
SawAnAccount(d) == d.step \in {"confirming", "listening", "serving"}

Peopled ==
  /\ accounts # << >> => "local" \in tenants
  /\ OneAddressEach
  /\ \A p \in Process :
       /\ Past(proc[p]) => Led
       /\ SawAnAccount(proc[p]) => HasOwner
       /\ proc[p].step = "hiring" => "local" \in tenants

BootInv == BootTypes /\ GateKept /\ Alone /\ Settled /\ Peopled

-----------------------------------------------------------------------------
LEMMA NothingBehindTheFirst ==
  (\A present : Absent(1, present) /\ Built(1, present)) /\ ~Promoting(1)
BY DEF Absent, Built, Promoting

LEMMA StatementsAreTyped ==
  /\ Len(Chain) \in Nat
  /\ \A i \in 1..Len(Chain) : Chain[i] \in Statements
  /\ \A s \in Statements : /\ s \in [kind : {"create", "drop", "add", "promote"}, on : STRING]
                           /\ Makes(s, s.on) => s.on \in Whole
<1>1. Chain \in Seq([kind : {"create", "drop", "add", "promote"}, on : STRING])
  BY ChainAssumption
<1>2. Len(Chain) \in Nat /\ \A i \in 1..Len(Chain) :
        Chain[i] \in [kind : {"create", "drop", "add", "promote"}, on : STRING]
  <2>. DEFINE K == [kind : {"create", "drop", "add", "promote"}, on : STRING]
  <2>1. Chain \in Seq(K)
    BY <1>1
  <2>. HIDE DEF K
  <2>2. Len(Chain) \in Nat /\ \A i \in 1..Len(Chain) : Chain[i] \in K
    BY <2>1, ElementOfSeq
  <2>. QED
    BY <2>2 DEF K
<1>3. \A i \in 1..Len(Chain) : Makes(Chain[i], Chain[i].on) => Chain[i].on \in Whole
  BY <1>2 DEF Whole, Names, Makes
<1>. QED
  BY <1>2, <1>3 DEF Statements

\* One statement further.
LEMMA ExecutedOne ==
  ASSUME NEW i \in 1..Len(Chain), Execute(Chain[i])
  PROVE  /\ Absent(i, schema) => Absent(i + 1, schema')
         /\ Built(i, schema) => Built(i + 1, schema')
<1>. DEFINE s == Chain[i]
<1>1. /\ s.kind \in {"create", "drop", "add", "promote"} /\ i \in Nat /\ Len(Chain) \in Nat
      /\ (i + 1) - 1 = i
  BY StatementsAreTyped
<1>2. schema' = IF s.kind = "drop" THEN schema \ {s.on}
                ELSE IF s.kind = "promote" THEN schema ELSE schema \cup {s.on}
  BY DEF Execute
<1>3. \A n : n \in schema' <=> (n \in schema /\ ~Drops(s, n)) \/ Makes(s, n)
  BY <1>1, <1>2 DEF Drops, Makes
<1>4. ASSUME Absent(i, schema), NEW j \in 1..i, Chain[j].kind = "drop",
             \A k \in (j + 1)..i : ~Makes(Chain[k], Chain[j].on)
      PROVE  Chain[j].on \notin schema'
  <2>1. CASE j = i
    BY <1>3, <1>4, <2>1 DEF Drops, Makes
  <2>2. CASE j # i
    <3>1. j \in 1..(i - 1) /\ i \in (j + 1)..i /\ \A k \in (j + 1)..(i - 1) : k \in (j + 1)..i
      BY <1>1, <2>2
    <3>2. ~Makes(s, Chain[j].on) /\ Chain[j].on \notin schema
      BY <1>4, <3>1 DEF Absent
    <3>. QED
      BY <1>3, <3>2
  <2>. QED
    BY <2>1, <2>2
<1>5. ASSUME Built(i, schema), NEW j \in 1..i, Makes(Chain[j], Chain[j].on),
             \A k \in (j + 1)..i : ~Drops(Chain[k], Chain[j].on)
      PROVE  Chain[j].on \in schema'
  <2>1. CASE j = i
    BY <1>3, <1>5, <2>1
  <2>2. CASE j # i
    <3>1. j \in 1..(i - 1) /\ i \in (j + 1)..i /\ \A k \in (j + 1)..(i - 1) : k \in (j + 1)..i
      BY <1>1, <2>2
    <3>2. ~Drops(s, Chain[j].on) /\ Chain[j].on \in schema
      BY <1>5, <3>1 DEF Built
    <3>. QED
      BY <1>3, <3>2
  <2>. QED
    BY <2>1, <2>2
<1>6. Absent(i, schema) => Absent(i + 1, schema')
  BY <1>1, <1>4 DEF Absent, Makes
<1>7. Built(i, schema) => Built(i + 1, schema')
  BY <1>1, <1>5 DEF Built, Makes, Drops
<1>. QED
  BY <1>6, <1>7

\* A constraint that is added is not there, and the end of the chain is the whole schema.
LEMMA AddedWhereAbsent ==
  ASSUME NEW i \in 1..Len(Chain), Absent(i, schema)
  PROVE  ~Refuses(Chain[i])
<1>1. SUFFICES ASSUME Chain[i].kind = "add" PROVE Chain[i].on \notin schema
  BY DEF Refuses
<1>2. PICK j \in 1..(i - 1) : /\ Drops(Chain[j], Chain[i].on)
                              /\ \A k \in (j + 1)..(i - 1) : ~Makes(Chain[k], Chain[i].on)
  BY <1>1, ChainAssumption
<1>. QED
  BY <1>2 DEF Absent, Drops

LEMMA BuiltIsWhole ==
  ASSUME Built(Len(Chain) + 1, schema), schema \subseteq Whole
  PROVE  schema = Whole
<1>0. Len(Chain) \in Nat /\ (Len(Chain) + 1) - 1 = Len(Chain)
  BY StatementsAreTyped
<1>1. SUFFICES ASSUME NEW n \in Whole PROVE n \in schema
  OBVIOUS
<1>2. PICK i \in 1..Len(Chain) : Makes(Chain[i], Chain[i].on) /\ Chain[i].on = n
  BY DEF Whole, Names, Makes
<1>3. PICK j \in 1..Len(Chain) : /\ Makes(Chain[j], n)
                                 /\ \A k \in (j + 1)..Len(Chain) : ~Drops(Chain[k], n)
  BY <1>2, ChainAssumption
<1>. QED
  BY <1>0, <1>3 DEF Built, Makes

\* Executing a statement keeps what is known of the accounts.
LEMMA PromotedIs ==
  ASSUME accounts \in Seq(Row)
  PROVE  /\ Promoted \in Seq(Row) /\ DOMAIN Promoted = DOMAIN accounts
         /\ \A i \in DOMAIN accounts : Promoted[i].email = accounts[i].email
         /\ Promoted = << >> <=> accounts = << >>
         /\ accounts # << >> => \E i \in DOMAIN Promoted : Promoted[i].role = "owner"
<1>1. CASE accounts = << >> \/ HasOwner
  BY <1>1 DEF Promoted, HasOwner
<1>2. CASE ~(accounts = << >> \/ HasOwner)
  <2>. DEFINE first == [accounts[1] EXCEPT !.role = "owner"]
  <2>1. Promoted = [accounts EXCEPT ![1] = first]
    BY <1>2 DEF Promoted, HasOwner
  <2>2. Len(accounts) \in Nat /\ DOMAIN accounts = 1..Len(accounts)
    OBVIOUS
  <2>3. 1 \in DOMAIN accounts /\ accounts[1] \in Row
    <3>1. Len(accounts) # 0
      BY <1>2, EmptySeq
    <3>. QED
      BY <2>2, <3>1, ElementOfSeq
  <2>4. first \in Row /\ first.email = accounts[1].email /\ first.role = "owner"
    <3>. DEFINE c == accounts[1]
    <3>1. c \in Row
      BY <2>3
    <3>. HIDE DEF c
    <3>2. [c EXCEPT !.role = "owner"] = [email |-> c.email, role |-> "owner"] /\ c.email \in STRING
      BY <3>1 DEF Row
    <3>. QED
      BY <3>2 DEF Row, c
  <2>. HIDE DEF first
  <2>5. Promoted \in Seq(Row) /\ DOMAIN Promoted = DOMAIN accounts
    BY <2>1, <2>3, <2>4, ExceptSeq
  <2>6. /\ \A i \in DOMAIN accounts : Promoted[i] = IF i = 1 THEN first ELSE accounts[i]
    BY <2>1
  <2>7. Promoted # << >>
    BY <2>3, <2>5
  <2>. QED
    BY <1>2, <2>3, <2>4, <2>5, <2>6, <2>7
<1>. QED
  BY <1>1, <1>2

-----------------------------------------------------------------------------
(***************************************************************************)
(* What a step does                                                        *)
(***************************************************************************)
Turned(p, n) == n \in Daemon /\ proc' = [proc EXCEPT ![p] = n]

\* Where the process is, and the rest of it as it was.
TurnedTo(p, n, s) ==
  Turned(p, n) /\ n.step = s /\ n.at = proc[p].at /\ n.env = proc[p].env

Begins(p, n) ==
  /\ Turned(p, n) /\ n.step \in {"gating", "refused"} /\ n.at = 1 /\ n.why = ""
  /\ proc[p].step \in {"down", "refused", "failed"}
  /\ UNCHANGED <<schema, accounts, tenants, gate, inFlight, torn, unguarded>>

Enters(p, n) ==
  /\ TurnedTo(p, n, "migrating") /\ n.why = proc[p].why /\ proc[p].step = "gating"
  /\ gate = Free /\ gate' = p /\ ~torn' /\ torn' \in BOOLEAN
  /\ UNCHANGED <<schema, accounts, tenants, inFlight, unguarded>>

Runs(p, n) ==
  /\ Turned(p, n) /\ n.step = "migrating" /\ n.at = proc[p].at + 1 /\ n.env = proc[p].env
  /\ n.why = proc[p].why
  /\ proc[p].step = "migrating" /\ proc[p].at \in 1..Len(Chain)
  /\ Execute(Chain[proc[p].at])
  /\ torn' = (torn \/ gate # p)
  /\ UNCHANGED <<tenants, gate, inFlight, unguarded>>

Stumbles(p, n) ==
  /\ TurnedTo(p, n, "failed") /\ n.why = "already exists"
  /\ proc[p].step = "migrating" /\ proc[p].at \in 1..Len(Chain) /\ Refuses(Chain[proc[p].at])
  /\ Unlock(p) /\ torn' = TRUE
  /\ UNCHANGED <<schema, accounts, tenants, inFlight, unguarded>>

Opens(p, n) ==
  /\ TurnedTo(p, n, "wiring") /\ n.why = proc[p].why
  /\ proc[p].step = "migrating" /\ proc[p].at = Len(Chain) + 1
  /\ Unlock(p)
  /\ UNCHANGED <<schema, accounts, tenants, inFlight, torn, unguarded>>

\* On its way to serving: an account is only made where its address is free, by who found the
\* organization, and whoever goes on to listen has seen an account.
Founds(p) ==
  /\ proc[p].step = "hiring"
  /\ \A i \in DOMAIN accounts : accounts[i].email # proc[p].env.admin
  /\ accounts' = Append(accounts, [email |-> proc[p].env.admin, role |-> "owner"])

Goes(p, n) ==
  /\ Turned(p, n) /\ n.env = proc[p].env
  /\ proc[p].step \in BehindTheGate /\ n.step \in BehindTheGate \cup {"refused", "failed"}
  /\ n.why \in {proc[p].why, "no first account", "address in use"}
  /\ accounts' = accounts \/ Founds(p)
  /\ tenants \subseteq tenants'
  /\ n.step \in {"confirming", "listening", "serving"} =>
       accounts' # << >> \/ proc[p].step \in {"confirming", "listening"}
  /\ n.step = "hiring" => "local" \in tenants'
  /\ UNCHANGED <<schema, gate, inFlight, torn, unguarded>>

Falls(p, n) ==
  /\ TurnedTo(p, n, "down") /\ n.why = proc[p].why
  /\ Unlock(p)
  /\ torn' = (torn \/ proc[p].step = "migrating")
  /\ inFlight' \subseteq inFlight \cup Statements /\ inFlight \subseteq inFlight'
  /\ unguarded' = (unguarded \/ inFlight' # inFlight)
  /\ UNCHANGED <<schema, accounts, tenants>>

IsCut(p) ==
  /\ gate = p /\ gate' = Free /\ torn' = TRUE /\ unguarded' = TRUE
  /\ UNCHANGED <<schema, accounts, tenants, inFlight, proc>>

Lands(s) ==
  /\ s \in inFlight /\ inFlight' = inFlight \ {s} /\ torn' = TRUE
  /\ UNCHANGED <<schema, accounts>> \/ Execute(s)
  /\ UNCHANGED <<tenants, gate, proc, unguarded>>

BootTold ==
  \/ UNCHANGED <<schema, accounts, tenants, gate, inFlight, proc, torn, unguarded>>
  \/ \E p \in Process, n \in Daemon :
       \/ Begins(p, n) \/ Enters(p, n) \/ Runs(p, n) \/ Stumbles(p, n) \/ Opens(p, n)
       \/ Goes(p, n) \/ Falls(p, n)
  \/ \E p \in Process : IsCut(p)
  \/ \E s \in Statements : Lands(s)

LEMMA ReachTurns ==
  ASSUME BootTypes, NEW p \in Process, NEW s \in BootStep, Reach(p, s)
  PROVE  \E n \in Daemon : TurnedTo(p, n, s) /\ n.why = proc[p].why
<1>. DEFINE c == proc[p]
            n == [c EXCEPT !.step = s]
<1>1. c \in Daemon
  BY DEF BootTypes
<1>2. proc' = [proc EXCEPT ![p] = n]
  BY DEF Reach
<1>. HIDE DEF c
<1>3. n \in Daemon /\ n.step = s /\ n.at = c.at /\ n.env = c.env /\ n.why = c.why
  BY <1>1 DEF Daemon
<1>. HIDE DEF n
<1>. QED
  BY <1>2, <1>3 DEF TurnedTo, Turned, c

LEMMA ExitTurns ==
  ASSUME BootTypes, NEW p \in Process, NEW s \in BootStep,
         NEW w \in {"already exists", "no first account", "address in use"}, Exit(p, s, w)
  PROVE  \E n \in Daemon : TurnedTo(p, n, s) /\ n.why = w
<1>. DEFINE c == proc[p]
            n == [[c EXCEPT !.step = s] EXCEPT !.why = w]
<1>1. c \in Daemon
  BY DEF BootTypes
<1>2. proc' = [proc EXCEPT ![p] = n]
  BY DEF Exit, BootTypes
<1>. HIDE DEF c
<1>3. n \in Daemon /\ n.step = s /\ n.at = c.at /\ n.env = c.env /\ n.why = w
  BY <1>1 DEF Daemon
<1>. HIDE DEF n
<1>. QED
  BY <1>2, <1>3 DEF TurnedTo, Turned, c

LEMMA BootStepCases ==
  ASSUME BootTypes, GateKept, [BootNext]_bootVars
  PROVE  BootTold
<1>1. CASE UNCHANGED bootVars
  BY <1>1 DEF BootTold, bootVars
<1>2. ASSUME NEW p \in Process, Start(p) PROVE BootTold
  <2>1. PICK e \in Environment :
          proc' = [proc EXCEPT ![p] =
            [step |-> IF e.key /\ PasswordWorkConfigured(e) THEN "gating" ELSE "refused",
             env |-> e, at |-> 1, why |-> ""]]
    BY <1>2 DEF Start
  <2>. DEFINE s == IF e.key /\ PasswordWorkConfigured(e) THEN "gating" ELSE "refused"
              n == [step |-> s, env |-> e, at |-> 1, why |-> ""]
  <2>2. s \in {"gating", "refused"}
    OBVIOUS
  <2>3. proc' = [proc EXCEPT ![p] = n]
    BY <2>1
  <2>. HIDE DEF s
  <2>4. n \in Daemon /\ n.step \in {"gating", "refused"} /\ n.at = 1 /\ n.why = ""
    BY <2>2 DEF Daemon, BootStep
  <2>. HIDE DEF n
  <2>5. Begins(p, n)
    BY <1>2, <2>3, <2>4 DEF Begins, Turned, Start
  <2>. QED
    BY <2>4, <2>5 DEF BootTold
<1>3. ASSUME NEW p \in Process, LockGate(p) PROVE BootTold
  <2>1. PICK n \in Daemon : TurnedTo(p, n, "migrating") /\ n.why = proc[p].why
    BY <1>3, ReachTurns DEF LockGate, BootStep
  <2>2. Enters(p, n)
    BY <1>3, <2>1 DEF Enters, LockGate
  <2>. QED
    BY <2>2 DEF BootTold
<1>4. ASSUME NEW p \in Process, Migrate(p) PROVE BootTold
  <2>1. proc[p].step = "migrating" /\ proc[p].at \in 1..Len(Chain)
    <3>1. proc[p].step = "migrating" /\ proc[p].at <= Len(Chain)
      BY <1>4 DEF Migrate
    <3>2. proc[p].at \in 1..(Len(Chain) + 1)
      BY <3>1 DEF GateKept
    <3>. QED
      BY <3>1, <3>2, StatementsAreTyped
  <2>2. CASE Refuses(Chain[proc[p].at])
    <3>1. PICK n \in Daemon : TurnedTo(p, n, "failed") /\ n.why = "already exists"
      BY <1>4, <2>2, ExitTurns DEF Migrate, BootStep
    <3>2. Stumbles(p, n)
      BY <1>4, <2>1, <2>2, <3>1 DEF Stumbles, Migrate
    <3>. QED
      BY <3>2 DEF BootTold
  <2>3. CASE ~Refuses(Chain[proc[p].at])
    <3>. DEFINE c == proc[p]
                n == [c EXCEPT !.at = c.at + 1]
    <3>1. /\ proc' = [proc EXCEPT ![p] = n] /\ c \in Daemon
          /\ Execute(Chain[proc[p].at]) /\ torn' = (torn \/ gate # p)
          /\ UNCHANGED <<tenants, gate, inFlight, unguarded>>
      BY <1>4, <2>3 DEF Migrate, BootTypes
    <3>. HIDE DEF c
    <3>2. n \in Daemon /\ n.step = c.step /\ n.at = c.at + 1 /\ n.env = c.env /\ n.why = c.why
      <4>. DEFINE a == c.at + 1
      <4>0. c.at \in Nat
        BY <3>1 DEF Daemon
      <4>1. a \in Nat /\ n = [c EXCEPT !.at = a]
        BY <4>0
      <4>. HIDE DEF a, n
      <4>2. n \in Daemon /\ n.step = c.step /\ n.at = a /\ n.env = c.env /\ n.why = c.why
        BY <3>1, <4>1 DEF Daemon
      <4>. QED
        BY <4>2 DEF a
    <3>. HIDE DEF n
    <3>3. Runs(p, n)
      BY <2>1, <3>1, <3>2 DEF Runs, Turned, c
    <3>. QED
      BY <3>2, <3>3 DEF BootTold
  <2>. QED
    BY <2>2, <2>3
<1>5. ASSUME NEW p \in Process, OpenGate(p) PROVE BootTold
  <2>1. PICK n \in Daemon : TurnedTo(p, n, "wiring") /\ n.why = proc[p].why
    BY <1>5, ReachTurns DEF OpenGate, BootStep
  <2>2. proc[p].at = Len(Chain) + 1
    BY <1>5, StatementsAreTyped DEF OpenGate, GateKept
  <2>3. Opens(p, n)
    BY <1>5, <2>1, <2>2 DEF Opens, OpenGate
  <2>. QED
    BY <2>3 DEF BootTold
<1>6. ASSUME NEW p \in Process, NEW n \in Daemon, TurnedTo(p, n, n.step), proc[p].step \in BehindTheGate,
             n.step \in {"refused", "failed", "counting"},
             n.why \in {proc[p].why, "no first account", "address in use"},
             UNCHANGED <<schema, accounts, tenants, gate, inFlight, torn, unguarded>>
      PROVE  BootTold
  <2>1. Goes(p, n)
    BY <1>6 DEF Goes, TurnedTo, BehindTheGate
  <2>. QED
    BY <2>1 DEF BootTold
<1>7. ASSUME NEW p \in Process, Configure(p) PROVE BootTold
  <2>1. \E s \in {"refused", "counting"} : Reach(p, s)
    BY <1>7 DEF Configure
  <2>2. PICK n \in Daemon : TurnedTo(p, n, n.step) /\ n.why = proc[p].why /\ n.step \in {"refused", "counting"}
    BY <2>1, ReachTurns DEF BootStep, TurnedTo
  <2>3. proc[p].step \in BehindTheGate
    BY <1>7 DEF Configure, BehindTheGate
  <2>. QED
    BY <1>6, <1>7, <2>2, <2>3 DEF Configure
<1>8. ASSUME NEW p \in Process, CountUsers(p) PROVE BootTold
  <2>1. PICK s \in {"listening", "refused", "founding"} :
          Reach(p, s) /\ (s = "listening" => accounts # << >>)
    BY <1>8 DEF CountUsers
  <2>2. PICK n \in Daemon : TurnedTo(p, n, s) /\ n.why = proc[p].why
    BY <2>1, ReachTurns DEF BootStep
  <2>3. Goes(p, n)
    BY <1>8, <2>1, <2>2 DEF Goes, TurnedTo, CountUsers, BehindTheGate
  <2>. QED
    BY <2>3 DEF BootTold
<1>9. ASSUME NEW p \in Process, CreateTenant(p) PROVE BootTold
  <2>1. PICK n \in Daemon : TurnedTo(p, n, "hiring") /\ n.why = proc[p].why
    BY <1>9, ReachTurns DEF CreateTenant, BootStep
  <2>2. Goes(p, n)
    BY <1>9, <2>1 DEF Goes, TurnedTo, CreateTenant, BehindTheGate
  <2>. QED
    BY <2>2 DEF BootTold
<1>10. ASSUME NEW p \in Process, CreateUser(p) PROVE BootTold
  <2>1. proc[p].step = "hiring" /\ UNCHANGED <<schema, tenants, gate, inFlight, torn, unguarded>>
    BY <1>10 DEF CreateUser
  <2>2. CASE Exit(p, "failed", "no first account") /\ accounts' = accounts
    <3>1. PICK n \in Daemon : TurnedTo(p, n, "failed") /\ n.why = "no first account"
      BY <2>2, ExitTurns DEF BootStep
    <3>2. Goes(p, n)
      BY <2>1, <2>2, <3>1 DEF Goes, TurnedTo, BehindTheGate
    <3>. QED
      BY <3>2 DEF BootTold
  <2>3. CASE ~(Exit(p, "failed", "no first account") /\ accounts' = accounts)
    <3>1. /\ accounts' = Append(accounts, [email |-> proc[p].env.admin, role |-> "owner"])
          /\ \A i \in DOMAIN accounts : accounts[i].email # proc[p].env.admin
          /\ \E s \in {"listening", "confirming"} : Reach(p, s)
      BY <1>10, <2>3 DEF CreateUser
    <3>2. PICK n \in Daemon : /\ TurnedTo(p, n, n.step) /\ n.why = proc[p].why
                              /\ n.step \in {"listening", "confirming"}
      BY <3>1, ReachTurns DEF BootStep, TurnedTo
    <3>3. accounts' # << >>
      <4>. DEFINE r == [email |-> proc[p].env.admin, role |-> "owner"]
      <4>1. accounts' = Append(accounts, r) /\ accounts \in Seq(Row)
        BY <3>1 DEF BootTypes
      <4>. HIDE DEF r
      <4>2. DOMAIN accounts' = 1..(Len(accounts) + 1) /\ Len(accounts) \in Nat
        BY <4>1
      <4>. QED
        BY <4>2
    <3>4. Goes(p, n)
      BY <2>1, <3>1, <3>2, <3>3 DEF Goes, Founds, TurnedTo, BehindTheGate
    <3>. QED
      BY <3>4 DEF BootTold
  <2>. QED
    BY <2>2, <2>3
<1>11. ASSUME NEW p \in Process, SendConfirmation(p) PROVE BootTold
  <2>1. PICK n \in Daemon : TurnedTo(p, n, "listening") /\ n.why = proc[p].why
    BY <1>11, ReachTurns DEF SendConfirmation, BootStep
  <2>2. Goes(p, n)
    BY <1>11, <2>1 DEF Goes, TurnedTo, SendConfirmation, BehindTheGate
  <2>. QED
    BY <2>2 DEF BootTold
<1>12. ASSUME NEW p \in Process, Listen(p) PROVE BootTold
  <2>1. proc[p].step = "listening" /\ (Reach(p, "serving") \/ Exit(p, "failed", "address in use"))
        /\ UNCHANGED <<schema, accounts, tenants, gate, inFlight, torn, unguarded>>
    BY <1>12 DEF Listen
  <2>2. PICK n \in Daemon : /\ TurnedTo(p, n, n.step) /\ n.step \in {"serving", "failed"}
                            /\ n.why \in {proc[p].why, "address in use"}
    <3>1. CASE Reach(p, "serving")
      <4>1. PICK m \in Daemon : TurnedTo(p, m, "serving") /\ m.why = proc[p].why
        BY <3>1, ReachTurns DEF BootStep
      <4>2. m.step = "serving" /\ TurnedTo(p, m, m.step)
        BY <4>1 DEF TurnedTo
      <4>. QED
        BY <4>1, <4>2
    <3>2. CASE Exit(p, "failed", "address in use")
      <4>1. PICK m \in Daemon : TurnedTo(p, m, "failed") /\ m.why = "address in use"
        BY <3>2, ExitTurns DEF BootStep
      <4>2. m.step = "failed" /\ TurnedTo(p, m, m.step)
        BY <4>1 DEF TurnedTo
      <4>. QED
        BY <4>1, <4>2
    <3>. QED
      BY <2>1, <3>1, <3>2
  <2>3. Goes(p, n)
    BY <2>1, <2>2 DEF Goes, TurnedTo, BehindTheGate
  <2>. QED
    BY <2>3 DEF BootTold
<1>13. ASSUME NEW p \in Process, Die(p) PROVE BootTold
  <2>1. PICK n \in Daemon : TurnedTo(p, n, "down") /\ n.why = proc[p].why
    BY <1>13, ReachTurns DEF Die, BootStep
  <2>2. inFlight' \subseteq inFlight \cup Statements /\ inFlight \subseteq inFlight'
    BY <1>13, StatementsAreTyped DEF Die, GateKept
  <2>3. Falls(p, n)
    BY <1>13, <2>1, <2>2 DEF Falls, Die
  <2>. QED
    BY <2>3 DEF BootTold
<1>14. ASSUME NEW p \in Process, LoseGate(p) PROVE BootTold
  <2>1. IsCut(p)
    BY <1>14 DEF LoseGate, IsCut
  <2>. QED
    BY <2>1 DEF BootTold
<1>15. ASSUME NEW s \in inFlight, ExecuteLate(s) PROVE BootTold
  <2>1. Lands(s) /\ s \in Statements
    BY <1>15 DEF ExecuteLate, Lands, BootTypes
  <2>. QED
    BY <2>1 DEF BootTold
<1>. QED
  BY <1>1, <1>2, <1>3, <1>4, <1>5, <1>7, <1>8, <1>9, <1>10, <1>11, <1>12, <1>13, <1>14, <1>15
     DEF BootNext

-----------------------------------------------------------------------------
(***************************************************************************)
(* BootInv is inductive                                                    *)
(***************************************************************************)
LEMMA TurnedOnly ==
  ASSUME BootTypes, NEW p \in Process, NEW n \in Daemon, Turned(p, n)
  PROVE  /\ proc' \in [Process -> Daemon] /\ proc'[p] = n
         /\ \A q \in Process : q # p => proc'[q] = proc[q]
BY DEF BootTypes, Turned

LEMMA ExecutedTypes ==
  ASSUME BootTypes, NEW s \in Statements, Execute(s)
  PROVE  schema' \subseteq Whole /\ accounts' \in Seq(Row)
<1>1. s \in [kind : {"create", "drop", "add", "promote"}, on : STRING] /\ (Makes(s, s.on) => s.on \in Whole)
  BY StatementsAreTyped
<1>2. schema' \subseteq Whole
  BY <1>1 DEF Execute, BootTypes, Makes
<1>3. accounts' \in Seq(Row)
  BY PromotedIs DEF Execute, BootTypes
<1>. QED
  BY <1>2, <1>3

LEMMA FoundedIs ==
  ASSUME BootTypes, NEW p \in Process, Founds(p)
  PROVE  /\ accounts' \in Seq(Row) /\ Len(accounts) \in Nat
         /\ DOMAIN accounts = 1..Len(accounts) /\ DOMAIN accounts' = 1..(Len(accounts) + 1)
         /\ \A i \in DOMAIN accounts : accounts'[i] = accounts[i]
         /\ accounts'[Len(accounts) + 1].email = proc[p].env.admin
         /\ accounts'[Len(accounts) + 1].role = "owner"
<1>. DEFINE r == [email |-> proc[p].env.admin, role |-> "owner"]
<1>1. proc[p].env.admin \in STRING
  BY InstalledAssumption DEF BootTypes, Daemon
<1>2. r \in Row /\ r.email = proc[p].env.admin /\ r.role = "owner"
  BY <1>1 DEF Row
<1>3. accounts' = Append(accounts, r) /\ accounts \in Seq(Row)
  BY DEF Founds, BootTypes
<1>. HIDE DEF r
<1>4. accounts' \in Seq(Row)
  BY <1>2, <1>3, AppendProperties
<1>5. Len(accounts) \in Nat /\ DOMAIN accounts = 1..Len(accounts)
  BY <1>3
<1>6. /\ DOMAIN accounts' = 1..(Len(accounts) + 1)
      /\ \A i \in 1..Len(accounts) : accounts'[i] = accounts[i]
      /\ accounts'[Len(accounts) + 1] = r
  BY <1>2, <1>3, <1>5
<1>. QED
  BY <1>2, <1>4, <1>5, <1>6

LEMMA BootTypesStay ==
  ASSUME BootTypes, BootTold
  PROVE  BootTypes'
<1>1. CASE UNCHANGED <<schema, accounts, tenants, gate, inFlight, proc, torn, unguarded>>
  BY <1>1 DEF BootTypes
<1>2. ASSUME NEW p \in Process, NEW n \in Daemon, Begins(p, n) PROVE BootTypes'
  BY <1>2, TurnedOnly DEF BootTypes, Begins
<1>3. ASSUME NEW p \in Process, NEW n \in Daemon, Enters(p, n) PROVE BootTypes'
  BY <1>3, TurnedOnly DEF BootTypes, Enters, TurnedTo
<1>4. ASSUME NEW p \in Process, NEW n \in Daemon, Runs(p, n) PROVE BootTypes'
  <2>1. schema' \subseteq Whole /\ accounts' \in Seq(Row)
    BY <1>4, ExecutedTypes, StatementsAreTyped DEF Runs
  <2>2. torn' \in BOOLEAN
    BY <1>4 DEF Runs, BootTypes
  <2>. QED
    BY <1>4, <2>1, <2>2, TurnedOnly DEF BootTypes, Runs
<1>5. ASSUME NEW p \in Process, NEW n \in Daemon, Stumbles(p, n) \/ Opens(p, n) PROVE BootTypes'
  <2>1. proc' \in [Process -> Daemon]
    BY <1>5, TurnedOnly DEF Stumbles, Opens, TurnedTo
  <2>2. gate' \in Process \cup {Free} /\ torn' \in BOOLEAN
    BY <1>5 DEF Stumbles, Opens, Unlock, BootTypes
  <2>. QED
    BY <1>5, <2>1, <2>2 DEF BootTypes, Stumbles, Opens
<1>6. ASSUME NEW p \in Process, NEW n \in Daemon, Goes(p, n) PROVE BootTypes'
  <2>1. accounts' \in Seq(Row)
    BY <1>6, FoundedIs DEF Goes, BootTypes
  <2>2. proc' \in [Process -> Daemon]
    BY <1>6, TurnedOnly DEF Goes
  <2>. QED
    BY <1>6, <2>1, <2>2 DEF BootTypes, Goes
<1>7. ASSUME NEW p \in Process, NEW n \in Daemon, Falls(p, n) PROVE BootTypes'
  <2>1. proc' \in [Process -> Daemon]
    BY <1>7, TurnedOnly DEF Falls, TurnedTo
  <2>2. gate' \in Process \cup {Free} /\ torn' \in BOOLEAN /\ unguarded' \in BOOLEAN
    BY <1>7 DEF Falls, Unlock, BootTypes
  <2>3. inFlight' \subseteq Statements
    BY <1>7 DEF Falls, BootTypes
  <2>. QED
    BY <1>7, <2>1, <2>2, <2>3 DEF BootTypes, Falls
<1>8. ASSUME NEW p \in Process, IsCut(p) PROVE BootTypes'
  BY <1>8 DEF BootTypes, IsCut
<1>9. ASSUME NEW s \in Statements, Lands(s) PROVE BootTypes'
  <2>1. schema' \subseteq Whole /\ accounts' \in Seq(Row)
    BY <1>9, ExecutedTypes DEF Lands, BootTypes
  <2>. QED
    BY <1>9, <2>1 DEF BootTypes, Lands
<1>. QED
  BY <1>1, <1>2, <1>3, <1>4, <1>5, <1>6, <1>7, <1>8, <1>9 DEF BootTold

LEMMA GateStays ==
  ASSUME BootTypes, GateKept, BootTold
  PROVE  GateKept'
<1>0. Len(Chain) \in Nat /\ Free \notin Process
  BY StatementsAreTyped, InstalledAssumption
<1>1. CASE UNCHANGED <<schema, accounts, tenants, gate, inFlight, proc, torn, unguarded>>
  BY <1>1 DEF GateKept
<1>2. ASSUME NEW p \in Process, NEW n \in Daemon, Turned(p, n),
             n.step = "gating" => n.at = 1,
             n.step = "migrating" => n.at \in 1..(Len(Chain) + 1),
             gate' = Free \/ (gate' = gate /\ (gate = p => n.step = "migrating"))
                          \/ (gate' = p /\ n.step = "migrating")
      PROVE  GateKept'
  BY <1>2, TurnedOnly DEF GateKept, BootTypes
<1>3. ASSUME NEW p \in Process, NEW n \in Daemon, Begins(p, n) PROVE GateKept'
  <2>. QED
    BY <1>2, <1>3 DEF Begins, GateKept, BootTypes
<1>4. ASSUME NEW p \in Process, NEW n \in Daemon, Enters(p, n) PROVE GateKept'
  <2>1. n.at = 1 /\ 1 \in 1..(Len(Chain) + 1)
    BY <1>0, <1>4 DEF Enters, TurnedTo, GateKept
  <2>. QED
    BY <1>2, <1>4, <2>1 DEF Enters, TurnedTo
<1>5. ASSUME NEW p \in Process, NEW n \in Daemon, Runs(p, n) PROVE GateKept'
  <2>1. n.at \in 1..(Len(Chain) + 1)
    BY <1>0, <1>5 DEF Runs
  <2>. QED
    BY <1>2, <1>5, <2>1 DEF Runs
<1>6. ASSUME NEW p \in Process, NEW n \in Daemon, Stumbles(p, n) \/ Opens(p, n) \/ Falls(p, n)
      PROVE  GateKept'
  <2>1. /\ Turned(p, n) /\ n.step \in {"failed", "wiring", "down"}
        /\ gate' = IF gate = p THEN Free ELSE gate
    BY <1>6 DEF Stumbles, Opens, Falls, TurnedTo, Unlock
  <2>. QED
    BY <1>2, <2>1
<1>7. ASSUME NEW p \in Process, NEW n \in Daemon, Goes(p, n) PROVE GateKept'
  <2>1. /\ Turned(p, n) /\ gate' = gate /\ n.step \in BehindTheGate \cup {"refused", "failed"}
        /\ proc[p].step \in BehindTheGate
    BY <1>7 DEF Goes
  <2>2. gate # p
    BY <1>0, <2>1 DEF GateKept, BehindTheGate
  <2>. QED
    BY <1>2, <2>1, <2>2 DEF BehindTheGate
<1>8. ASSUME NEW p \in Process, IsCut(p) PROVE GateKept'
  BY <1>8 DEF GateKept, IsCut
<1>9. ASSUME NEW s \in Statements, Lands(s) PROVE GateKept'
  BY <1>9 DEF GateKept, Lands
<1>. QED
  BY <1>1, <1>3, <1>4, <1>5, <1>6, <1>7, <1>8, <1>9 DEF BootTold

LEMMA AloneStays ==
  ASSUME BootTypes, GateKept, Alone, BootTold
  PROVE  Alone'
<1>. SUFFICES ASSUME ~unguarded' PROVE Alone'
  BY DEF Alone
<1>0. Free \notin Process
  BY InstalledAssumption
<1>1. ~unguarded
  BY DEF BootTold, Begins, Enters, Runs, Stumbles, Opens, Goes, Falls, IsCut, Lands
<1>2. /\ inFlight = {}
      /\ \A p \in Process : proc[p].step = "migrating" => gate = p /\ Absent(proc[p].at, schema)
      /\ \A p \in Process : proc[p].why # "already exists"
  BY <1>1 DEF Alone
<1>3. ASSUME NEW p \in Process, NEW n \in Daemon, Turned(p, n), inFlight' = {}, schema' = schema,
             n.step # "migrating", n.why # "already exists",
             gate' = gate \/ (gate = p /\ gate' = Free)
      PROVE  Alone'
  <2>1. ASSUME NEW q \in Process, proc'[q].step = "migrating"
        PROVE  gate' = q /\ Absent(proc'[q].at, schema')
    <3>1. q # p /\ proc'[q] = proc[q]
      BY <1>3, <2>1, TurnedOnly
    <3>2. gate = q /\ Absent(proc[q].at, schema)
      BY <1>2, <2>1, <3>1
    <3>3. gate' = q
      BY <1>3, <3>1, <3>2
    <3>. QED
      BY <1>3, <3>1, <3>2, <3>3 DEF Absent
  <2>2. \A q \in Process : proc'[q].why # "already exists"
    BY <1>2, <1>3, TurnedOnly
  <2>. QED
    BY <1>3, <2>1, <2>2 DEF Alone
<1>4. CASE UNCHANGED <<schema, accounts, tenants, gate, inFlight, proc, torn, unguarded>>
  BY <1>4 DEF Alone, Absent
<1>5. ASSUME NEW p \in Process, NEW n \in Daemon, Begins(p, n) PROVE Alone'
  BY <1>2, <1>3, <1>5 DEF Begins
<1>6. ASSUME NEW p \in Process, NEW n \in Daemon, Enters(p, n) PROVE Alone'
  <2>1. /\ Turned(p, n) /\ gate = Free /\ gate' = p /\ schema' = schema /\ inFlight' = {}
        /\ n.at = 1 /\ n.why # "already exists"
    BY <1>2, <1>6 DEF Enters, TurnedTo, GateKept
  <2>2. ASSUME NEW q \in Process, proc'[q].step = "migrating"
        PROVE  gate' = q /\ Absent(proc'[q].at, schema')
    <3>1. q = p
      BY <1>0, <1>2, <2>1, <2>2, TurnedOnly
    <3>2. proc'[q].at = 1
      BY <2>1, <3>1, TurnedOnly
    <3>. QED
      BY <2>1, <3>1, <3>2, NothingBehindTheFirst
  <2>3. \A q \in Process : proc'[q].why # "already exists"
    BY <1>2, <2>1, TurnedOnly
  <2>. QED
    BY <2>1, <2>2, <2>3 DEF Alone
<1>7. ASSUME NEW p \in Process, NEW n \in Daemon, Runs(p, n) PROVE Alone'
  <2>. DEFINE i == proc[p].at
  <2>1. /\ Turned(p, n) /\ i \in 1..Len(Chain) /\ Execute(Chain[i]) /\ gate' = gate
        /\ inFlight' = {} /\ n.at = i + 1 /\ n.why # "already exists" /\ gate = p /\ Absent(i, schema)
    BY <1>2, <1>7 DEF Runs
  <2>. HIDE DEF i
  <2>2. Absent(i + 1, schema')
    BY <2>1, ExecutedOne
  <2>3. ASSUME NEW q \in Process, proc'[q].step = "migrating"
        PROVE  gate' = q /\ Absent(proc'[q].at, schema')
    <3>1. q = p
      BY <1>2, <2>1, <2>3, TurnedOnly
    <3>2. proc'[q].at = i + 1
      BY <2>1, <3>1, TurnedOnly
    <3>. QED
      BY <2>1, <2>2, <3>1, <3>2 DEF Absent
  <2>4. \A q \in Process : proc'[q].why # "already exists"
    BY <1>2, <2>1, TurnedOnly
  <2>. QED
    BY <2>1, <2>3, <2>4 DEF Alone
<1>8. ASSUME NEW p \in Process, NEW n \in Daemon, Stumbles(p, n) PROVE Alone'
  BY <1>2, <1>8, AddedWhereAbsent DEF Stumbles
<1>9. ASSUME NEW p \in Process, NEW n \in Daemon, Opens(p, n) \/ Falls(p, n) PROVE Alone'
  <2>1. /\ Turned(p, n) /\ n.step \in {"wiring", "down"} /\ n.why = proc[p].why
        /\ gate' = IF gate = p THEN Free ELSE gate
        /\ schema' = schema /\ inFlight' = {}
    BY <1>2, <1>9 DEF Opens, Falls, TurnedTo, Unlock
  <2>. QED
    BY <1>2, <1>3, <2>1
<1>10. ASSUME NEW p \in Process, NEW n \in Daemon, Goes(p, n) PROVE Alone'
  BY <1>2, <1>3, <1>10 DEF Goes, BehindTheGate
<1>11. ASSUME NEW p \in Process, IsCut(p) PROVE Alone'
  BY <1>11 DEF IsCut
<1>12. ASSUME NEW s \in Statements, Lands(s) PROVE Alone'
  BY <1>2, <1>12 DEF Lands
<1>. QED
  BY <1>4, <1>5, <1>6, <1>7, <1>8, <1>9, <1>10, <1>11, <1>12 DEF BootTold

LEMMA SettledStays ==
  ASSUME BootTypes, GateKept, Settled, BootTold
  PROVE  Settled'
<1>. SUFFICES ASSUME ~torn' PROVE Settled'
  BY DEF Settled
<1>0. Free \notin Process
  BY InstalledAssumption
<1>1. ASSUME ~torn
      PROVE  IF gate = Free
             THEN schema = Whole \/ \A p \in Process : proc[p].step \in {"down", "refused", "gating"}
             ELSE Built(proc[gate].at, schema)
  BY <1>1 DEF Settled
<1>2. CASE UNCHANGED <<schema, accounts, tenants, gate, inFlight, proc, torn, unguarded>>
  BY <1>2 DEF Settled, Built
<1>3. ASSUME NEW p \in Process, NEW n \in Daemon, Turned(p, n), ~torn, gate' = gate, gate # p,
             schema' = schema,
             n.step \in {"down", "refused", "gating"} \/ proc[p].step \notin {"down", "refused", "gating"}
      PROVE  Settled'
  <2>1. CASE gate = Free
    <3>1. schema = Whole \/ \A q \in Process : proc[q].step \in {"down", "refused", "gating"}
      BY <1>1, <1>3, <2>1
    <3>2. schema' = Whole \/ \A q \in Process : proc'[q].step \in {"down", "refused", "gating"}
      BY <1>3, <3>1, TurnedOnly
    <3>. QED
      BY <1>3, <2>1, <3>2 DEF Settled
  <2>2. CASE gate # Free
    <3>1. Built(proc[gate].at, schema) /\ proc'[gate] = proc[gate]
      BY <1>1, <1>3, <2>2, TurnedOnly DEF BootTypes
    <3>2. Built(proc'[gate'].at, schema')
      BY <1>3, <3>1 DEF Built
    <3>. QED
      BY <1>3, <2>2, <3>2 DEF Settled
  <2>. QED
    BY <2>1, <2>2
<1>4. ASSUME NEW p \in Process, NEW n \in Daemon, Begins(p, n) PROVE Settled'
  BY <1>0, <1>3, <1>4 DEF Begins, GateKept
<1>5. ASSUME NEW p \in Process, NEW n \in Daemon, Enters(p, n) PROVE Settled'
  <2>1. Turned(p, n) /\ n.at = 1 /\ gate' = p /\ schema' = schema
    BY <1>5 DEF Enters, TurnedTo, GateKept
  <2>2. proc'[gate'].at = 1
    BY <2>1, TurnedOnly
  <2>3. Built(proc'[gate'].at, schema')
    BY <2>2, NothingBehindTheFirst
  <2>. QED
    BY <1>0, <2>1, <2>3 DEF Settled
<1>6. ASSUME NEW p \in Process, NEW n \in Daemon, Runs(p, n) PROVE Settled'
  <2>. DEFINE i == proc[p].at
  <2>1. /\ Turned(p, n) /\ i \in 1..Len(Chain) /\ Execute(Chain[i]) /\ gate' = gate
        /\ n.at = i + 1 /\ gate = p /\ ~torn
    BY <1>6 DEF Runs, BootTypes
  <2>2. Built(i, schema)
    BY <1>0, <1>1, <2>1
  <2>. HIDE DEF i
  <2>3. Built(i + 1, schema')
    BY <2>1, <2>2, ExecutedOne
  <2>4. proc'[gate'].at = i + 1
    BY <2>1, TurnedOnly
  <2>5. Built(proc'[gate'].at, schema')
    BY <2>3, <2>4 DEF Built
  <2>. QED
    BY <1>0, <2>1, <2>5 DEF Settled
<1>7. ASSUME NEW p \in Process, NEW n \in Daemon, Stumbles(p, n) PROVE Settled'
  BY <1>7 DEF Stumbles
<1>8. ASSUME NEW p \in Process, NEW n \in Daemon, Opens(p, n) PROVE Settled'
  <2>1. /\ Turned(p, n) /\ n.step = "wiring" /\ proc[p].step = "migrating" /\ proc[p].at = Len(Chain) + 1
        /\ gate' = IF gate = p THEN Free ELSE gate
        /\ schema' = schema /\ ~torn
    BY <1>8 DEF Opens, TurnedTo, Unlock
  <2>2. CASE gate = p
    <3>1. schema = Whole
      BY <1>0, <1>1, <2>1, <2>2, BuiltIsWhole DEF BootTypes
    <3>. QED
      BY <2>1, <2>2, <3>1 DEF Settled
  <2>3. CASE gate # p
    BY <1>3, <2>1, <2>3
  <2>. QED
    BY <2>2, <2>3
<1>9. ASSUME NEW p \in Process, NEW n \in Daemon, Goes(p, n) PROVE Settled'
  <2>1. /\ Turned(p, n) /\ gate' = gate /\ schema' = schema /\ proc[p].step \in BehindTheGate /\ ~torn
    BY <1>9 DEF Goes
  <2>2. gate # p
    BY <1>0, <2>1 DEF GateKept, BehindTheGate
  <2>. QED
    BY <1>3, <2>1, <2>2 DEF BehindTheGate
<1>10. ASSUME NEW p \in Process, NEW n \in Daemon, Falls(p, n) PROVE Settled'
  <2>1. /\ Turned(p, n) /\ n.step = "down" /\ proc[p].step # "migrating" /\ ~torn
        /\ gate' = IF gate = p THEN Free ELSE gate
        /\ schema' = schema
    BY <1>10 DEF Falls, TurnedTo, Unlock, BootTypes
  <2>2. gate # p
    BY <1>0, <2>1 DEF GateKept
  <2>. QED
    BY <1>3, <2>1, <2>2
<1>11. ASSUME NEW p \in Process, IsCut(p) PROVE Settled'
  BY <1>11 DEF IsCut
<1>12. ASSUME NEW s \in Statements, Lands(s) PROVE Settled'
  BY <1>12 DEF Lands
<1>. QED
  BY <1>2, <1>4, <1>5, <1>6, <1>7, <1>8, <1>9, <1>10, <1>11, <1>12 DEF BootTold

\* Executing a statement or founding an account leaves an owner where there was one.
LEMMA ExecutedPeople ==
  ASSUME BootTypes, NEW s \in Statements, Execute(s), OneAddressEach
  PROVE  /\ OneAddressEach' /\ (Led => Led') /\ (HasOwner => HasOwner')
         /\ s.kind = "promote" => Led'
         /\ accounts' = << >> <=> accounts = << >>
<1>1. accounts \in Seq(Row)
  BY DEF BootTypes
<1>2. CASE s.kind = "promote"
  <2>1. accounts' = Promoted
    BY <1>2 DEF Execute
  <2>2. /\ DOMAIN accounts' = DOMAIN accounts
        /\ \A i \in DOMAIN accounts : accounts'[i].email = accounts[i].email
        /\ accounts' = << >> <=> accounts = << >>
        /\ accounts # << >> => \E i \in DOMAIN accounts' : accounts'[i].role = "owner"
    BY <1>1, <2>1, PromotedIs
  <2>3. OneAddressEach'
    BY <2>2 DEF OneAddressEach
  <2>4. Led'
    BY <2>2 DEF Led, HasOwner
  <2>5. HasOwner => accounts # << >>
    BY <1>1 DEF HasOwner
  <2>6. HasOwner => HasOwner'
    BY <2>2, <2>5 DEF HasOwner
  <2>. QED
    BY <2>2, <2>3, <2>4, <2>6
<1>3. CASE s.kind # "promote"
  <2>1. accounts' = accounts
    BY <1>3 DEF Execute
  <2>. QED
    BY <1>3, <2>1 DEF OneAddressEach, Led, HasOwner
<1>. QED
  BY <1>2, <1>3

LEMMA FoundedPeople ==
  ASSUME BootTypes, NEW p \in Process, Founds(p), OneAddressEach
  PROVE  OneAddressEach' /\ HasOwner' /\ Led'
<1>. DEFINE last == Len(accounts) + 1
<1>1. /\ Len(accounts) \in Nat /\ DOMAIN accounts = 1..Len(accounts)
      /\ DOMAIN accounts' = 1..last
      /\ \A i \in DOMAIN accounts : accounts'[i] = accounts[i]
      /\ accounts'[last].email = proc[p].env.admin /\ accounts'[last].role = "owner"
      /\ \A i \in DOMAIN accounts : accounts[i].email # proc[p].env.admin
  BY FoundedIs DEF Founds
<1>2. last \in DOMAIN accounts' /\ \A i \in DOMAIN accounts' : i \in DOMAIN accounts \/ i = last
  BY <1>1
<1>. HIDE DEF last
<1>3. OneAddressEach'
  BY <1>1, <1>2 DEF OneAddressEach
<1>4. HasOwner'
  BY <1>1, <1>2 DEF HasOwner
<1>. QED
  BY <1>3, <1>4 DEF Led

LEMMA PeopledStays ==
  ASSUME BootTypes, GateKept, Peopled, BootTold
  PROVE  Peopled'
<1>0. /\ accounts # << >> => "local" \in tenants
      /\ OneAddressEach
      /\ \A p \in Process :
           /\ Past(proc[p]) => Led
           /\ SawAnAccount(proc[p]) => HasOwner
           /\ proc[p].step = "hiring" => "local" \in tenants
  BY DEF Peopled
<1>1. ASSUME accounts' # << >> => "local" \in tenants', OneAddressEach', tenants \subseteq tenants',
             Led => Led', HasOwner => HasOwner',
             NEW p \in Process, NEW n \in Daemon, Turned(p, n),
             Past(n) => Led', SawAnAccount(n) => HasOwner', n.step = "hiring" => "local" \in tenants'
      PROVE  Peopled'
  <2>1. proc'[p] = n /\ \A q \in Process : q # p => proc'[q] = proc[q]
    BY <1>1, TurnedOnly
  <2>2. ASSUME NEW q \in Process
        PROVE  /\ Past(proc'[q]) => Led'
               /\ SawAnAccount(proc'[q]) => HasOwner'
               /\ proc'[q].step = "hiring" => "local" \in tenants'
    BY <1>0, <1>1, <2>1
  <2>3. \A q \in Process : (Past(proc[q]) => Led)' /\ (SawAnAccount(proc[q]) => HasOwner)'
    BY <2>2 DEF Past, SawAnAccount, Promoting
  <2>. QED
    BY <1>1, <2>2, <2>3 DEF Peopled
<1>2. ASSUME UNCHANGED <<accounts, tenants>>
      PROVE  /\ accounts' # << >> => "local" \in tenants'
             /\ OneAddressEach' /\ tenants \subseteq tenants'
             /\ (Led => Led') /\ (HasOwner => HasOwner')
  BY <1>0, <1>2 DEF OneAddressEach, Led, HasOwner
<1>3. CASE UNCHANGED <<schema, accounts, tenants, gate, inFlight, proc, torn, unguarded>>
  BY <1>0, <1>3 DEF Peopled, OneAddressEach, Led, HasOwner, Past, SawAnAccount, Promoting
<1>4. ASSUME NEW p \in Process, NEW n \in Daemon, Turned(p, n), UNCHANGED <<accounts, tenants>>,
             Past(n) => Led, ~SawAnAccount(n), n.step # "hiring"
      PROVE  Peopled'
  BY <1>1, <1>2, <1>4
<1>5. ASSUME NEW p \in Process, NEW n \in Daemon, Begins(p, n) PROVE Peopled'
  <2>1. ~Past(n) /\ ~SawAnAccount(n) /\ n.step # "hiring"
    BY <1>5 DEF Begins, Past, SawAnAccount, BehindTheGate
  <2>. QED
    BY <1>4, <1>5, <2>1 DEF Begins
<1>6. ASSUME NEW p \in Process, NEW n \in Daemon, Enters(p, n) PROVE Peopled'
  <2>1. n.at = 1 /\ n.step = "migrating"
    BY <1>6 DEF Enters, TurnedTo, GateKept
  <2>2. ~Past(n) /\ ~SawAnAccount(n) /\ n.step # "hiring"
    BY <2>1, NothingBehindTheFirst DEF Past, SawAnAccount, BehindTheGate
  <2>. QED
    BY <1>4, <1>6, <2>2 DEF Enters, TurnedTo
<1>7. ASSUME NEW p \in Process, NEW n \in Daemon, Runs(p, n) PROVE Peopled'
  <2>. DEFINE i == proc[p].at
              s == Chain[i]
  <2>1. /\ Turned(p, n) /\ n.step = "migrating" /\ n.at = i + 1 /\ proc[p].step = "migrating"
        /\ i \in 1..Len(Chain) /\ Execute(s) /\ tenants' = tenants /\ s \in Statements
    BY <1>7, StatementsAreTyped DEF Runs
  <2>2. /\ OneAddressEach' /\ (Led => Led') /\ (HasOwner => HasOwner')
        /\ s.kind = "promote" => Led'
        /\ accounts' = << >> <=> accounts = << >>
    BY <1>0, <2>1, ExecutedPeople
  <2>3. Promoting(n.at) => Promoting(i) \/ s.kind = "promote"
    <3>1. i \in Nat /\ n.at = i + 1
      BY <2>1
    <3>. HIDE DEF i
    <3>2. \A j \in 1..((i + 1) - 1) : j \in 1..(i - 1) \/ j = i
      BY <3>1
    <3>. QED
      BY <3>1, <3>2 DEF Promoting
  <2>4. Past(n) => Led'
    BY <1>0, <2>1, <2>2, <2>3 DEF Past, BehindTheGate
  <2>5. ~SawAnAccount(n) /\ n.step # "hiring"
    BY <2>1 DEF SawAnAccount
  <2>. HIDE DEF i, s
  <2>. QED
    BY <1>0, <1>1, <2>1, <2>2, <2>4, <2>5
<1>8. ASSUME NEW p \in Process, NEW n \in Daemon, Stumbles(p, n) \/ Falls(p, n) PROVE Peopled'
  <2>1. Turned(p, n) /\ n.step \in {"failed", "down"} /\ UNCHANGED <<accounts, tenants>>
    BY <1>8 DEF Stumbles, Falls, TurnedTo
  <2>2. ~Past(n) /\ ~SawAnAccount(n) /\ n.step # "hiring"
    BY <2>1 DEF Past, SawAnAccount, BehindTheGate
  <2>. QED
    BY <1>4, <2>1, <2>2
<1>9. ASSUME NEW p \in Process, NEW n \in Daemon, Opens(p, n) PROVE Peopled'
  <2>1. /\ Turned(p, n) /\ n.step = "wiring" /\ UNCHANGED <<accounts, tenants>>
        /\ proc[p].step = "migrating" /\ proc[p].at = Len(Chain) + 1
    BY <1>9 DEF Opens, TurnedTo
  <2>2. Promoting(Len(Chain) + 1)
    <3>1. Len(Chain) \in Nat /\ (Len(Chain) + 1) - 1 = Len(Chain)
      BY StatementsAreTyped
    <3>. QED
      BY <3>1, ChainAssumption DEF Promoting
  <2>3. Led
    BY <1>0, <2>1, <2>2 DEF Past
  <2>4. ~SawAnAccount(n) /\ n.step # "hiring"
    BY <2>1 DEF SawAnAccount
  <2>. QED
    BY <1>4, <2>1, <2>3, <2>4
<1>10. ASSUME NEW p \in Process, NEW n \in Daemon, Goes(p, n) PROVE Peopled'
  <2>1. /\ Turned(p, n) /\ proc[p].step \in BehindTheGate /\ tenants \subseteq tenants'
        /\ n.step = "hiring" => "local" \in tenants'
        /\ SawAnAccount(n) => accounts' # << >> \/ SawAnAccount(proc[p])
    BY <1>10 DEF Goes, SawAnAccount
  <2>2. Led
    BY <1>0, <2>1 DEF Past
  <2>3. CASE accounts' = accounts
    <3>1. Led' /\ OneAddressEach' /\ (HasOwner => HasOwner') /\ (HasOwner' => HasOwner)
      BY <1>0, <2>2, <2>3 DEF Led, HasOwner, OneAddressEach
    <3>2. SawAnAccount(n) => HasOwner'
      BY <1>0, <2>1, <3>1 DEF Led
    <3>. QED
      BY <1>0, <1>1, <2>1, <2>3, <3>1, <3>2
  <2>4. CASE Founds(p)
    <3>1. OneAddressEach' /\ HasOwner' /\ Led'
      BY <1>0, <2>4, FoundedPeople
    <3>2. "local" \in tenants
      BY <1>0, <2>4 DEF Founds
    <3>. QED
      BY <1>1, <2>1, <3>1, <3>2
  <2>. QED
    BY <1>10, <2>3, <2>4 DEF Goes
<1>11. ASSUME NEW p \in Process, IsCut(p) PROVE Peopled'
  BY <1>0, <1>11 DEF IsCut, Peopled, OneAddressEach, Led, HasOwner, Past, SawAnAccount, Promoting
<1>12. ASSUME NEW s \in Statements, Lands(s) PROVE Peopled'
  <2>1. /\ OneAddressEach' /\ (Led => Led') /\ (HasOwner => HasOwner')
        /\ accounts' = << >> <=> accounts = << >>
    BY <1>0, <1>12, ExecutedPeople DEF Lands, OneAddressEach, Led, HasOwner
  <2>2. UNCHANGED <<tenants, proc>>
    BY <1>12 DEF Lands
  <2>3. \A q \in Process : (Past(proc[q]) => Led)' /\ (SawAnAccount(proc[q]) => HasOwner)'
    BY <1>0, <2>1, <2>2 DEF Past, SawAnAccount, Promoting
  <2>. QED
    BY <1>0, <2>1, <2>2, <2>3 DEF Peopled
<1>. QED
  BY <1>3, <1>5, <1>6, <1>7, <1>8, <1>9, <1>10, <1>11, <1>12 DEF BootTold

LEMMA InitBoot == BootInit => BootInv
<1>. SUFFICES ASSUME BootInit PROVE BootInv
  OBVIOUS
<1>1. PICK release \in 0..Len(Chain) : schema = Names(release)
  BY DEF BootInit
<1>2. /\ accounts \in Installed \cup {<< >>}
      /\ tenants = IF accounts = << >> THEN {} ELSE {"local"}
      /\ gate = Free /\ inFlight = {} /\ torn = FALSE /\ unguarded = FALSE
  BY DEF BootInit
<1>3. proc \in [Process -> Daemon] /\ \A p \in Process : proc[p].step = "down" /\ proc[p].why = ""
  <2>. DEFINE e == CHOOSE e \in Environment : TRUE
              d == [step |-> "down", env |-> e, at |-> 0, why |-> ""]
  <2>1. proc = [p \in Process |-> d]
    BY DEF BootInit
  <2>2. e \in Environment
    BY InstalledAssumption
  <2>. HIDE DEF e
  <2>3. d \in Daemon /\ d.step = "down" /\ d.why = ""
    BY <2>2 DEF Daemon, BootStep
  <2>. HIDE DEF d
  <2>. QED
    BY <2>1, <2>3
<1>4. schema \subseteq Whole
  <2>1. Len(Chain) \in Nat
    BY StatementsAreTyped
  <2>2. \A j \in 1..release : j \in 1..Len(Chain)
    BY <2>1
  <2>. QED
    BY <1>1, <2>2 DEF Whole, Names
<1>5. accounts \in Seq(Row) /\ OneAddressEach
  <2>1. CASE accounts \in Installed
    BY <2>1, InstalledAssumption DEF Row, OneAddressEach
  <2>2. CASE accounts = << >>
    <3>1. accounts \in Seq(Row) /\ DOMAIN accounts = {}
      BY <2>2, EmptySeq
    <3>. QED
      BY <3>1 DEF OneAddressEach
  <2>. QED
    BY <1>2, <2>1, <2>2
<1>6. BootTypes
  BY <1>2, <1>3, <1>4, <1>5 DEF BootTypes
<1>7. GateKept
  BY <1>2, <1>3 DEF GateKept
<1>8. Alone
  BY <1>2, <1>3 DEF Alone
<1>9. Settled
  BY <1>2, <1>3 DEF Settled
<1>10. Peopled
  BY <1>2, <1>3, <1>5 DEF Peopled, Past, SawAnAccount, BehindTheGate
<1>. QED
  BY <1>6, <1>7, <1>8, <1>9, <1>10 DEF BootInv

\* Processes that start together do not make each other fail over a constraint unless a connection
\* died, whoever serves has the whole schema and an owner, and no address has two accounts (Apply
\* of src/db/migrations/embed.go, bootstrapIdentity of src/cmd/herosd/main.go): for any number of
\* processes, starts and deaths, and any chain that drops what it adds.
THEOREM BootingIsSafe == BootSpec => []BootIsSafe
<1>1. BootInv /\ [BootNext]_bootVars => BootInv'
  <2>1. ASSUME BootInv, [BootNext]_bootVars PROVE BootInv'
    <3>1. BootTold
      BY <2>1, BootStepCases DEF BootInv
    <3>. QED
      BY <2>1, <3>1, BootTypesStay, GateStays, AloneStays, SettledStays, PeopledStays DEF BootInv
  <2>. QED
    BY <2>1
<1>2. BootInv => BootIsSafe
  <2>. SUFFICES ASSUME BootInv PROVE BootIsSafe
    OBVIOUS
  <2>1. \A p \in Process : proc[p].why = "already exists" => unguarded
    BY DEF BootInv, Alone
  <2>2. ASSUME NEW p \in Process, proc[p].step = "serving"
        PROVE  /\ gate = Free /\ ~torn => schema = Whole
               /\ \E i \in DOMAIN accounts : accounts[i].role = "owner"
               /\ "local" \in tenants
    <3>1. HasOwner
      BY <2>2 DEF BootInv, Peopled, SawAnAccount
    <3>2. accounts # << >>
      BY <3>1 DEF HasOwner
    <3>. QED
      BY <2>2, <3>1, <3>2 DEF BootInv, Peopled, Settled, HasOwner
  <2>. QED
    BY <2>1, <2>2 DEF BootIsSafe, BootInv, Peopled, OneAddressEach
<1>. QED
  BY <1>1, <1>2, InitBoot, PTL DEF BootSpec
==============================================================================
