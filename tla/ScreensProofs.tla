---------------------------- MODULE ScreensProofs ----------------------------
(***************************************************************************)
(* What the two streams of the server may tell a screen: reminders, whose  *)
(* watcher and queues are counted and bounded, and the state of a run,     *)
(* which the panel is never shown ahead of the run or after its end.       *)
(***************************************************************************)
EXTENDS RemindersProps, FiniteSetTheorems, TLAPS

CONSTANTS MaxUpdates, MaxLosses, MaxRestarts

VARIABLES run, known, browser, shown, stream, poll, post, losses, restarts

\* The panel of a run; the queues of both streams are the event hub's.
Panel == INSTANCE RunPanelProps

-----------------------------------------------------------------------------
(* The reminders: the inductive invariant *)

Attachments == {"attaching", "subscribed", "abandoned"}
Stream == [tab : Tabs, at : Attachments \cup {"ended"}, up : BOOLEAN, queue : Seq(EverDue)]

\* A stream that is up is one the server has not given up, and the hub bounds its queue.
StreamFits(c) ==
  /\ c.up => c.at \in {"attaching", "subscribed"}
  /\ Len(c.queue) <= QueueSize
StreamsFit == streams \in Seq(Stream) /\ \A c \in DOMAIN streams : StreamFits(streams[c])

\* A scan of the current watcher finds it, however long EverOS takes.
ScanFits ==
  /\ watcher \in Watcher \cup {None}
  /\ scan.of = "current" => watcher # None

RemindersInv == TypeOK /\ StreamsFit /\ ScanFits /\ WatchersCounted

-----------------------------------------------------------------------------
(* What is due, and how it is published *)

\* What is due to anyone now is due to somebody at some time, and can be listed.
LEMMA CurrentFits ==
  ASSUME TypeOK, Warm
  PROVE  \A t : Current(t) \subseteq EverDue /\ IsFiniteSet(Current(t))
<1> SUFFICES ASSUME NEW t PROVE Current(t) \subseteq EverDue /\ IsFiniteSet(Current(t))
  OBVIOUS
<1>1. starts \in Ledgers /\ cache \in {"everos", "starters"} /\ now \in DOMAIN Moments
  BY RemindersAssumption DEF TypeOK, Warm
<1>2. DueAt[starts, cache, now] \subseteq EverDue
  <2> DEFINE keys == Ledgers \X {"everos", "starters"} \X DOMAIN Moments
  <2>1. <<starts, cache, now>> \in keys
    BY <1>1
  <2>2. EverDue = UNION {DueAt[k] : k \in keys}
    BY DEF EverDue
  <2> HIDE DEF keys
  <2>3. QED
    BY <2>1, <2>2, Zenon
<1>3. Current(t) \subseteq DueAt[starts, cache, now]
  <2> DEFINE due == DueAt[starts, cache, now]
  <2>1. Current(t) = IF Consent[t] # "reminders" THEN {} ELSE {r \in due : ~Answered(Id(r))}
    BY Zenon DEF Current
  <2> HIDE DEF due
  <2>2. Current(t) \subseteq due
    BY <2>1
  <2>3. QED
    BY <2>2 DEF due
<1>4. Current(t) \subseteq EverDue
  BY <1>2, <1>3, Zenon
<1>5. QED
  BY <1>4, DueAreListed, FS_Subset

\* The list of some of it is a sequence.
LEMMA ListedInOrder ==
  ASSUME NEW rs \in SUBSET EverDue, IsFiniteSet(rs), NEW list \in ByDue(rs)
  PROVE  list \in Seq(EverDue)
<1>1. Cardinality(rs) \in Nat
  BY FS_CardinalityType
<1>2. list \in [1..Cardinality(rs) -> rs]
  BY DEF ByDue
<1>3. list \in Seq(rs)
  BY <1>1, <1>2
<1>4. QED
  BY <1>3

\* So is the news of any watcher, and what it has announced then is ids of reminders.
LEMMA NewsFit ==
  ASSUME TypeOK, Warm
  PROVE  /\ \A w : \A news \in News(w) : news \in Seq(EverDue)
         /\ \A w \in Watcher : Told(w) \in Watcher /\ Told(w).subs = w.subs
<1>1. ASSUME NEW w, NEW news \in News(w) PROVE news \in Seq(EverDue)
  <2> DEFINE rs == {r \in Current(w.by) : Id(r) \notin w.announced}
  <2>1. Current(w.by) \subseteq EverDue /\ IsFiniteSet(Current(w.by))
    BY CurrentFits
  <2>2. rs \subseteq EverDue /\ IsFiniteSet(rs)
    BY <2>1, FS_Subset
  <2>3. news \in ByDue(rs)
    BY <1>1 DEF News
  <2>4. QED
    BY <2>2, <2>3, ListedInOrder
<1>2. ASSUME NEW w \in Watcher PROVE Told(w) \in Watcher /\ Told(w).subs = w.subs
  <2>1. Ids(Current(w.by)) \in SUBSET Ids(EverDue)
    BY CurrentFits DEF Ids
  <2>2. QED
    BY <2>1 DEF Told, Watcher
<1>3. QED
  BY <1>1, <1>2

\* The window that a full queue keeps: the newest, within the bound.
LEMMA WindowFits ==
  ASSUME NEW q \in Seq(EverDue), NEW news \in Seq(EverDue)
  PROVE  LET all == q \o news
             kept == SubSeq(all, Larger(1, Len(all) - QueueSize + 1), Len(all))
         IN kept \in Seq(EverDue) /\ Len(kept) <= QueueSize
<1> DEFINE all == q \o news
           from == Larger(1, Len(all) - QueueSize + 1)
           kept == SubSeq(all, from, Len(all))
<1>1. all \in Seq(EverDue) /\ Len(all) \in Nat
  OBVIOUS
<1>2. QueueSize \in Nat /\ QueueSize > 0
  BY RemindersAssumption
<1> HIDE DEF all
<1>3. from \in 1..(Len(all) + 1) /\ from >= Len(all) - QueueSize + 1
  BY <1>1, <1>2 DEF Larger
<1> HIDE DEF from
<1>4. kept \in Seq(EverDue)
  BY <1>1, <1>3
<1>5. Len(kept) = Len(all) - from + 1
  BY <1>1, <1>3
<1>6. Len(kept) <= QueueSize
  BY <1>1, <1>2, <1>3, <1>5
<1>7. QED
  BY <1>4, <1>6 DEF all, from

\* Publishing fills queues and moves no stream.
LEMMA PublishedFits ==
  ASSUME StreamsFit, NEW news \in Seq(EverDue)
  PROVE  /\ Published(news) \in Seq(Stream)
         /\ Len(Published(news)) = Len(streams)
         /\ \A c \in DOMAIN streams :
              /\ StreamFits(Published(news)[c])
              /\ Published(news)[c].at = streams[c].at
<1>1. /\ streams \in Seq(Stream) /\ Len(streams) \in Nat /\ DOMAIN streams = 1..Len(streams)
      /\ \A c \in DOMAIN streams : streams[c] \in Stream
  BY DEF StreamsFit
<1>2. ASSUME NEW c \in DOMAIN streams
      PROVE  /\ Published(news)[c] \in Stream
             /\ StreamFits(Published(news)[c])
             /\ Published(news)[c].at = streams[c].at
  <2>1. streams[c] \in Stream /\ streams[c].queue \in Seq(EverDue) /\ StreamFits(streams[c])
    <3>1. streams[c] \in Stream /\ StreamFits(streams[c])
      BY <1>1 DEF StreamsFit
    <3>2. QED
      BY <3>1 DEF Stream
  <2> DEFINE all == streams[c].queue \o news
             kept == SubSeq(all, Larger(1, Len(all) - QueueSize + 1), Len(all))
  <2>2. kept \in Seq(EverDue) /\ Len(kept) <= QueueSize
    BY <2>1, WindowFits
  <2>3. \/ Published(news)[c] = streams[c]
        \/ Published(news)[c] = [streams[c] EXCEPT !.queue = kept]
    BY DEF Published
  <2> HIDE DEF kept
  <2>4. [streams[c] EXCEPT !.queue = kept] \in Stream
    BY <2>1, <2>2 DEF Stream
  <2>5. QED
    BY <2>1, <2>2, <2>3, <2>4 DEF Stream, StreamFits
<1>3. Published(news) \in [1..Len(streams) -> Stream]
  <2>1. Published(news) = [c \in 1..Len(streams) |-> Published(news)[c]]
    BY <1>1 DEF Published
  <2>2. QED
    BY <1>1, <1>2, <2>1
<1>4. QED
  BY <1>1, <1>2, <1>3

-----------------------------------------------------------------------------
(* Streams counted *)

\* The streams that hold the watcher are counted one by one.
LEMMA HeldCounted ==
  ASSUME StreamsFit
  PROVE  /\ Held \subseteq DOMAIN streams /\ IsFiniteSet(Held) /\ Cardinality(Held) \in Nat
         /\ Cardinality(Held) = 0 <=> Held = {}
<1>1. Held \subseteq 1..Len(streams) /\ Len(streams) \in Nat
  BY DEF StreamsFit, Held
<1>2. IsFiniteSet(1..Len(streams))
  BY <1>1, FS_Interval
<1>3. IsFiniteSet(Held)
  BY <1>1, <1>2, FS_Subset
<1>4. Cardinality(Held) \in Nat /\ (Cardinality(Held) = 0 <=> Held = {})
  BY <1>3, FS_CardinalityType, FS_EmptySet
<1>5. QED
  BY <1>1, <1>3, <1>4 DEF StreamsFit

\* The ledger, the clock and the list of routines, apart from the streams.
LedgerFits ==
  /\ now \in 1..Len(Moments)
  /\ starts \in Ledgers
  /\ \A a \in answers : a.status \in {"dismissed", "accepted"}
  /\ \A a, b \in answers : a.id = b.id => a = b
  /\ cache \in {"cold", "everos", "starters"}
  /\ faults \in 0..MaxFaults

LEMMA RemindersParts ==
  RemindersInv <=> LedgerFits /\ StreamsFit /\ ScanFits /\ WatchersCounted
<1>1. StreamsFit => \A c \in DOMAIN streams :
                      /\ streams[c].at \in {"attaching", "subscribed", "ended", "abandoned"}
                      /\ streams[c].up => streams[c].at \in {"attaching", "subscribed"}
                      /\ Len(streams[c].queue) <= QueueSize
  <2> SUFFICES ASSUME StreamsFit, NEW c \in DOMAIN streams
               PROVE  /\ streams[c].at \in {"attaching", "subscribed", "ended", "abandoned"}
                      /\ streams[c].up => streams[c].at \in {"attaching", "subscribed"}
                      /\ Len(streams[c].queue) <= QueueSize
    OBVIOUS
  <2>1. streams[c] \in Stream /\ StreamFits(streams[c])
    BY DEF StreamsFit
  <2>2. QED
    BY <2>1 DEF Stream, StreamFits, Attachments
<1>2. QED
  BY <1>1 DEF RemindersInv, TypeOK, LedgerFits

\* The same after a step.
LEMMA RemindersPartsNext ==
  ASSUME LedgerFits', StreamsFit', ScanFits', WatchersCounted'
  PROVE  RemindersInv'
BY RemindersParts, PTL

\* An element of the streams is a stream.
LEMMA StreamAt ==
  ASSUME StreamsFit, NEW c \in DOMAIN streams
  PROVE  /\ streams \in Seq(Stream) /\ Len(streams) \in Nat
         /\ DOMAIN streams = 1..Len(streams) /\ c \in 1..Len(streams)
         /\ streams[c] \in Stream /\ StreamFits(streams[c])
BY DEF StreamsFit

\* A stream that fits in the place of another.
LEMMA StreamReplaced ==
  ASSUME NEW ss \in Seq(Stream), NEW c \in DOMAIN ss, NEW s \in Stream
  PROVE  LET all == [ss EXCEPT ![c] = s]
         IN /\ all \in Seq(Stream) /\ Len(all) = Len(ss) /\ DOMAIN all = DOMAIN ss
            /\ all[c] = s /\ \A d \in DOMAIN ss : d # c => all[d] = ss[d]
OBVIOUS

\* The server's side of the streams, whatever else a step does: no stream attaches and none
\* is given up, and the watcher and its count stay.
SameStreams(ss) ==
  /\ ss \in Seq(Stream) /\ Len(ss) = Len(streams)
  /\ \A c \in DOMAIN streams :
       StreamFits(ss[c]) /\ (ss[c].at \in Attachments <=> streams[c].at \in Attachments)
SameWatcher ==
  /\ watcher' \in Watcher \cup {None} /\ (watcher' = None <=> watcher = None)
  /\ watcher # None => watcher'.subs = watcher.subs
  /\ scan'.of = "current" => watcher # None

LEMMA StreamsKept ==
  ASSUME RemindersInv, SameStreams(streams'), SameWatcher
  PROVE  StreamsFit' /\ ScanFits' /\ WatchersCounted'
<1>1. /\ streams \in Seq(Stream) /\ Len(streams) \in Nat /\ DOMAIN streams = 1..Len(streams)
      /\ streams' \in Seq(Stream) /\ DOMAIN streams' = 1..Len(streams)
  BY DEF RemindersInv, StreamsFit, SameStreams
<1>2. Held' = Held
  BY <1>1 DEF Held, SameStreams, Attachments
<1>3. StreamsFit'
  BY <1>1 DEF StreamsFit, SameStreams
<1>4. ScanFits'
  BY DEF ScanFits, SameWatcher
<1>5. WatchersCounted'
  BY <1>2 DEF WatchersCounted, SameWatcher, RemindersInv
<1>6. QED
  BY <1>3, <1>4, <1>5

LEMMA StreamsUntouched ==
  ASSUME RemindersInv, UNCHANGED streams
  PROVE  SameStreams(streams')
BY DEF RemindersInv, StreamsFit, SameStreams

LEMMA WatcherUntouched ==
  ASSUME RemindersInv, UNCHANGED <<watcher, scan>>
  PROVE  SameWatcher
BY DEF RemindersInv, ScanFits, SameWatcher

LEMMA PublishedSame ==
  ASSUME RemindersInv, NEW news \in Seq(EverDue)
  PROVE  SameStreams(Published(news))
BY PublishedFits DEF RemindersInv, SameStreams

\* A stream more, and one more counted.
LEMMA StreamOpened ==
  ASSUME RemindersInv, NEW ss, SameStreams(ss), NEW t \in Tabs,
         NEW at \in {"attaching", "subscribed"}, streams' = Append(ss, NewStream(t, at)),
         watcher' \in Watcher, watcher'.subs = Registered(t).subs, UNCHANGED scan
  PROVE  StreamsFit' /\ ScanFits' /\ WatchersCounted'
<1> DEFINE n == Len(streams)
<1>1. /\ streams \in Seq(Stream) /\ n \in Nat /\ DOMAIN streams = 1..n
      /\ ss \in Seq(Stream) /\ Len(ss) = n
  BY DEF RemindersInv, StreamsFit, SameStreams
<1>2. NewStream(t, at) \in Stream /\ StreamFits(NewStream(t, at))
  <2>1. QueueSize \in Nat
    BY RemindersAssumption
  <2>2. QED
    BY <2>1 DEF NewStream, Stream, StreamFits, Attachments
<1>3. /\ streams' \in Seq(Stream) /\ DOMAIN streams' = 1..(n + 1)
      /\ streams'[n + 1] = NewStream(t, at) /\ \A c \in 1..n : streams'[c] = ss[c]
  BY <1>1, <1>2
<1>4. StreamsFit'
  BY <1>1, <1>2, <1>3 DEF StreamsFit, SameStreams
<1>5. Held' = Held \cup {n + 1}
  <2>1. streams'[n + 1].at \in Attachments
    BY <1>3 DEF NewStream, Attachments
  <2>2. QED
    BY <1>1, <1>3, <2>1 DEF Held, SameStreams, Attachments
<1>6. n + 1 \notin Held
  BY <1>1 DEF Held
<1>7. IsFiniteSet(Held) /\ Cardinality(Held) \in Nat /\ (Cardinality(Held) = 0 <=> Held = {})
  BY HeldCounted DEF RemindersInv
<1>8. Cardinality(Held') = Cardinality(Held) + 1
  BY <1>5, <1>6, <1>7, FS_AddElement
<1>9. watcher' # None
  BY NoneIsNoWatcher
<1>10. Registered(t).subs = Cardinality(Held) + 1
  <2>1. CASE watcher = None
    BY <1>7, <2>1 DEF Registered, RemindersInv, WatchersCounted
  <2>2. CASE watcher # None
    BY <2>2 DEF Registered, RemindersInv, WatchersCounted, ScanFits, Watcher
  <2>3. QED
    BY <2>1, <2>2
<1>11. WatchersCounted'
  BY <1>5, <1>8, <1>9, <1>10 DEF WatchersCounted
<1>12. ScanFits'
  BY <1>9 DEF ScanFits, RemindersInv
<1>13. QED
  BY <1>4, <1>11, <1>12

\* A stream less, and one less counted; the last takes the watcher with it.
LEMMA StreamEnded ==
  ASSUME RemindersInv, NEW c \in DOMAIN streams, streams[c].at = "subscribed", Detached,
         NEW ended \in Stream, StreamFits(ended), ended.at = "ended",
         streams' = [streams EXCEPT ![c] = ended]
  PROVE  StreamsFit' /\ ScanFits' /\ WatchersCounted'
<1>1. streams \in Seq(Stream) /\ Len(streams) \in Nat /\ DOMAIN streams = 1..Len(streams)
  BY StreamAt DEF RemindersInv
<1>2. /\ streams' \in Seq(Stream) /\ DOMAIN streams' = DOMAIN streams /\ streams'[c] = ended
      /\ \A d \in DOMAIN streams : d # c => streams'[d] = streams[d]
  BY <1>1, StreamReplaced
<1>3. StreamsFit'
  BY <1>2 DEF StreamsFit, RemindersInv
<1>4. Held' = Held \ {c} /\ c \in Held
  BY <1>2 DEF Held
<1>5. IsFiniteSet(Held) /\ Cardinality(Held) \in Nat
  BY HeldCounted DEF RemindersInv
<1>6. Cardinality(Held') = Cardinality(Held) - 1 /\ IsFiniteSet(Held')
  BY <1>4, <1>5, FS_RemoveElement
<1>7. Cardinality(Held') = 0 <=> Held' = {}
  BY <1>6, FS_EmptySet
<1>8. watcher # None /\ watcher \in Watcher /\ watcher.subs = Cardinality(Held)
  BY <1>4 DEF RemindersInv, WatchersCounted, ScanFits
<1>9. watcher' \in Watcher \cup {None} /\ WatchersCounted'
  <2>1. CASE watcher.subs > 1
    <3>1. watcher' = [watcher EXCEPT !.subs = @ - 1]
      BY <2>1 DEF Detached
    <3>2. watcher' \in Watcher /\ watcher'.subs = Cardinality(Held')
      BY <1>5, <1>6, <1>8, <2>1, <3>1 DEF Watcher
    <3>3. watcher' # None
      BY <3>2, NoneIsNoWatcher
    <3>4. QED
      BY <1>5, <1>6, <1>7, <1>8, <2>1, <3>2, <3>3 DEF WatchersCounted
  <2>2. CASE ~(watcher.subs > 1)
    <3>1. watcher' = None
      BY <2>2 DEF Detached
    <3>2. Cardinality(Held) # 0
      BY <1>4, HeldCounted DEF RemindersInv
    <3>3. Held' = {}
      BY <1>5, <1>6, <1>7, <1>8, <2>2, <3>2
    <3>4. QED
      BY <3>1, <3>3 DEF WatchersCounted
  <2>3. QED
    BY <2>1, <2>2
<1>10. scan'.of = "current" => watcher' # None
  <2>1. CASE scan.of = "current" /\ watcher.subs <= 1
    BY <2>1 DEF Detached
  <2>2. CASE ~(scan.of = "current" /\ watcher.subs <= 1)
    <3>1. scan' = scan
      BY <2>2 DEF Detached
    <3>2. scan.of = "current" => watcher.subs > 1
      BY <1>5, <1>8, <2>2
    <3>3. scan.of = "current" => watcher' = [watcher EXCEPT !.subs = @ - 1]
      BY <3>2 DEF Detached
    <3>4. scan.of = "current" => watcher' \in Watcher
      BY <1>8, <1>5, <3>2, <3>3 DEF Watcher
    <3>5. QED
      BY <3>1, <3>4, NoneIsNoWatcher
  <2>3. QED
    BY <2>1, <2>2
<1>11. QED
  BY <1>3, <1>9, <1>10 DEF ScanFits

-----------------------------------------------------------------------------
(* The steps *)

LEMMA LedgerUntouched ==
  ASSUME RemindersInv, UNCHANGED <<now, starts, answers, cache, faults>>
  PROVE  LedgerFits'
BY RemindersParts DEF LedgerFits

LEMMA RegisteredFits ==
  ASSUME RemindersInv, NEW t \in Tabs
  PROVE  Registered(t) \in Watcher
<1>1. CASE watcher = None
  BY <1>1 DEF Registered, Watcher
<1>2. CASE watcher # None
  <2>1. watcher \in Watcher
    BY <1>2 DEF RemindersInv, ScanFits
  <2>2. Registered(t) = [watcher EXCEPT !.by = t, !.subs = watcher.subs + 1]
    BY <1>2, <2>1 DEF Registered
  <2> DEFINE ids == Ids(EverDue)
  <2>3. Watcher = [subs : Nat, by : Tabs, announced : SUBSET ids]
    BY DEF Watcher
  <2> HIDE DEF ids
  <2>4. watcher.subs + 1 \in Nat
    BY <2>1, <2>3
  <2>5. QED
    BY <2>1, <2>2, <2>3, <2>4
<1>3. QED
  BY <1>1, <1>2

\* A warm connection is a subscriber at once; a cold one waits.
LEMMA ConnectFits ==
  ASSUME RemindersInv, NEW t \in Tabs, Connect(t)
  PROVE  RemindersInv'
<1>1. LedgerFits' /\ UNCHANGED scan
  BY LedgerUntouched DEF Connect, ledger
<1>2. Registered(t) \in Watcher
  BY RegisteredFits
<1>3. StreamsFit' /\ ScanFits' /\ WatchersCounted'
  <2>1. CASE Warm /\ \E w \in {Registered(t)} : \E news \in News(w) :
               /\ watcher' = Told(w)
               /\ streams' = Append(Published(news), NewStream(t, "subscribed"))
    <3>1. PICK news \in News(Registered(t)) :
                 /\ watcher' = Told(Registered(t))
                 /\ streams' = Append(Published(news), NewStream(t, "subscribed"))
      BY <2>1
    <3>2. news \in Seq(EverDue) /\ watcher' \in Watcher /\ watcher'.subs = Registered(t).subs
      BY <1>2, <2>1, <3>1, NewsFit DEF RemindersInv
    <3>3. SameStreams(Published(news))
      BY <3>2, PublishedSame
    <3>4. QED
      BY <1>1, <3>1, <3>2, <3>3, StreamOpened
  <2>2. CASE /\ watcher' = Registered(t)
             /\ streams' = Append(streams, NewStream(t, "attaching"))
    <3>1. SameStreams(streams)
      BY DEF SameStreams, RemindersInv, StreamsFit
    <3>2. QED
      BY <1>1, <1>2, <2>2, <3>1, StreamOpened
  <2>3. QED
    BY <2>1, <2>2 DEF Connect
<1>4. QED
  BY <1>1, <1>3, RemindersPartsNext

\* The second half of attach finds the watcher its first half counted it with.
LEMMA AttachedFits ==
  ASSUME RemindersInv, NEW c \in DOMAIN streams, Attached(c)
  PROVE  RemindersInv'
<1>1. LedgerFits' /\ UNCHANGED scan /\ Warm /\ streams[c].at = "attaching"
  BY LedgerUntouched DEF Attached, ledger
<1>2. watcher \in Watcher
  <2>1. c \in Held
    BY <1>1 DEF Held
  <2>2. QED
    BY <2>1 DEF RemindersInv, WatchersCounted, ScanFits
<1>3. PICK news \in News(watcher) : streams' = [Published(news) EXCEPT ![c].at = "subscribed"]
  BY DEF Attached
<1>4. watcher' = Told(watcher) /\ watcher' \in Watcher /\ watcher'.subs = watcher.subs
      /\ news \in Seq(EverDue)
  BY <1>1, <1>2, <1>3, NewsFit DEF Attached, RemindersInv
<1>5. SameWatcher
  BY <1>1, <1>2, <1>4, NoneIsNoWatcher DEF SameWatcher
<1>6. SameStreams(Published(news))
  BY <1>4, PublishedSame
<1> DEFINE ps == Published(news)
           joined == [ps[c] EXCEPT !.at = "subscribed"]
<1>7. streams' = [ps EXCEPT ![c] = joined]
  BY <1>3
<1>8. /\ ps \in Seq(Stream) /\ Len(ps) = Len(streams) /\ ps[c] \in Stream /\ StreamFits(ps[c])
      /\ c \in DOMAIN ps /\ DOMAIN ps = DOMAIN streams
  BY <1>6, StreamAt DEF SameStreams, RemindersInv
<1>9. joined \in Stream /\ StreamFits(joined) /\ joined.at = "subscribed"
  <2> HIDE DEF ps
  <2>1. QED
    BY <1>8 DEF Stream, StreamFits, Attachments
<1> HIDE DEF ps, joined
<1>10. SameStreams(streams')
  <2>1. /\ streams' \in Seq(Stream) /\ Len(streams') = Len(ps) /\ streams'[c] = joined
        /\ \A d \in DOMAIN ps : d # c => streams'[d] = ps[d]
    BY <1>7, <1>8, <1>9, StreamReplaced
  <2>2. ASSUME NEW d \in DOMAIN streams
        PROVE  /\ StreamFits(streams'[d])
               /\ streams'[d].at \in Attachments <=> streams[d].at \in Attachments
    <3>1. CASE d = c
      BY <1>1, <1>9, <2>1, <3>1 DEF Attachments
    <3>2. CASE d # c
      BY <1>6, <1>8, <2>1, <3>2 DEF SameStreams, ps
    <3>3. QED
      BY <3>1, <3>2
  <2>3. QED
    BY <1>8, <2>1, <2>2 DEF SameStreams
<1>11. QED
  BY <1>1, <1>5, <1>10, StreamsKept, RemindersPartsNext

\* One stream in the place of another that counts as much.
LEMMA OneStreamMoves ==
  ASSUME RemindersInv, NEW c \in DOMAIN streams, NEW s \in Stream, StreamFits(s),
         s.at \in Attachments <=> streams[c].at \in Attachments
  PROVE  SameStreams([streams EXCEPT ![c] = s])
<1> DEFINE all == [streams EXCEPT ![c] = s]
<1>1. streams \in Seq(Stream)
  BY DEF RemindersInv, StreamsFit
<1>2. /\ all \in Seq(Stream) /\ Len(all) = Len(streams)
      /\ all[c] = s /\ \A d \in DOMAIN streams : d # c => all[d] = streams[d]
  BY <1>1, StreamReplaced
<1> HIDE DEF all
<1>3. SameStreams(all)
  BY <1>2 DEF SameStreams, RemindersInv, StreamsFit
<1>4. QED
  BY <1>3 DEF all

\* An empty or shortened queue of a stream that is up, or no longer.
LEMMA StreamShrinks ==
  ASSUME RemindersInv, NEW c \in DOMAIN streams, NEW up \in BOOLEAN, up => streams[c].up,
         NEW q \in Seq(EverDue), Len(q) <= QueueSize
  PROVE  LET s == [streams[c] EXCEPT !.up = up, !.queue = q]
         IN s \in Stream /\ StreamFits(s) /\ s.at = streams[c].at
<1>1. streams[c] \in Stream /\ StreamFits(streams[c])
  BY StreamAt DEF RemindersInv
<1>2. QED
  BY <1>1 DEF Stream, StreamFits

LEMMA NoQueue == <<>> \in Seq(EverDue) /\ Len(<<>>) <= QueueSize
BY RemindersAssumption

LEMMA BreaksFits ==
  ASSUME RemindersInv, NEW c \in DOMAIN streams, Breaks(c)
  PROVE  RemindersInv'
<1>1. LedgerFits' /\ UNCHANGED <<watcher, scan>>
  BY LedgerUntouched DEF Breaks, ledger, server
<1> DEFINE s == [streams[c] EXCEPT !.up = FALSE, !.queue = <<>>]
<1>2. s \in Stream /\ StreamFits(s) /\ s.at = streams[c].at
  BY StreamShrinks, NoQueue
<1>3. streams' = [streams EXCEPT ![c] = s]
  BY DEF Breaks
<1> HIDE DEF s
<1>4. SameStreams(streams')
  BY <1>2, <1>3, OneStreamMoves
<1>5. QED
  BY <1>1, <1>4, WatcherUntouched, StreamsKept, RemindersPartsNext

LEMMA ArrivesFits ==
  ASSUME RemindersInv, NEW c \in DOMAIN streams, Arrives(c)
  PROVE  RemindersInv'
<1>1. LedgerFits' /\ UNCHANGED <<watcher, scan>>
  BY LedgerUntouched DEF Arrives, ledger, server
<1> DEFINE q == Tail(streams[c].queue)
           s == [streams[c] EXCEPT !.queue = q]
<1>2. streams[c] \in Stream /\ StreamFits(streams[c]) /\ streams[c].queue # <<>>
  BY StreamAt DEF RemindersInv, Arrives
<1>3. q \in Seq(EverDue) /\ Len(q) <= QueueSize
  <2>1. streams[c].queue \in Seq(EverDue) /\ Len(streams[c].queue) <= QueueSize
    BY <1>2 DEF Stream, StreamFits
  <2>2. QED
    BY <1>2, <2>1, RemindersAssumption
<1>4. streams' = [streams EXCEPT ![c] = s]
  BY DEF Arrives
<1> HIDE DEF q
<1>5. s \in Stream /\ StreamFits(s) /\ s.at = streams[c].at
  BY <1>2, <1>3 DEF Stream, StreamFits
<1> HIDE DEF s
<1>6. SameStreams(streams')
  BY <1>4, <1>5, OneStreamMoves
<1>7. QED
  BY <1>1, <1>6, WatcherUntouched, StreamsKept, RemindersPartsNext

\* detach of a subscribed stream, or a response that ends before attach returns.
LEMMA NoticesFits ==
  ASSUME RemindersInv, NEW c \in DOMAIN streams, Notices(c)
  PROVE  RemindersInv'
<1>1. LedgerFits' /\ ~streams[c].up
  BY LedgerUntouched DEF Notices, ledger
<1>2. streams[c] \in Stream /\ StreamFits(streams[c])
  BY StreamAt DEF RemindersInv
<1>3. CASE /\ streams[c].at = "subscribed" /\ Detached
           /\ streams' = [streams EXCEPT ![c].at = "ended", ![c].queue = <<>>]
  <2> DEFINE s == [streams[c] EXCEPT !.at = "ended", !.queue = <<>>]
  <2>1. s \in Stream /\ StreamFits(s) /\ s.at = "ended"
    BY <1>1, <1>2, NoQueue DEF Stream, StreamFits
  <2>2. streams' = [streams EXCEPT ![c] = s]
    BY <1>3
  <2> HIDE DEF s
  <2>3. QED
    BY <1>1, <1>3, <2>1, <2>2, StreamEnded, RemindersPartsNext
<1>4. CASE /\ streams[c].at = "attaching" /\ UNCHANGED <<watcher, scan>>
           /\ streams' = [streams EXCEPT ![c].at = "abandoned"]
  <2> DEFINE s == [streams[c] EXCEPT !.at = "abandoned"]
  <2>1. s \in Stream /\ StreamFits(s) /\ s.at = "abandoned"
    BY <1>1, <1>2 DEF Stream, StreamFits, Attachments
  <2>2. streams' = [streams EXCEPT ![c] = s]
    BY <1>4
  <2> HIDE DEF s
  <2>3. SameStreams(streams')
    BY <1>4, <2>1, <2>2, OneStreamMoves DEF Attachments
  <2>4. QED
    BY <1>1, <1>4, <2>3, WatcherUntouched, StreamsKept, RemindersPartsNext
<1>5. QED
  BY <1>3, <1>4 DEF Notices

\* An evaluation for the watcher, or for one that a scan still holds.
LEMMA ScanBeginsFits ==
  ASSUME RemindersInv, ScanBegins
  PROVE  RemindersInv'
<1>1. LedgerFits' /\ watcher # None /\ scan = NoScan /\ watcher \in Watcher
  BY LedgerUntouched DEF ScanBegins, ledger, RemindersInv, ScanFits
<1>2. CASE Warm
  <2>1. PICK news \in News(watcher) : streams' = Published(news)
    BY <1>2 DEF ScanBegins
  <2>2. /\ watcher' = Told(watcher) /\ watcher' \in Watcher /\ watcher'.subs = watcher.subs
        /\ news \in Seq(EverDue) /\ UNCHANGED scan
    BY <1>1, <1>2, <2>1, NewsFit DEF ScanBegins, RemindersInv
  <2>3. SameWatcher
    BY <1>1, <2>2, NoneIsNoWatcher DEF SameWatcher
  <2>4. QED
    BY <1>1, <2>1, <2>2, <2>3, PublishedSame, StreamsKept, RemindersPartsNext
<1>3. CASE ~Warm
  <2>1. UNCHANGED <<watcher, streams>>
    BY <1>3 DEF ScanBegins
  <2>2. SameWatcher
    BY <1>1, <2>1 DEF SameWatcher
  <2>3. QED
    BY <1>1, <2>1, <2>2, StreamsUntouched, StreamsKept, RemindersPartsNext
<1>4. QED
  BY <1>2, <1>3

LEMMA ScanEndsFits ==
  ASSUME RemindersInv, ScanEnds
  PROVE  RemindersInv'
<1>1. LedgerFits' /\ scan' = NoScan /\ Warm
  BY LedgerUntouched DEF ScanEnds, ledger
<1> DEFINE w == IF scan.of = "current" THEN watcher ELSE scan.old
<1>2. PICK news \in News(w) :
        /\ streams' = Published(news)
        /\ watcher' = IF scan.of = "current" THEN Told(w) ELSE watcher
  BY DEF ScanEnds
<1>3. news \in Seq(EverDue)
  BY <1>1, <1>2, NewsFit DEF RemindersInv
<1>4. SameStreams(streams')
  BY <1>2, <1>3, PublishedSame
<1>5. scan'.of # "current"
  BY <1>1 DEF NoScan
<1>6. SameWatcher
  <2>1. CASE scan.of = "current"
    <3>1. watcher \in Watcher /\ watcher' = Told(watcher)
      BY <1>2, <2>1 DEF RemindersInv, ScanFits
    <3>2. watcher' \in Watcher /\ watcher'.subs = watcher.subs
      BY <1>1, <3>1, NewsFit DEF RemindersInv
    <3>3. QED
      BY <1>5, <3>1, <3>2, NoneIsNoWatcher DEF SameWatcher
  <2>2. CASE scan.of # "current"
    BY <1>2, <1>5, <2>2 DEF SameWatcher, RemindersInv, ScanFits
  <2>3. QED
    BY <2>1, <2>2
<1>7. QED
  BY <1>1, <1>4, <1>6, StreamsKept, RemindersPartsNext

\* Steps that leave the watcher, the scan and the streams alone.
LEMMA OutsideMoves ==
  ASSUME RemindersInv, UNCHANGED <<watcher, scan, streams>>, LedgerFits'
  PROVE  RemindersInv'
BY StreamsUntouched, WatcherUntouched, StreamsKept, RemindersPartsNext

LEMMA RoutinesFit ==
  ASSUME RemindersInv, RoutinesRead \/ CacheExpires \/ TimePasses
  PROVE  RemindersInv'
<1>1. LedgerFits /\ MaxFaults \in Nat /\ Len(Moments) \in Nat
  BY RemindersParts, RemindersAssumption
<1>2. LedgerFits' /\ UNCHANGED <<watcher, scan, streams>>
  <2>1. CASE RoutinesRead
    BY <1>1, <2>1 DEF RoutinesRead, LedgerFits, ledger
  <2>2. CASE CacheExpires
    BY <1>1, <2>2 DEF CacheExpires, LedgerFits, ledger
  <2>3. CASE TimePasses
    BY <1>1, <2>3 DEF TimePasses, LedgerFits, ledger, server
  <2>4. QED
    BY <2>1, <2>2, <2>3
<1>3. QED
  BY <1>2, OutsideMoves

LEMMA ScreenFits ==
  ASSUME RemindersInv, NEW t \in Tabs,
         \/ Opens(t) \/ ListServed(t) \/ ListArrives(t) \/ ListFails(t)
         \/ Dismisses(t) \/ Accepts(t) \/ PostLost(t)
  PROVE  RemindersInv'
<1>1. UNCHANGED <<now, ledger, server, streams>>
  BY DEF Opens, ListServed, ListArrives, ListFails, Dismisses, Accepts, PostLost
<1>2. QED
  BY <1>1, LedgerUntouched, OutsideMoves DEF ledger, server

\* A reminder keeps one answer, its last.
LEMMA ActedFits ==
  ASSUME LedgerFits, NEW id, NEW status \in {"dismissed", "accepted"}, NEW until,
         answers' = Acted(id, status, until)
  PROVE  /\ \A a \in answers' : a.status \in {"dismissed", "accepted"}
         /\ \A a, b \in answers' : a.id = b.id => a = b
<1> DEFINE answer == [id |-> id, status |-> status, until |-> until]
<1>1. \A a \in answers' : a = answer \/ (a \in answers /\ a.id # id)
  BY DEF Acted, AnswerOf
<1>2. answer.id = id /\ answer.status = status
  OBVIOUS
<1> HIDE DEF answer
<1>3. QED
  BY <1>1, <1>2 DEF LedgerFits

LEMMA DismissServedFits ==
  ASSUME RemindersInv, NEW t \in Tabs, DismissServed(t)
  PROVE  RemindersInv'
<1>1. LedgerFits /\ UNCHANGED <<now, starts, cache, scan, faults, streams>>
  BY RemindersParts DEF DismissServed
<1> DEFINE id == screen[t].post.id
<1>2. CASE UNCHANGED <<answers, watcher>>
  BY <1>1, <1>2, LedgerUntouched, OutsideMoves
<1>3. CASE /\ answers' = Acted(id, "dismissed", Clock + Snooze)
           /\ watcher' = IF watcher = None THEN None
                         ELSE [watcher EXCEPT !.announced = @ \ {id}]
  <2>1. LedgerFits'
    <3>1. /\ \A a \in answers' : a.status \in {"dismissed", "accepted"}
          /\ \A a, b \in answers' : a.id = b.id => a = b
      BY <1>1, <1>3, ActedFits
    <3>2. QED
      BY <1>1, <3>1 DEF LedgerFits
  <2>2. SameWatcher
    <3>1. CASE watcher = None
      BY <1>1, <1>3, <3>1 DEF SameWatcher, RemindersInv, ScanFits
    <3>2. CASE watcher # None
      <4>1. watcher \in Watcher /\ watcher' = [watcher EXCEPT !.announced = @ \ {id}]
        BY <1>3, <3>2 DEF RemindersInv, ScanFits
      <4>2. watcher' \in Watcher /\ watcher'.subs = watcher.subs
        BY <4>1 DEF Watcher
      <4>3. QED
        BY <1>1, <3>2, <4>2, NoneIsNoWatcher DEF SameWatcher
    <3>3. QED
      BY <3>1, <3>2
  <2>3. QED
    BY <1>1, <2>1, <2>2, StreamsUntouched, StreamsKept, RemindersPartsNext
<1>4. QED
  BY <1>2, <1>3 DEF DismissServed

LEMMA AcceptServedFits ==
  ASSUME RemindersInv, NEW t \in Tabs, AcceptServed(t)
  PROVE  RemindersInv'
<1>1. LedgerFits /\ UNCHANGED <<now, server, streams>>
  BY RemindersParts DEF AcceptServed
<1> DEFINE id == screen[t].post.id
<1>2. CASE UNCHANGED ledger
  BY <1>1, <1>2, LedgerUntouched, OutsideMoves DEF server, ledger
<1>3. CASE answers' = Acted(id, "accepted", Clock) /\ starts' \in Ledgers
  <2>1. /\ \A a \in answers' : a.status \in {"dismissed", "accepted"}
        /\ \A a, b \in answers' : a.id = b.id => a = b
    BY <1>1, <1>3, ActedFits
  <2>2. LedgerFits'
    BY <1>1, <1>3, <2>1 DEF LedgerFits, server
  <2>3. QED
    BY <1>1, <2>2, OutsideMoves DEF server
<1>4. QED
  BY <1>2, <1>3 DEF AcceptServed

\* A launcher that goes closes its streams, which the server finds out later.
LEMMA HangsUpSame ==
  ASSUME RemindersInv, NEW t \in Tabs
  PROVE  SameStreams(HangsUp(t))
<1>1. streams \in Seq(Stream) /\ Len(streams) \in Nat /\ DOMAIN streams = 1..Len(streams)
  BY DEF RemindersInv, StreamsFit
<1>2. ASSUME NEW c \in DOMAIN streams
      PROVE  /\ HangsUp(t)[c] \in Stream /\ StreamFits(HangsUp(t)[c])
             /\ HangsUp(t)[c].at = streams[c].at
  <2> DEFINE s == [streams[c] EXCEPT !.up = FALSE, !.queue = <<>>]
  <2>1. s \in Stream /\ StreamFits(s) /\ s.at = streams[c].at
    BY StreamShrinks, NoQueue
  <2>2. streams[c] \in Stream /\ StreamFits(streams[c])
    BY StreamAt DEF RemindersInv
  <2>3. HangsUp(t)[c] = s \/ HangsUp(t)[c] = streams[c]
    BY DEF HangsUp
  <2> HIDE DEF s
  <2>4. QED
    BY <2>1, <2>2, <2>3
<1>3. HangsUp(t) = [c \in 1..Len(streams) |-> HangsUp(t)[c]]
  BY <1>1 DEF HangsUp
<1>4. HangsUp(t) \in [1..Len(streams) -> Stream]
  BY <1>1, <1>2, <1>3
<1>5. QED
  BY <1>1, <1>2, <1>4 DEF SameStreams

LEMMA LeavingFits ==
  ASSUME RemindersInv, NEW t \in Tabs, Leaves(t) \/ StartsRun(t)
  PROVE  RemindersInv'
<1>1. LedgerFits'
  <2>1. LedgerFits
    BY RemindersParts
  <2>2. CASE Leaves(t)
    BY <2>2, LedgerUntouched DEF Leaves, ledger, server
  <2>3. CASE StartsRun(t)
    BY <2>1, <2>3 DEF StartsRun, LedgerFits, server
  <2>4. QED
    BY <2>2, <2>3
<1>2. UNCHANGED <<watcher, scan>>
  BY DEF Leaves, StartsRun, server
<1>3. SameStreams(streams')
  <2>1. streams' = HangsUp(t) \/ UNCHANGED streams
    BY DEF Leaves, StartsRun
  <2>2. QED
    BY <2>1, HangsUpSame, StreamsUntouched
<1>4. QED
  BY <1>1, <1>2, <1>3, WatcherUntouched, StreamsKept, RemindersPartsNext

\* A restart counts no stream and keeps no watcher.
LEMMA RestartFits ==
  ASSUME RemindersInv, Restart
  PROVE  RemindersInv'
<1>1. LedgerFits'
  <2>1. LedgerFits /\ MaxFaults \in Nat
    BY RemindersParts, RemindersAssumption
  <2>2. /\ faults < MaxFaults /\ faults' = faults + 1 /\ cache' = "cold"
        /\ UNCHANGED <<now, starts, answers>>
    BY DEF Restart, ledger
  <2>3. faults' \in 0..MaxFaults
    BY <2>1, <2>2 DEF LedgerFits
  <2>4. QED
    BY <2>1, <2>2, <2>3 DEF LedgerFits
<1>2. streams \in Seq(Stream) /\ Len(streams) \in Nat /\ DOMAIN streams = 1..Len(streams)
  BY DEF RemindersInv, StreamsFit
<1>3. ASSUME NEW c \in DOMAIN streams
      PROVE  streams'[c] \in Stream /\ StreamFits(streams'[c]) /\ streams'[c].at = "ended"
  <2>1. streams[c] \in Stream
    BY StreamAt DEF RemindersInv
  <2>2. streams'[c] = [streams[c] EXCEPT !.at = "ended", !.up = FALSE, !.queue = <<>>]
    BY DEF Restart
  <2>3. QED
    BY <2>1, <2>2, NoQueue DEF Stream, StreamFits
<1>4. streams' \in Seq(Stream) /\ DOMAIN streams' = DOMAIN streams
  <2>1. streams' = [c \in 1..Len(streams) |-> streams'[c]]
    BY <1>2 DEF Restart
  <2>2. streams' \in [1..Len(streams) -> Stream]
    BY <1>2, <1>3, <2>1
  <2>3. QED
    BY <1>2, <2>2
<1>5. StreamsFit' /\ Held' = {}
  BY <1>3, <1>4 DEF StreamsFit, Held
<1>6. ScanFits' /\ WatchersCounted'
  BY <1>5 DEF Restart, ScanFits, WatchersCounted, NoScan
<1>7. QED
  BY <1>1, <1>5, <1>6, RemindersPartsNext

-----------------------------------------------------------------------------
(* The reminders: the theorems *)

LEMMA RemindersInit == Init => RemindersInv
<1> SUFFICES ASSUME Init PROVE RemindersInv
  OBVIOUS
<1>1. {} \in Ledgers
  <2>1. {} \in SUBSET DOMAIN Later /\ Cardinality({}) <= MaxStarts
    BY FS_EmptySet, RemindersAssumption
  <2>2. {Later[i] : i \in {}} = {}
    OBVIOUS
  <2>3. QED
    BY <2>1, <2>2 DEF Ledgers
<1>2. 1 \in 1..Len(Moments) /\ 0 \in 0..MaxFaults
  BY RemindersAssumption
<1>3. LedgerFits
  BY <1>1, <1>2 DEF Init, LedgerFits
<1>4. StreamsFit /\ Held = {}
  BY DEF Init, StreamsFit, Held
<1>5. ScanFits /\ WatchersCounted
  BY <1>4 DEF Init, ScanFits, WatchersCounted, NoScan
<1>6. QED
  BY <1>3, <1>4, <1>5, RemindersParts

LEMMA RemindersStep == RemindersInv /\ [Next]_vars => RemindersInv'
<1> SUFFICES ASSUME RemindersInv, [Next]_vars PROVE RemindersInv'
  OBVIOUS
<1>1. CASE \E c \in Streams : c \in DOMAIN streams /\ StreamMoves(c)
  BY <1>1, AttachedFits, BreaksFits, NoticesFits, ArrivesFits DEF StreamMoves
<1>2. CASE ServerMoves
  BY <1>2, ScanBeginsFits, ScanEndsFits, RoutinesFit DEF ServerMoves
<1>3. CASE \E t \in Tabs : TabMoves(t)
  BY <1>3, ConnectFits, LeavingFits, ScreenFits, DismissServedFits, AcceptServedFits
     DEF TabMoves
<1>4. CASE TimePasses \/ Restart
  BY <1>4, RoutinesFit, RestartFits
<1>5. CASE UNCHANGED vars
  BY <1>5, LedgerUntouched, OutsideMoves DEF vars, ledger, server
<1>6. QED
  BY <1>1, <1>2, <1>3, <1>4, <1>5 DEF Next

THEOREM RemindersInvHolds == Spec => []RemindersInv
BY RemindersInit, RemindersStep, PTL DEF Spec

\* The reminders stay well formed: a reminder has one answer, the ledger holds only starts
\* that happened, and no subscriber's queue outgrows the event hub's bound.
THEOREM RemindersTyped == Spec => []TypeOK
<1>1. RemindersInv => TypeOK
  BY DEF RemindersInv
<1>2. QED
  BY <1>1, RemindersInvHolds, PTL

\* attach and detach balance: the watcher of a participant is there exactly as long as a
\* stream holds it, and counts them.
THEOREM WatchersHold == Spec => []WatchersCounted
<1>1. RemindersInv => WatchersCounted
  BY DEF RemindersInv
<1>2. QED
  BY <1>1, RemindersInvHolds, PTL

-----------------------------------------------------------------------------
(* The panel: the inductive invariant *)

States == {"running", "needs_confirmation"} \cup Panel!Over
Views == [state : States, update : Nat]

\* A view tells how the run was at that update.
Tells(v) == v \in Views /\ v.update <= run.update /\ (v.update = run.update => v = run)

\* What is shown, queued for the stream, or on its way as an answer.
AnswerTells(r) == r.at = "answered" => Tells(r.view)
QueueTells == stream.queue \in Seq(Views) /\ \A i \in 1..Len(stream.queue) : Tells(stream.queue[i])
ViewsTell ==
  /\ run \in Views
  /\ DOMAIN stream = {"at", "queue"}
  /\ Tells(shown) /\ QueueTells /\ AnswerTells(poll) /\ AnswerTells(post)

\* The window that is left of a queue with one more view in it.
LEMMA AppendedWindow ==
  ASSUME NEW q \in Seq(Views), NEW v \in Views, NEW lost \in {0, 1}
  PROVE  LET all == Append(q, v)
             rest == SubSeq(all, 1 + lost, Len(all))
         IN /\ rest \in Seq(Views)
            /\ Len(rest) = Len(q) + 1 - lost
            /\ \A i \in 1..Len(rest) :
                 \/ i + lost \in 1..Len(q) /\ rest[i] = q[i + lost]
                 \/ rest[i] = v
<1> DEFINE all == Append(q, v)
           rest == SubSeq(all, 1 + lost, Len(all))
<1>1. all \in Seq(Views) /\ Len(all) = Len(q) + 1 /\ Len(q) \in Nat
  OBVIOUS
<1>2. rest \in Seq(Views) /\ Len(rest) = Len(q) + 1 - lost
  BY <1>1
<1>3. ASSUME NEW i \in 1..Len(rest)
      PROVE  (i + lost \in 1..Len(q) /\ rest[i] = q[i + lost]) \/ rest[i] = v
  <2>1. rest[i] = all[i + lost]
    BY <1>1, <1>2
  <2>2. i + lost \in 1..(Len(q) + 1)
    BY <1>1, <1>2
  <2> QED
    BY <2>1, <2>2, <1>1
<1> HIDE DEF all, rest
<1> QED
  BY <1>2, <1>3 DEF all, rest

\* A view that told of the run tells of its past when the run goes on.
LEMMA TellsLater ==
  ASSUME NEW v, Tells(v), run \in Views, NEW s, run' = [state |-> s, update |-> run.update + 1]
  PROVE  v \in Views /\ v.update <= run'.update /\ v.update # run'.update
BY DEF Tells, Views

\* Publishing a new state of the run.
LEMMA BecomesTells ==
  ASSUME ViewsTell, NEW s \in States, Panel!Becomes(s)
  PROVE  /\ run' \in Views /\ DOMAIN stream' = {"at", "queue"}
         /\ QueueTells' /\ Tells(run)' /\ Tells(shown)
         /\ \A v : Tells(v) => v \in Views /\ v.update <= run'.update /\ v.update # run'.update
<1>1. run' = [state |-> s, update |-> run.update + 1] /\ run' \in Views
  BY DEF Panel!Becomes, ViewsTell, Views
<1>2. \A v : Tells(v) => v \in Views /\ v.update <= run'.update /\ v.update # run'.update
  BY <1>1, TellsLater DEF ViewsTell
<1>3. Tells(run)'
  BY <1>1 DEF Tells, Views
<1>4. CASE stream.at # "up"
  <2>1. stream' = stream
    BY <1>4 DEF Panel!Becomes, Panel!Publish
  <2> QED
    BY <2>1, <1>1, <1>2, <1>3 DEF QueueTells, Tells, ViewsTell
<1>5. CASE stream.at = "up"
  <2> DEFINE all == Append(stream.queue, run')
             lost == IF Len(all) > QueueSize THEN 1 ELSE 0
             rest == SubSeq(all, 1 + lost, Len(all))
  <2>1. stream' = [stream EXCEPT !.queue = rest]
    BY <1>5 DEF Panel!Becomes, Panel!Publish
  <2>2. stream'.queue = rest /\ DOMAIN stream' = {"at", "queue"}
    BY <2>1 DEF ViewsTell
  <2>3. stream.queue \in Seq(Views) /\ lost \in {0, 1}
    BY DEF ViewsTell, QueueTells
  <2>4. /\ rest \in Seq(Views)
        /\ \A i \in 1..Len(rest) :
             \/ i + lost \in 1..Len(stream.queue) /\ rest[i] = stream.queue[i + lost]
             \/ rest[i] = run'
    <3> HIDE DEF lost
    <3>1. run' \in Views
      BY <1>1
    <3> QED
      BY <2>3, <3>1, AppendedWindow, Zenon
  <2>5. ASSUME NEW i \in 1..Len(rest)
        PROVE  rest[i] \in Views /\ rest[i].update <= run'.update
               /\ (rest[i].update = run'.update => rest[i] = run')
    <3>1. CASE rest[i] = run'
      BY <3>1, <1>1 DEF Views
    <3>2. CASE i + lost \in 1..Len(stream.queue) /\ rest[i] = stream.queue[i + lost]
      <4> HIDE DEF rest, lost, all
      <4> QED
        BY <3>2, <1>2 DEF ViewsTell, QueueTells
    <3> HIDE DEF rest, lost, all
    <3> QED
      BY <3>1, <3>2, <2>4
  <2> HIDE DEF rest, lost, all
  <2>6. QueueTells'
    BY <2>2, <2>4, <2>5 DEF QueueTells, Tells
  <2> QED
    BY <2>2, <2>6, <1>1, <1>2, <1>3 DEF ViewsTell
<1> QED
  BY <1>4, <1>5
-----------------------------------------------------------------------------
(* Every step *)

\* A run that is over is driven by nothing, and answers to an old pause leave it alone.
LEMMA OverStays ==
  ASSUME Panel!Next, known, run.state \in Panel!Over
  PROVE  run' = run
<1>1. run.state \notin {"running", "needs_confirmation"}
  BY DEF Panel!Over
<1>2. ~Panel!Steps /\ ~Panel!Pauses /\ ~Panel!Finishes
  BY <1>1 DEF Panel!Steps, Panel!Pauses, Panel!Finishes, Panel!Drives
<1>3. ASSUME Panel!PostServed PROVE run' = run
  BY <1>1, <1>3 DEF Panel!PostServed, Panel!Confirmed, Panel!Stopped
<1> QED
  BY <1>2, <1>3 DEF Panel!Next, Panel!Subscribes, Panel!Delivered, Panel!StreamDrops,
         Panel!Polls, Panel!PollServed, Panel!PollArrives,
     Panel!PollLost, Panel!Presses, Panel!PostArrives, Panel!PostLost, Panel!Restart

\* Steps that leave the run alone keep what told of it.
LEMMA StillTells ==
  ASSUME run' = run, NEW v, Tells(v)
  PROVE  v \in Views /\ v.update <= run'.update /\ (v.update = run'.update => v = run')
BY DEF Tells

LEMMA QueueStays ==
  ASSUME run' = run, stream'.queue = stream.queue, QueueTells
  PROVE  QueueTells'
BY DEF QueueTells, Tells

LEMMA EmptyTells ==
  ASSUME stream'.queue = <<>>
  PROVE  QueueTells'
BY DEF QueueTells

LEMMA RunMoves ==
  ASSUME ViewsTell, Panel!Steps \/ Panel!Pauses \/ Panel!Finishes
  PROVE  ViewsTell'
<1>1. \E s \in States : Panel!Becomes(s)
  BY DEF Panel!Steps, Panel!Pauses, Panel!Finishes, States, Panel!Over
<1>2. shown' = shown /\ poll' = poll /\ post' = post
  BY DEF Panel!Steps, Panel!Pauses, Panel!Finishes
<1>3. PICK s \in States : Panel!Becomes(s)
  BY <1>1
<1>4. /\ run' \in Views /\ DOMAIN stream' = {"at", "queue"} /\ QueueTells'
      /\ \A v : Tells(v) => v \in Views /\ v.update <= run'.update /\ v.update # run'.update
  BY <1>3, BecomesTells
<1>5. Tells(shown)' /\ AnswerTells(poll)' /\ AnswerTells(post)'
  BY <1>2, <1>4 DEF ViewsTell, AnswerTells, Tells
<1> QED
  BY <1>4, <1>5 DEF ViewsTell

LEMMA PanelStreamMoves ==
  ASSUME ViewsTell, Panel!Subscribes \/ Panel!Delivered \/ Panel!StreamDrops \/ Panel!Restart
  PROVE  ViewsTell'
<1>1. run' = run
  BY DEF Panel!Subscribes, Panel!Delivered, Panel!StreamDrops, Panel!Restart
<1>2. CASE Panel!Subscribes \/ Panel!StreamDrops
  <2>1. stream'.queue = <<>> /\ DOMAIN stream' = {"at", "queue"}
    BY <1>2 DEF Panel!Subscribes, Panel!StreamDrops, Panel!Lost
  <2>2. shown' = shown /\ poll' = poll /\ post' = post
    BY <1>2 DEF Panel!Subscribes, Panel!StreamDrops
  <2> QED
    BY <2>1, <2>2, <1>1, EmptyTells DEF ViewsTell, AnswerTells, Tells
<1>3. CASE Panel!Delivered
  <2> DEFINE q == stream.queue
  <2>1. q \in Seq(Views) /\ q # <<>> /\ DOMAIN stream = {"at", "queue"}
    BY <1>3 DEF Panel!Delivered, ViewsTell, QueueTells
  <2>2. stream'.queue = Tail(q) /\ DOMAIN stream' = {"at", "queue"} /\ shown' = q[1]
    BY <1>3, <2>1 DEF Panel!Delivered
  <2>3. /\ Tail(q) \in Seq(Views) /\ 1 \in 1..Len(q)
        /\ \A i \in 1..Len(Tail(q)) : i + 1 \in 1..Len(q) /\ Tail(q)[i] = q[i + 1]
    <3> HIDE DEF q
    <3> QED
      BY <2>1
  <2>4. poll' = poll /\ post' = post
    BY <1>3 DEF Panel!Delivered
  <2>5. \A i \in 1..Len(q) : Tells(q[i])
    BY DEF ViewsTell, QueueTells
  <2> HIDE DEF q
  <2>6. QueueTells'
    BY <2>2, <2>3, <2>5, <1>1 DEF QueueTells, Tells
  <2> QED
    BY <2>2, <2>3, <2>4, <2>5, <2>6, <1>1 DEF ViewsTell, AnswerTells, Tells
<1>4. CASE Panel!Restart
  <2>1. shown' = shown /\ poll'.at # "answered" /\ post'.at # "answered"
    BY <1>4 DEF Panel!Restart, Panel!Idle
  <2>2. stream' = stream \/ (stream'.queue = <<>> /\ DOMAIN stream' = {"at", "queue"})
    BY <1>4 DEF Panel!Restart, Panel!Lost
  <2>3. QueueTells' /\ DOMAIN stream' = {"at", "queue"}
    BY <2>2, <1>1, EmptyTells, QueueStays DEF ViewsTell
  <2> QED
    BY <2>1, <2>3, <1>1 DEF ViewsTell, AnswerTells, Tells
<1> QED
  BY <1>2, <1>3, <1>4

LEMMA PollMoves ==
  ASSUME ViewsTell, Panel!Polls \/ Panel!PollServed \/ Panel!PollArrives \/ Panel!PollLost
  PROVE  ViewsTell'
<1>1. run' = run /\ stream' = stream /\ post' = post
  BY DEF Panel!Polls, Panel!PollServed, Panel!PollArrives, Panel!PollLost
<1>2. Tells(shown)'
  BY <1>1 DEF Panel!Polls, Panel!PollServed, Panel!PollArrives, Panel!PollLost,
         ViewsTell, AnswerTells, Tells
<1>3. AnswerTells(poll)'
  BY <1>1 DEF Panel!Polls, Panel!PollServed, Panel!PollArrives, Panel!PollLost,
         Panel!Idle, ViewsTell, AnswerTells, Tells, Views
<1>4. AnswerTells(post)'
  BY <1>1 DEF ViewsTell, AnswerTells, Tells
<1> QED
  BY <1>1, <1>2, <1>3, <1>4, QueueStays DEF ViewsTell

LEMMA PostMoves ==
  ASSUME ViewsTell,
         Panel!PostServed \/ Panel!PostArrives \/ Panel!PostLost \/
          \E do \in {"approve", "refuse", "stop"} : Panel!Presses(do)
  PROVE  ViewsTell'
<1>1. CASE Panel!PostServed
  <2>1. shown' = shown /\ poll' = poll
    BY <1>1 DEF Panel!PostServed
  <2>2. post'.at = "answered" => post'.view = run'
    BY <1>1 DEF Panel!PostServed, Panel!Idle
  <2>3. CASE \E s \in States : Panel!Becomes(s)
    <3>1. /\ run' \in Views /\ DOMAIN stream' = {"at", "queue"} /\ QueueTells'
          /\ \A v : Tells(v) => v \in Views /\ v.update <= run'.update /\ v.update # run'.update
      BY <2>3, BecomesTells
    <3> QED
      BY <2>1, <2>2, <3>1 DEF ViewsTell, AnswerTells, Tells, Views
  <2>4. CASE run' = run /\ stream' = stream
    BY <2>1, <2>2, <2>4, QueueStays DEF ViewsTell, AnswerTells, Tells, Views
  <2> QED
    BY <1>1, <2>3, <2>4 DEF Panel!PostServed, Panel!Confirmed, Panel!Stopped, States, Panel!Over
<1>2. CASE Panel!PostArrives \/ Panel!PostLost \/
           \E do \in {"approve", "refuse", "stop"} : Panel!Presses(do)
  <2>1. run' = run /\ stream' = stream /\ poll' = poll
    BY <1>2 DEF Panel!PostArrives, Panel!PostLost, Panel!Presses
  <2>2. Tells(shown)'
    BY <1>2, <2>1 DEF Panel!PostArrives, Panel!PostLost, Panel!Presses,
         ViewsTell, AnswerTells, Tells
  <2>3. post'.at # "answered"
    BY <1>2 DEF Panel!PostArrives, Panel!PostLost, Panel!Presses, Panel!Idle
  <2> QED
    BY <2>1, <2>2, <2>3, QueueStays DEF ViewsTell, AnswerTells, Tells
<1> QED
  BY <1>1, <1>2

-----------------------------------------------------------------------------
(* Theorems *)

\* Nothing the panel shows, or is going to be shown, is ahead of the run, and two views of one
\* update agree: events, polls and answers may be late, but never false
\* (autopilot.py:201).
THEOREM ViewsAreOfThePast == Panel!Spec => []ViewsTell
<1>1. ASSUME Panel!Init PROVE ViewsTell
  BY <1>1 DEF Panel!Init, ViewsTell, QueueTells, AnswerTells, Tells, Views, States, Panel!Idle
<1>2. ASSUME ViewsTell, [Panel!Next]_(Panel!vars) PROVE ViewsTell'
  <2>1. CASE UNCHANGED Panel!vars
    BY <1>2, <2>1 DEF Panel!vars, ViewsTell, QueueTells, AnswerTells, Tells
  <2>2. CASE Panel!Next
    BY <1>2, <2>2, RunMoves, PanelStreamMoves, PollMoves, PostMoves DEF Panel!Next
  <2> QED
    BY <1>2, <2>1, <2>2
<1> QED
  BY <1>1, <1>2, PTL DEF Panel!Spec

\* A run that has ended stays as it ended, whatever answers to an old pause are still on
\* their way (autopilot.py:296).
THEOREM EndedRunStays == Panel!Spec => Panel!OverIsFinal
<1>1. ASSUME [Panel!Next]_(Panel!vars)
      PROVE  [known /\ run.state \in Panel!Over => run' = run]_(Panel!vars)
  BY <1>1, OverStays DEF Panel!vars
<1> QED
  BY <1>1, PTL DEF Panel!Spec, Panel!OverIsFinal
=============================================================================
