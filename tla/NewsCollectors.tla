--------------------------- MODULE NewsCollectors ---------------------------
(***************************************************************************)
(* The news worker, a process of its own: every few minutes its collectors *)
(* read disclosures (DART) and articles (RSS) and write those not yet seen *)
(* to news_chunks, where the engine and the screener look for disclosures  *)
(* that forbid a purchase.                                                 *)
(*                                                                         *)
(* A disclosure or article is an index of the sequence "published".  Time  *)
(* is counted in ticks, DayLength ticks make a day.                        *)
(***************************************************************************)
EXTENDS Integers, Sequences, FiniteSets

CONSTANTS
    Feeds,          \* the RSS feeds
    Dart,           \* the one feed of the collector of disclosures
    DayLength,
    PageSize,       \* disclosures on the one page asked for
    LastTick,       \* bound on the clock
    MaxItems        \* bound on what is published

VARIABLES
    now,
    published,      \* everything published: its feed, its time, its stock tracked or not
    chunks,         \* rows of news_chunks
    lastCollected,  \* news_collection_state: time of each collector, or Never
    cycle,          \* the collector at work, what it has read and what it could not
    excused         \* history: items a collector could not have read when it moved on

newsVars == <<now, published, chunks, lastCollected, cycle, excused>>

Never == -1
Day(t) == t \div DayLength
Collectors == {"dart", "rss"}
CollectorOf(feed) == IF feed = Dart THEN "dart" ELSE "rss"
FeedsOf(collector) == IF collector = "dart" THEN {Dart} ELSE Feeds
Idle == [of |-> "nobody", since |-> Never, left |-> {}, docs |-> {}, unread |-> {}]

Items == DOMAIN published

\* The time from which a collector wants everything; a day back if it never succeeded.
Since(c) == IF lastCollected[c] = Never THEN now - DayLength ELSE lastCollected[c]

\* What is asked of a feed: disclosures by whole days, articles by their time.
Window(feed, since) ==
    {i \in Items : /\ published[i].feed = feed
                   /\ IF feed = Dart THEN Day(published[i].at) >= Day(since)
                      ELSE published[i].at >= since}

\* What a feed answers: of disclosures one page, the newest first.
Page(feed, window) ==
    IF feed = Dart THEN {i \in window : Cardinality({j \in window : j > i}) < PageSize} ELSE window

Init ==
    /\ now = 0 /\ published = <<>> /\ chunks = {} /\ excused = {}
    /\ lastCollected = [c \in Collectors |-> Never] /\ cycle = Idle

-----------------------------------------------------------------------------
(* The world *)

Tick ==
    /\ now < LastTick /\ now' = now + 1
    /\ UNCHANGED <<published, chunks, lastCollected, cycle, excused>>

\* A feed may show an article some time after the time it gives; then it may be too late.
Publish ==
    /\ Len(published) < MaxItems
    /\ \E feed \in Feeds \cup {Dart}, tracked \in BOOLEAN, at \in {now, now - 1} :
          /\ at >= 0
          /\ feed = Dart => at = now
          /\ feed # Dart => tracked
          /\ published' = Append(published, [feed |-> feed, at |-> at, tracked |-> tracked])
          /\ excused' = IF at < Since(CollectorOf(feed))
                        THEN excused \cup {Len(published) + 1} ELSE excused
          /\ cycle' = IF cycle.of = CollectorOf(feed) /\ feed \notin cycle.left
                      THEN [cycle EXCEPT !.unread = @ \cup {Len(published) + 1}] ELSE cycle
    /\ UNCHANGED <<now, chunks, lastCollected>>

-----------------------------------------------------------------------------
(* The worker: its collectors one after the other *)

\* BaseCollector.run_cycle: collect what came since the last success.
StartCycle(c) ==
    /\ cycle = Idle
    /\ cycle' = [of |-> c, since |-> Since(c), left |-> FeedsOf(c), docs |-> {}, unread |-> {}]
    /\ UNCHANGED <<now, published, chunks, lastCollected, excused>>

\* One answer of a feed; disclosures of untracked stocks are dropped.
Answered(feed, window) ==
    /\ cycle' = [cycle EXCEPT
          !.left = @ \ {feed},
          !.docs = @ \cup {i \in Page(feed, window) : published[i].tracked},
          !.unread = @ \cup (window \ Page(feed, window))]
    /\ UNCHANGED <<now, published, chunks, lastCollected, excused>>

\* A faulty variant: disclosures of today only.
FetchToday(feed) ==
    /\ feed \in cycle.left
    /\ Answered(feed, Window(feed, IF feed = Dart THEN now ELSE cycle.since))

Fetch(feed) == feed \in cycle.left /\ Answered(feed, Window(feed, cycle.since))

\* A feed that fails or forbids robots is skipped, and the others go on.
FeedSkipped(feed) ==
    /\ feed \in cycle.left /\ feed # Dart
    /\ cycle' = [cycle EXCEPT !.left = @ \ {feed}, !.unread = @ \cup Window(feed, cycle.since)]
    /\ UNCHANGED <<now, published, chunks, lastCollected, excused>>

\* Chunks that are new are written; the time moves on only if something was read.
Store ==
    /\ cycle # Idle /\ cycle.left = {}
    /\ chunks' = chunks \cup cycle.docs
    /\ IF cycle.docs = {} THEN UNCHANGED <<lastCollected, excused>>
       ELSE /\ lastCollected' = [lastCollected EXCEPT ![cycle.of] = now]
            /\ excused' = excused \cup cycle.unread
                \cup {i \in Items : /\ CollectorOf(published[i].feed) = cycle.of
                                    /\ lastCollected[cycle.of] = Never
                                    /\ i \notin Window(published[i].feed, cycle.since)}
    /\ cycle' = Idle
    /\ UNCHANGED <<now, published>>

\* The request for disclosures fails, an embedding raises, the commit fails, the process
\* dies: run_once rolls back, the time stays and the next cycle asks again.
CycleFails ==
    /\ cycle # Idle /\ cycle' = Idle
    /\ UNCHANGED <<now, published, chunks, lastCollected, excused>>

Next ==
    \/ Tick \/ Publish \/ Store \/ CycleFails
    \/ \E c \in Collectors : StartCycle(c)
    \/ \E feed \in Feeds \cup {Dart} : Fetch(feed) \/ FeedSkipped(feed)

Spec == Init /\ [][Next]_newsVars

-----------------------------------------------------------------------------
(* Properties *)

\* What no later cycle will ask for has been recorded, unless the collector could not have
\* read it when it moved on: its feed was skipped then, it came after the request or with
\* an older time, or it was not on the page.
LossExplained ==
    \A i \in Items :
        \/ i \in chunks \cup excused
        \/ ~published[i].tracked
        \/ lastCollected[CollectorOf(published[i].feed)] = Never
        \/ i \in Window(published[i].feed, Since(CollectorOf(published[i].feed)))
=============================================================================
