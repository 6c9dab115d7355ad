---------------------------- MODULE ServicesProofs ----------------------------
(***************************************************************************)
(* What the services beside the trading cycle promise, for every value of  *)
(* their parameters.                                                       *)
(***************************************************************************)
EXTENDS Services, Recursion, FiniteSetTheorems, TLAPS

-----------------------------------------------------------------------------
(* The access token *)

TokenTypes ==
    /\ time \in Nat \ {0} /\ disk \in Nat
    /\ mem \in [Procs -> Nat] /\ retryAfter \in [Procs -> Nat]
    /\ issuing \in [Procs -> {0, 1}] /\ started \in [Procs -> Nat]
    /\ refusedAt \in [Procs -> Nat]

\* The cache file has a token no process would refresh.
DiskFresh == ~Token!ShouldRefresh(disk)

\* What a process remembers of its attempts is from before the fresh token was cached:
\* whoever begins an attempt later adopts that token instead.
TokenClocks ==
    /\ disk = 0 \/ Lifetime < disk
    /\ disk <= time + Lifetime
    /\ \A p \in Procs :
          /\ started[p] <= time /\ refusedAt[p] <= time
          /\ retryAfter[p] <= time + RetryGap
          /\ issuing[p] = 1 => time <= started[p] + 1
          /\ DiskFresh =>
                /\ issuing[p] = 1 => started[p] <= disk - Lifetime
                /\ retryAfter[p] <= disk - Lifetime + RetryGap
                /\ refusedAt[p] <= disk - Lifetime + RetryGap

TokenInv == TokenTypes /\ TokenClocks

\* A process that asks for the token.
LEMMA GetTokenKeeps ==
    ASSUME TokenInv, NEW p \in Procs, Token!GetToken(p)
    PROVE  TokenInv'
<1> USE TokenAssumption DEF TokenInv, TokenTypes, TokenClocks, DiskFresh, Token!ShouldRefresh,
        Token!Expired
<1> DEFINE held == IF mem[p] = 0 THEN disk ELSE mem[p]
<1>0. UNCHANGED <<time, disk>>
  BY DEF Token!GetToken
<1>1. CASE Token!ShouldRefresh(held) /\ time >= retryAfter[p]
  <2>1. CASE ~DiskFresh
    BY <1>0, <1>1, <2>1 DEF Token!GetToken, Token!AdoptOrIssue, Token!LockFree
  <2>2. CASE DiskFresh
    BY <1>0, <1>1, <2>2 DEF Token!GetToken, Token!AdoptOrIssue, Token!Answer
  <2> QED
    BY <2>1, <2>2
<1>2. CASE ~(Token!ShouldRefresh(held) /\ time >= retryAfter[p])
  BY <1>0, <1>2 DEF Token!GetToken, Token!Answer
<1> QED
  BY <1>1, <1>2

\* The steps of a request, of a restart and of the clock.
LEMMA TokenStepsKeep ==
    ASSUME TokenInv,
           \/ \E p \in Procs : Token!IssueOk(p) \/ Token!IssueFails(p) \/ Token!Restart(p)
           \/ Token!Tick
    PROVE  TokenInv'
<1> USE TokenAssumption DEF TokenInv, TokenTypes, TokenClocks, DiskFresh, Token!ShouldRefresh,
        Token!Expired
<1>1. ASSUME NEW p \in Procs, Token!IssueOk(p) PROVE TokenInv'
  <2> USE <1>1 DEF Token!IssueOk
  <2>1. TokenTypes' /\ time' = time
    OBVIOUS
  <2>2. ASSUME NEW q \in Procs
        PROVE  /\ issuing'[q] = 1 => issuing[q] = 1
               /\ retryAfter'[q] = retryAfter[q] \/ retryAfter'[q] = 0
               /\ started'[q] = started[q] /\ refusedAt'[q] = refusedAt[q]
    OBVIOUS
  <2>3. CASE disk' = time + Lifetime
    BY <2>1, <2>2, <2>3
  <2>4. CASE disk' = disk
    BY <2>1, <2>2, <2>4
  <2> QED
    BY <2>3, <2>4
<1>2. ASSUME NEW p \in Procs, Token!IssueFails(p) PROVE TokenInv'
  BY <1>2 DEF Token!IssueFails, Token!Answer
<1>3. ASSUME NEW p \in Procs, Token!Restart(p) PROVE TokenInv'
  BY <1>3 DEF Token!Restart
<1>4. CASE Token!Tick
  BY <1>4 DEF Token!Tick
<1> QED
  BY <1>1, <1>2, <1>3, <1>4

LEMMA TokenInitial == Token!Init => TokenInv
  BY TokenAssumption DEF Token!Init, TokenInv, TokenTypes, TokenClocks, DiskFresh, Token!ShouldRefresh

LEMMA TokenStep == TokenInv /\ [Token!Next]_(Token!tokenVars) => TokenInv'
<1> SUFFICES ASSUME TokenInv, [Token!Next]_(Token!tokenVars) PROVE TokenInv'
  OBVIOUS
<1>1. CASE UNCHANGED Token!tokenVars
  BY <1>1 DEF Token!tokenVars, TokenInv, TokenTypes, TokenClocks, DiskFresh, Token!ShouldRefresh
<1> QED
  BY <1>1, GetTokenKeeps, TokenStepsKeep DEF Token!Next

\* A process is refused a token another one has cached for no longer than the retry gap
\* (_REFRESH_RETRY_INTERVAL and the look into the cache file in _issue_token).
THEOREM OutagesEnd == Token!Spec => []OutageEndsWithCache
<1>1. TokenInv => OutageEndsWithCache
  BY DEF TokenInv, TokenClocks, DiskFresh, OutageEndsWithCache, Token!OutageEndsWithCache
<1> QED
  BY TokenInitial, TokenStep, <1>1, PTL DEF Token!Spec

\* The requests under way, and the fresh tokens that were written to the cache file.
Awaiting == {p \in Procs : issuing[p] = 1}
FreshSaved == {i \in DOMAIN cached : ~Token!ShouldRefresh(cached[i])}

\* A request under way may still add a fresh token, and it starts only when there is none.
TokenBurst ==
    /\ cached \in Seq(Nat)
    /\ \A i \in DOMAIN cached : cached[i] <= disk
    /\ Cardinality(FreshSaved) + Cardinality(Awaiting) <= Cardinality(Procs)

\* The instance counts as this module does.
LEMMA TokenCounts == \A S : Token!Cardinality(S) = Cardinality(S)
  BY DEF Token!Cardinality, Cardinality

LEMMA TokenSetsFinite ==
    ASSUME TokenTypes, cached \in Seq(Nat)
    PROVE  /\ IsFiniteSet(FreshSaved) /\ IsFiniteSet(Awaiting)
           /\ Cardinality(FreshSaved) \in Nat /\ Cardinality(Awaiting) \in Nat
           /\ Cardinality(Awaiting) <= Cardinality(Procs) /\ Cardinality(Procs) \in Nat
<1>1. IsFiniteSet(DOMAIN cached)
  BY FS_Interval DEF TokenTypes
<1>2. FreshSaved \subseteq DOMAIN cached /\ Awaiting \subseteq Procs
  BY DEF FreshSaved, Awaiting
<1> QED
  BY <1>1, <1>2, TokenAssumption, FS_Subset, FS_CardinalityType

\* No step but a request that is answered or begins adds to either set.
LEMMA FewerKeeps ==
    ASSUME TokenTypes, TokenBurst, TokenTypes', cached' = cached, disk' = disk,
           FreshSaved' \subseteq FreshSaved, Awaiting' \subseteq Awaiting
    PROVE  TokenBurst'
<1>1. Cardinality(FreshSaved') <= Cardinality(FreshSaved)
  BY TokenSetsFinite, FS_Subset DEF TokenBurst
<1>2. Cardinality(Awaiting') <= Cardinality(Awaiting)
  BY TokenSetsFinite, FS_Subset DEF TokenBurst
<1>3. Cardinality(FreshSaved') \in Nat /\ Cardinality(Awaiting') \in Nat
  BY TokenSetsFinite, FS_Subset, FS_CardinalityType DEF TokenBurst
<1> QED
  BY <1>1, <1>2, <1>3, TokenSetsFinite DEF TokenBurst

LEMMA GetTokenBursts ==
    ASSUME TokenInv, TokenInv', TokenBurst, NEW p \in Procs, Token!GetToken(p)
    PROVE  TokenBurst'
<1> USE DEF TokenInv
<1>0. UNCHANGED <<time, disk, cached>>
  BY DEF Token!GetToken
<1>1. FreshSaved' = FreshSaved
  BY <1>0 DEF FreshSaved, Token!ShouldRefresh
<1>2. CASE issuing' = issuing
  BY <1>0, <1>1, <1>2, FewerKeeps DEF Awaiting
<1>3. CASE issuing' # issuing
  <2>1. Token!ShouldRefresh(disk)
    BY <1>3 DEF Token!GetToken, Token!AdoptOrIssue
  <2>2. FreshSaved = {}
    <3> SUFFICES ASSUME NEW i \in DOMAIN cached PROVE Token!ShouldRefresh(cached[i])
      BY DEF FreshSaved
    <3>1. cached[i] \in Nat /\ cached[i] <= disk
      BY DEF TokenBurst
    <3> QED
      BY <2>1, <3>1, TokenAssumption DEF Token!ShouldRefresh, TokenTypes
  <2>3. Cardinality(FreshSaved') = 0
    BY <1>1, <2>2, FS_EmptySet
  <2>4. Cardinality(Awaiting') \in Nat /\ Cardinality(Awaiting') <= Cardinality(Procs)
    <3>1. Awaiting' \subseteq Procs
      BY DEF Awaiting
    <3> QED
      BY <3>1, TokenAssumption, FS_Subset, FS_CardinalityType
  <2> QED
    BY <1>0, <2>3, <2>4 DEF TokenBurst
<1> QED
  BY <1>2, <1>3

LEMMA IssueBursts ==
    ASSUME TokenInv, TokenInv', TokenBurst, NEW p \in Procs, Token!IssueOk(p)
    PROVE  TokenBurst'
<1> USE DEF TokenInv
<1>1. p \in Awaiting /\ Awaiting' = Awaiting \ {p}
  BY DEF Token!IssueOk, Awaiting, TokenTypes
<1>2. CASE cached' = cached /\ disk' = disk
  <2>1. FreshSaved' = FreshSaved
    BY <1>2 DEF FreshSaved, Token!ShouldRefresh, Token!IssueOk
  <2> QED
    BY <1>1, <1>2, <2>1, FewerKeeps
<1>3. CASE cached' = Append(cached, time + Lifetime) /\ disk' = time + Lifetime
  <2>1. time' = time /\ time \in Nat /\ Lifetime \in Nat /\ disk \in Nat
    BY TokenAssumption DEF Token!IssueOk, TokenTypes
  <2>2. cached' \in Seq(Nat) /\ DOMAIN cached' = DOMAIN cached \cup {Len(cached) + 1}
    BY <1>3, <2>1 DEF TokenBurst
  <2>3. \A i \in DOMAIN cached' : cached'[i] <= disk'
    <3>1. disk <= disk'
      BY <1>3, <2>1 DEF TokenClocks
    <3>2. \A i \in DOMAIN cached : cached[i] \in Nat /\ cached'[i] = cached[i]
      BY <1>3, <2>1 DEF TokenBurst
    <3>3. cached'[Len(cached) + 1] = disk'
      BY <1>3, <2>1 DEF TokenBurst
    <3> QED
      BY <2>1, <2>2, <3>1, <3>2, <3>3, <1>3 DEF TokenBurst
  <2>4. FreshSaved' \subseteq FreshSaved \cup {Len(cached) + 1}
    <3>1. \A i \in DOMAIN cached : cached'[i] = cached[i]
      BY <1>3, <2>1 DEF TokenBurst
    <3> QED
      BY <2>1, <2>2, <3>1 DEF FreshSaved, Token!ShouldRefresh
  <2>5. Cardinality(FreshSaved') \in Nat
        /\ Cardinality(FreshSaved') <= Cardinality(FreshSaved) + 1
    <3> DEFINE More == FreshSaved \cup {Len(cached) + 1}
    <3>1. IsFiniteSet(FreshSaved) /\ Cardinality(FreshSaved) \in Nat
      BY TokenSetsFinite DEF TokenBurst
    <3>2. IsFiniteSet(More) /\ (Cardinality(More) = Cardinality(FreshSaved)
                                \/ Cardinality(More) = Cardinality(FreshSaved) + 1)
      BY <3>1, FS_AddElement
    <3>3. IsFiniteSet(FreshSaved') /\ Cardinality(FreshSaved') <= Cardinality(More)
      BY <2>4, <3>2, FS_Subset
    <3> QED
      BY <3>1, <3>2, <3>3, FS_CardinalityType
  <2>6. Cardinality(Awaiting') = Cardinality(Awaiting) - 1
    BY <1>1, TokenSetsFinite, FS_RemoveElement DEF TokenBurst
  <2> QED
    BY <2>2, <2>3, <2>5, <2>6, TokenSetsFinite DEF TokenBurst
<1> QED
  BY <1>2, <1>3 DEF Token!IssueOk

\* However the requests and restarts of the processes interleave, no more fresh tokens than
\* one for each process are ever in the cache file's history (the lock and the look into
\* the file of _issue_token).
THEOREM IssuesBounded == Token!Spec => []IssueBurstBounded
<1> DEFINE Inv == TokenInv /\ TokenBurst
<1>1. Token!Init => Inv
  <2> SUFFICES ASSUME Token!Init PROVE TokenBurst
    BY TokenInitial
  <2>1. FreshSaved = {} /\ Awaiting = {}
    BY DEF Token!Init, FreshSaved, Awaiting
  <2> QED
    BY <2>1, FS_EmptySet, FS_CardinalityType, TokenAssumption DEF Token!Init, TokenBurst
<1>2. Inv /\ [Token!Next]_(Token!tokenVars) => Inv'
  <2> SUFFICES ASSUME TokenInv, TokenBurst, [Token!Next]_(Token!tokenVars), TokenInv'
               PROVE  TokenBurst'
    BY TokenStep
  <2> USE DEF TokenInv
  <2>1. CASE UNCHANGED Token!tokenVars
    BY <2>1 DEF Token!tokenVars, TokenBurst, FreshSaved, Awaiting, Token!ShouldRefresh
  <2>2. ASSUME NEW p \in Procs, Token!IssueFails(p) \/ Token!Restart(p) PROVE TokenBurst'
    <3>1. UNCHANGED <<time, disk, cached>> /\ Awaiting' \subseteq Awaiting
      BY <2>2 DEF Token!IssueFails, Token!Restart, Awaiting, TokenTypes
    <3>2. FreshSaved' = FreshSaved
      BY <3>1 DEF FreshSaved, Token!ShouldRefresh
    <3> QED
      BY <3>1, <3>2, FewerKeeps
  <2>3. CASE Token!Tick
    <3>1. \A i \in DOMAIN cached : cached[i] \in Nat
      BY DEF TokenBurst
    <3>2. FreshSaved' \subseteq FreshSaved /\ Awaiting' = Awaiting
      BY <2>3, <3>1, TokenAssumption
      DEF Token!Tick, FreshSaved, Awaiting, Token!ShouldRefresh, TokenTypes
    <3> QED
      BY <2>3, <3>2, FewerKeeps DEF Token!Tick
  <2> QED
    BY <2>1, <2>2, <2>3, GetTokenBursts, IssueBursts DEF Token!Next
<1>3. Inv => IssueBurstBounded
  BY TokenSetsFinite, TokenCounts
  DEF TokenInv, TokenBurst, FreshSaved, IssueBurstBounded, Token!IssueBurstBounded
<1> QED
  BY <1>1, <1>2, <1>3, PTL DEF Token!Spec

-----------------------------------------------------------------------------
(* The days of the scheduler *)

PreMarket == Days!Position("pre_market")
Opening == Days!Position("open")

LEMMA SlotsOrdered ==
    /\ PreMarket \in DOMAIN Slots /\ Opening \in DOMAIN Slots /\ PreMarket < Opening
    /\ \A s \in DOMAIN Slots : Slots[s] = "pre_market" <=> s = PreMarket
    /\ Len(Slots) \in Nat /\ DOMAIN Slots = 1..Len(Slots) /\ 1 \in DOMAIN Slots
<1>1. PICK i \in DOMAIN Slots, j \in DOMAIN Slots :
         i < j /\ Slots[i] = "pre_market" /\ Slots[j] = "open"
  BY SlotsAssumption
<1>2. PreMarket \in DOMAIN Slots /\ Slots[PreMarket] = "pre_market"
  BY <1>1 DEF PreMarket, Days!Position
<1>3. Opening \in DOMAIN Slots /\ Slots[Opening] = "open"
  BY <1>1 DEF Opening, Days!Position
<1>4. PreMarket = i /\ Opening = j
  BY <1>1, <1>2, <1>3, SlotsAssumption
<1> QED
  BY <1>1, <1>2, <1>3, <1>4, SlotsAssumption

DayTypes ==
    /\ day \in Nat \ {0} /\ slot \in DOMAIN Slots /\ registered \in Nat
    /\ process \in {"down", "up", "ending"}
    /\ sold \in Nat /\ counted \in Nat /\ former \in Nat
    /\ restored \in BOOLEAN /\ unreset \in BOOLEAN

\* What the limits know is today's sales.
Todays == counted = sold /\ former = 0

\* Where the clock is when something runs, is due or has been sold.
DayPlaces ==
    /\ process = "down" => running = {}
    /\ process # "up" => due = {}
    /\ registered <= day /\ (registered = day => ~Days!Closed(day))
    /\ "cycle" \in running => slot >= Opening /\ restored
    /\ sold > 0 => slot >= Opening
    /\ "pre_market" \in due => slot = PreMarket

\* Whose sales the limits know: a new process knows of none until its restore, pre_market
\* leaves those of today, and whoever is up after its slot has lived through it.
DayMemory ==
    /\ process # "down" /\ ~restored => counted = 0 /\ former = 0
    /\ "pre_market" \in running => Todays
    /\ "cycle" \in running /\ ~unreset => Todays
    /\ process = "up" /\ restored /\ ~Days!Closed(day) =>
          /\ slot = PreMarket /\ "pre_market" \notin due => Todays
          /\ slot > PreMarket /\ ~unreset => Todays

DayInv == DayTypes /\ DayPlaces /\ DayMemory

LEMMA NextSlotKeeps ==
    ASSUME DayInv, Days!NextSlot
    PROVE  DayInv'
<1> USE SlotsOrdered DEF DayInv, DayTypes
<1>1. CASE slot < Len(Slots)
  <2>1. /\ slot' = slot + 1 /\ day' = day /\ slot # Len(Slots)
        /\ UNCHANGED <<sold, counted, former, process, running, registered, restored>>
        /\ due' = IF process = "up" THEN Days!JobsOf(Slots[slot']) ELSE {}
    BY <1>1 DEF Days!NextSlot
  <2>7. slot' \in DOMAIN Slots
    BY <1>1, <2>1
  <2>8. unreset' = (unreset \/ ("pre_market" \in due /\ restored /\ ~Days!Closed(day)))
    BY <2>1 DEF Days!NextSlot
  <2>2. "pre_market" \in due' => slot' = PreMarket
    BY <2>1, <2>7 DEF Days!JobsOf
  <2>3. slot' = PreMarket /\ process = "up" => "pre_market" \in due'
    BY <2>1, <2>7 DEF Days!JobsOf
  <2>4. DayTypes'
    BY <2>1, <2>7, <2>8
  <2>5. DayPlaces'
    BY <2>1, <2>7, <2>8, <2>2 DEF DayPlaces, Days!Closed
  <2>6. DayMemory'
    BY <2>1, <2>7, <2>8, <2>3 DEF DayMemory, DayPlaces, Todays, Days!Closed
  <2> QED
    BY <2>4, <2>5, <2>6
<1>2. CASE ~(slot < Len(Slots))
  <2>1. /\ slot' = 1 /\ day' = day + 1 /\ running = {} /\ sold' = 0 /\ counted' = 0
        /\ former' = former + counted /\ unreset' = FALSE
        /\ UNCHANGED <<process, running, registered, restored>>
        /\ due' = IF process = "up" THEN Days!JobsOf(Slots[slot']) ELSE {}
    BY <1>2 DEF Days!NextSlot
  <2>2. "pre_market" \in due' => slot' = PreMarket
    BY <2>1 DEF Days!JobsOf
  <2>3. slot' = PreMarket /\ process = "up" => "pre_market" \in due'
    BY <2>1 DEF Days!JobsOf
  <2>7. unreset' \in BOOLEAN /\ restored' \in BOOLEAN
    BY <2>1
  <2>8. day' \in Nat \ {0} /\ slot' \in DOMAIN Slots /\ former' \in Nat
    BY <2>1
  <2>9. process' \in {"down", "up", "ending"} /\ registered' \in Nat
    BY <2>1
  <2>4. DayTypes'
    BY <2>1, <2>7, <2>8, <2>9
  <2>5. DayPlaces'
    BY <2>1, <2>2 DEF DayPlaces
  <2>6. DayMemory'
    BY <2>1, <2>3 DEF DayMemory, Todays
  <2> QED
    BY <2>4, <2>5, <2>6
<1> QED
  BY <1>1, <1>2

\* The process and its memory.
LEMMA ProcessKeeps ==
    ASSUME DayInv,
           Days!StartProcess \/ Days!Shutdown \/ Days!Ended \/ Days!Killed
    PROVE  DayInv'
<1> USE SlotsOrdered DEF DayInv
<1>1. CASE Days!StartProcess
  <2>1. Days!Registered \in Nat /\ Days!Registered <= day
        /\ (Days!Registered = day => ~Days!Closed(day))
    BY DEF DayTypes, Days!Registered
  <2>2. DayTypes'
    BY <1>1, <2>1 DEF DayTypes, Days!StartProcess
  <2>3. DayPlaces'
    BY <1>1, <2>1 DEF DayTypes, DayPlaces, Days!StartProcess, Days!Closed
  <2>4. DayMemory'
    BY <1>1 DEF DayTypes, DayPlaces, DayMemory, Days!StartProcess
  <2> QED
    BY <2>2, <2>3, <2>4
<1>2. CASE Days!Shutdown
  BY <1>2 DEF DayTypes, DayPlaces, DayMemory, Days!Shutdown, Days!memory, Days!Closed, Todays
<1>3. CASE Days!Ended
  BY <1>3 DEF DayTypes, DayPlaces, DayMemory, Days!Ended, Days!memory, Days!Closed, Todays
<1>4. CASE Days!Killed
  BY <1>4 DEF DayTypes, DayPlaces, DayMemory, Days!Killed, Days!memory, Days!Closed, Todays
<1> QED
  BY <1>1, <1>2, <1>3, <1>4

\* The cron jobs.
LEMMA CronKeeps ==
    ASSUME DayInv,
           Days!QuotaJob \/ Days!RegisterJob \/ Days!PreMarketBegins \/ Days!ReportBegins
    PROVE  DayInv'
<1> USE SlotsOrdered DEF DayInv, DayTypes, DayPlaces, DayMemory, Todays, Days!Closed,
        Days!memory, Days!Fire
<1>1. CASE Days!QuotaJob
  BY <1>1 DEF Days!QuotaJob
<1>2. CASE Days!RegisterJob
  BY <1>2 DEF Days!RegisterJob
<1>3. CASE Days!PreMarketBegins
  BY <1>3 DEF Days!PreMarketBegins, Days!Starts
<1>4. CASE Days!ReportBegins
  BY <1>4 DEF Days!ReportBegins, Days!Starts
<1> QED
  BY <1>1, <1>2, <1>3, <1>4

\* The trading job.
LEMMA CycleKeeps ==
    ASSUME DayInv,
           \/ Days!CycleBegins \/ Days!CycleSells
           \/ \E which \in {"pre_market", "cycle", "post_market", "summary"} : Days!JobEnds(which)
    PROVE  DayInv'
<1> USE SlotsOrdered DEF DayInv, DayTypes, DayPlaces, DayMemory, Todays, Days!Closed
<1>1. CASE Days!CycleBegins
  <2>1. slot >= Opening
    BY <1>1 DEF Days!CycleBegins, Days!InSession, Opening
  <2>2. CASE restored
    BY <1>1, <2>1, <2>2 DEF Days!CycleBegins, Days!Starts
  <2>3. CASE ~restored
    BY <1>1, <2>1, <2>3 DEF Days!CycleBegins, Days!Starts
  <2> QED
    BY <2>2, <2>3
<1>2. CASE Days!CycleSells
  BY <1>2 DEF Days!CycleSells
<1>3. ASSUME NEW which \in {"pre_market", "cycle", "post_market", "summary"}, Days!JobEnds(which)
      PROVE  DayInv'
  BY <1>3 DEF Days!JobEnds
<1> QED
  BY <1>1, <1>2, <1>3

\* The risk limits of a cycle are about today's sales, whenever the process was started and
\* whatever job ran late, unless it slept through this morning's pre_market
\* (_restore_risk_state_if_needed and the reset of pre_market).
THEOREM LimitsAreToday == Days!Spec => []CycleCountsToday
<1>1. Days!Init => DayInv
  <2> SUFFICES ASSUME Days!Init PROVE DayInv
    OBVIOUS
  <2>1. restored \in BOOLEAN /\ unreset \in BOOLEAN
    BY DEF Days!Init
  <2>2. day = 1 /\ slot = 1 /\ registered = 0 /\ process = "down"
        /\ due = {} /\ running = {} /\ sold = 0 /\ counted = 0 /\ former = 0
    BY DEF Days!Init
  <2>3. DayTypes
    BY <2>1, <2>2, SlotsOrdered DEF DayTypes
  <2> QED
    BY <2>2, <2>3 DEF DayInv, DayPlaces, DayMemory
<1>2. DayInv /\ [Days!Next]_(Days!sessionVars) => DayInv'
  <2> SUFFICES ASSUME DayInv, [Days!Next]_(Days!sessionVars) PROVE DayInv'
    OBVIOUS
  <2>1. CASE UNCHANGED Days!sessionVars
    BY <2>1 DEF Days!sessionVars, Days!memory, DayInv, DayTypes, DayPlaces, DayMemory, Todays,
                Days!Closed
  <2> QED
    BY <2>1, NextSlotKeeps, ProcessKeeps, CronKeeps, CycleKeeps DEF Days!Next
<1>3. DayInv => CycleCountsToday
  BY DEF DayInv, DayMemory, Todays, CycleCountsToday, Days!CycleCountsToday
<1> QED
  BY <1>1, <1>2, <1>3, PTL DEF Days!Spec

-----------------------------------------------------------------------------
(* The stocks the engine watches.  The invariant is inductive as it stands: *)
(* rows are only added, the rotation keeps a part of the set and adds only  *)
(* fresh stocks, and a fresh stock has a row in the table that says it      *)
(* passed.                                                                  *)

\* A fresh stock owes it to its first row, which is in the table and passed.
LEMMA FreshHavePassed ==
    ASSUME NEW first \in Rotation!FirstRows
    PROVE  Rotation!Fresh(first) \subseteq {r.code : r \in {x \in rows : x.passed}}
<1> SUFFICES ASSUME NEW c \in Rotation!Fresh(first)
             PROVE  \E r \in {x \in rows : x.passed} : c = r.code
  OBVIOUS
<1>1. c \in Rotation!Seen /\ first[c].passed
  BY DEF Rotation!Fresh
<1>2. first[c] \in rows /\ first[c].code = c
  BY <1>1 DEF Rotation!FirstRows
<1> QED
  BY <1>1, <1>2

\* The rotation watches nothing but what it watched or what is fresh.
LEMMA RotatedWithin ==
    ASSUME NEW fresh, NEW s \in Rotation!Rotated(fresh)
    PROVE  s \subseteq screened \cup fresh
<1> DEFINE kept == IF fresh = {} THEN screened ELSE screened \cap fresh
<1>1. \E added \in SUBSET (fresh \ kept) : s = kept \cup added
  BY DEF Rotation!Rotated
<1>2. kept \subseteq screened
  OBVIOUS
<1> HIDE DEF kept
<1> QED
  BY <1>1, <1>2

\* Rows are never deleted within the day: what has passed remains so.
LEMMA PassedGrow ==
    ASSUME Rotation!MonitoredHavePassed, rows \subseteq rows', screened' \subseteq screened
    PROVE  Rotation!MonitoredHavePassed'
<1> SUFFICES ASSUME NEW c \in screened'
             PROVE  \E r \in {x \in rows' : x.passed} : c = r.code
  BY DEF Rotation!MonitoredHavePassed
<1>1. \E r \in {x \in rows : x.passed} : c = r.code
  BY DEF Rotation!MonitoredHavePassed
<1> QED
  BY <1>1

\* The worker's cycles write nothing before they are recorded.
LEMMA WorkerReads ==
    Rotation!RunScreening \/ Rotation!RunScreeningMultisource \/ Rotation!RunScreeningUs
        => UNCHANGED <<rows, screened>>
BY DEF Rotation!RunScreening, Rotation!RunScreeningMultisource, Rotation!RunScreeningUs, Rotation!Analyse

\* A reading of the engine.
LEMMA ScreenStocksKeeps == Rotation!MonitoredHavePassed /\ Rotation!ScreenStocks => Rotation!MonitoredHavePassed'
<1> SUFFICES ASSUME Rotation!MonitoredHavePassed, Rotation!ScreenStocks PROVE Rotation!MonitoredHavePassed'
  OBVIOUS
<1>1. PICK first \in Rotation!FirstRows : screened' \in Rotation!Rotated(Rotation!Fresh(first))
  BY DEF Rotation!ScreenStocks
<1>2. screened' \subseteq screened \cup Rotation!Fresh(first)
  BY <1>1, RotatedWithin
<1>3. Rotation!Fresh(first) \subseteq {r.code : r \in {x \in rows : x.passed}}
  BY <1>1, FreshHavePassed
<1>4. rows' = rows
  BY DEF Rotation!ScreenStocks
<1> QED
  BY <1>2, <1>3, <1>4 DEF Rotation!MonitoredHavePassed

\* The engine watches a stock only if the worker has passed it on this day.
THEOREM WatchedHavePassed == Rotation!Spec => []MonitoredHavePassed
<1>1. Rotation!Init => Rotation!MonitoredHavePassed
  BY DEF Rotation!Init, Rotation!MonitoredHavePassed
<1>2. Rotation!MonitoredHavePassed /\ [Rotation!Next]_(Rotation!screeningVars) => Rotation!MonitoredHavePassed'
  <2> SUFFICES ASSUME Rotation!MonitoredHavePassed, [Rotation!Next]_(Rotation!screeningVars) PROVE Rotation!MonitoredHavePassed'
    OBVIOUS
  <2>1. CASE Rotation!ScreenStocks
    BY <2>1, ScreenStocksKeeps
  <2>2. CASE Rotation!RunScreening \/ Rotation!RunScreeningMultisource \/ Rotation!RunScreeningUs
    BY <2>2, WorkerReads, PassedGrow
  <2>3. CASE Rotation!RecordToDb
    BY <2>3, PassedGrow DEF Rotation!RecordToDb
  <2>4. CASE Rotation!Restart
    BY <2>4, PassedGrow DEF Rotation!Restart
  <2>5. CASE Rotation!Tick \/ Rotation!ScreeningFails
    BY <2>5, PassedGrow DEF Rotation!Tick, Rotation!ScreeningFails
  <2>6. CASE \E c \in Stocks : Rotation!Watch(c) \/ Rotation!Unwatch(c)
    BY <2>6, PassedGrow DEF Rotation!Watch, Rotation!Unwatch
  <2>7. CASE UNCHANGED Rotation!screeningVars
    BY <2>7, PassedGrow DEF Rotation!screeningVars
  <2> QED
    BY <2>1, <2>2, <2>3, <2>4, <2>5, <2>6, <2>7 DEF Rotation!Next
<1>3. Rotation!MonitoredHavePassed => MonitoredHavePassed
  BY DEF MonitoredHavePassed
<1> QED
  BY <1>1, <1>2, <1>3, PTL DEF Rotation!Spec

-----------------------------------------------------------------------------
(* The price stream.  The invariant is inductive: a connection begins with  *)
(* an empty list (a reconnection) or with a list it is known not to have    *)
(* told the server of (a connect), only a send that got through adds to the *)
(* list while the connection lives, and the same step adds to what the      *)
(* server sends.                                                            *)

\* A call that is past its debounce changes the list and the server's together, unless
\* there is no connection to tell the server by.
LEMMA CallsKeepListed ==
    ASSUME Quotes!ListedIsSubscribed, NEW u \in Quotes!Callers, Quotes!AfterDebounce(u) \/ Quotes!Sent(u)
    PROVE  Quotes!ListedIsSubscribed'
<1>1. CASE Quotes!AfterDebounce(u)
  <2>1. CASE ws
    <3>1. UNCHANGED <<ws, alive, server, left, subs>>
      BY <1>1, <2>1 DEF Quotes!AfterDebounce, Quotes!conn
    <3> QED
      BY <3>1 DEF Quotes!ListedIsSubscribed
  <2>2. CASE ~ws
    <3>1. ~ws'
      BY <1>1, <2>2 DEF Quotes!AfterDebounce, Quotes!conn
    <3> QED
      BY <3>1 DEF Quotes!ListedIsSubscribed
  <2> QED
    BY <2>1, <2>2
<1>2. CASE Quotes!Sent(u)
  <2>1. UNCHANGED <<ws, alive, left>>
    BY <1>2 DEF Quotes!Sent, Quotes!conn
  <2>2. CASE call[u].op = "add"
    <3>1. subs' = subs \cup {call[u].code} /\ server' = server \cup {call[u].code}
      BY <1>2, <2>2 DEF Quotes!Sent, Quotes!Applied
    <3> QED
      BY <2>1, <3>1 DEF Quotes!ListedIsSubscribed
  <2>3. CASE call[u].op # "add"
    <3>1. subs' = subs \ {call[u].code} /\ server' = server \ {call[u].code}
      BY <1>2, <2>3 DEF Quotes!Sent, Quotes!Applied
    <3> QED
      BY <2>1, <3>1 DEF Quotes!ListedIsSubscribed
  <2> QED
    BY <2>2, <2>3
<1> QED
  BY <1>1, <1>2

\* Steps that end a connection, or begin one.
LEMMA ConnectionsKeepListed ==
    ASSUME \/ Quotes!Connect \/ Quotes!Disconnect \/ Quotes!Drop \/ Quotes!Noticed \/ Quotes!ReconnectFails
           \/ Quotes!Reconnects \/ Quotes!RestoreFails
    PROVE  Quotes!ListedIsSubscribed'
<1>1. CASE Quotes!Connect
  BY <1>1 DEF Quotes!Connect, Quotes!ListedIsSubscribed
<1>2. CASE Quotes!Reconnects
  BY <1>2 DEF Quotes!Reconnects, Quotes!ListedIsSubscribed
<1>3. CASE Quotes!Drop
  BY <1>3 DEF Quotes!Drop, Quotes!ListedIsSubscribed
<1>4. CASE Quotes!Disconnect \/ Quotes!Noticed \/ Quotes!ReconnectFails \/ Quotes!RestoreFails
  BY <1>4 DEF Quotes!Disconnect, Quotes!Noticed, Quotes!ReconnectFails, Quotes!RestoreFails, Quotes!ListedIsSubscribed
<1> QED
  BY <1>1, <1>2, <1>3, <1>4

\* On a live connection every stock the manager lists is one the server has been told
\* of on this connection, or one a connect after a give-up found listed.
THEOREM ListedAreSent == Quotes!Spec => []ListedIsSubscribed
<1>1. Quotes!Init => Quotes!ListedIsSubscribed
  BY DEF Quotes!Init, Quotes!ListedIsSubscribed
<1>2. Quotes!ListedIsSubscribed /\ [Quotes!Next]_(Quotes!quoteVars) => Quotes!ListedIsSubscribed'
  <2> SUFFICES ASSUME Quotes!ListedIsSubscribed, [Quotes!Next]_(Quotes!quoteVars) PROVE Quotes!ListedIsSubscribed'
    OBVIOUS
  <2>1. ASSUME NEW u \in Quotes!Callers, Quotes!AfterDebounce(u) \/ Quotes!Sent(u) PROVE Quotes!ListedIsSubscribed'
    BY <2>1, CallsKeepListed
  <2>2. CASE \/ Quotes!Connect \/ Quotes!Disconnect \/ Quotes!Drop \/ Quotes!Noticed \/ Quotes!ReconnectFails
             \/ Quotes!Reconnects \/ Quotes!RestoreFails
    BY <2>2, ConnectionsKeepListed
  <2>3. ASSUME NEW u \in Users, NEW c \in Codes,
               Quotes!Subscribe(u, c) \/ Quotes!Unsubscribe(u, c)
        PROVE  Quotes!ListedIsSubscribed'
    BY <2>3 DEF Quotes!Subscribe, Quotes!Unsubscribe, Quotes!conn, Quotes!ListedIsSubscribed
  <2>4. ASSUME NEW u \in Users, Quotes!SendFails(u) PROVE Quotes!ListedIsSubscribed'
    BY <2>4 DEF Quotes!SendFails, Quotes!conn, Quotes!ListedIsSubscribed
  <2>5. ASSUME NEW c \in Codes, Quotes!Restore(c) PROVE Quotes!ListedIsSubscribed'
    BY <2>5 DEF Quotes!Restore, Quotes!ListedIsSubscribed
  <2>6. CASE Quotes!Restored \/ Quotes!GiveUp
    BY <2>6 DEF Quotes!Restored, Quotes!GiveUp, Quotes!ListedIsSubscribed
  <2>7. CASE UNCHANGED Quotes!quoteVars
    BY <2>7 DEF Quotes!quoteVars, Quotes!ListedIsSubscribed
  <2> QED
    BY <2>1, <2>2, <2>3, <2>4, <2>5, <2>6, <2>7 DEF Quotes!Next
<1>3. Quotes!ListedIsSubscribed => ListedIsSubscribed
  BY DEF ListedIsSubscribed
<1> QED
  BY <1>1, <1>2, <1>3, PTL DEF Quotes!Spec

-----------------------------------------------------------------------------
(* The books of the day *)

BookReports ==
    [key : Kinds \X Markets, kind : Kinds, market : Markets, content : [Trades -> Nat],
     status : {"waiting", "done", "dead"}]
Loads == [Trades -> Nat] \cup {Books!None}

BookTypes ==
    /\ phase \in [Markets -> Books!Phases] /\ trades \in [Trades -> Nat]
    /\ reports \subseteq BookReports /\ promised \in [Markets -> SUBSET Kinds]
    /\ summary \in [Markets -> Loads] /\ txn \in [Markets -> [Books!Writers -> Loads]]

\* A count of a market's trades that was made after its reports were loaded.
NotLess(m, load) ==
    load # Books!None =>
        /\ phase[m] = "posted"
        /\ \A r \in reports : r.market = m => \A t \in Trades : r.content[t] <= load[t]

\* The reports of a market are queued in one step, from what the table has at that moment;
\* rows are only added to it, and whatever is made or counted later is made from those
\* reports or counted from the table.
BookFacts ==
    /\ \A r \in reports :
          /\ r.key = <<r.kind, r.market>> /\ phase[r.market] = "posted"
          /\ \A t \in Trades : r.content[t] <= Books!LoadedTrades(r.market)[t]
    /\ \A r, s \in reports : r.market = s.market => r.content = s.content
    /\ \A m \in Markets : \A k \in promised[m] : \E r \in reports : r.kind = k /\ r.market = m
    /\ \A x \in made : \E r \in reports : x.market = r.market /\ x.content = r.content
    /\ \A m \in Markets :
          /\ NotLess(m, summary[m])
          /\ \A w \in Books!Writers : NotLess(m, txn[m][w])

BookInv == BookTypes /\ BookFacts

\* Two reports that differ in how far they have come.
Alike(r, s) ==
    r.key = s.key /\ r.kind = s.kind /\ r.market = s.market /\ r.content = s.content

\* The tasks are the same as before, whatever has become of them.
SameReports ==
    /\ reports' \subseteq BookReports
    /\ \A r \in reports' : \E s \in reports : Alike(r, s)
    /\ \A s \in reports : \E r \in reports' : Alike(r, s)

LEMMA BecomesIsSame ==
    ASSUME reports \subseteq BookReports, NEW r \in reports,
           \/ reports' = reports
           \/ \E status \in {"waiting", "done", "dead"} : reports' = Books!Becomes(r, status)
    PROVE  SameReports
<1>1. CASE reports' = reports
  BY <1>1 DEF SameReports, Alike
<1>2. ASSUME NEW status \in {"waiting", "done", "dead"}, reports' = Books!Becomes(r, status)
      PROVE  SameReports
  <2> DEFINE s == [r EXCEPT !.status = status]
  <2>1. r \in BookReports
    OBVIOUS
  <2>2. s \in BookReports /\ Alike(s, r)
    BY <2>1 DEF BookReports, Alike
  <2>3. reports' = (reports \ {r}) \cup {s}
    BY <1>2 DEF Books!Becomes
  <2>4. \A x \in reports : Alike(x, x)
    BY DEF Alike
  <2> HIDE DEF s
  <2> QED
    BY <2>2, <2>3, <2>4 DEF SameReports
<1> QED
  BY <1>1, <1>2

LEMMA LoadsAreCounts ==
    ASSUME trades \in [Trades -> Nat], NEW m
    PROVE  Books!LoadedTrades(m) \in [Trades -> Nat] /\ Books!NoTrades \in [Trades -> Nat]
  BY DEF Books!LoadedTrades, Books!NoTrades

\* What every step but the queueing of reports does.
LEMMA BooksGoOn ==
    ASSUME BookInv, BookTypes', SameReports, promised' = promised,
           \A t \in Trades : trades[t] <= trades'[t],
           \A m \in Markets : phase[m] = "posted" => phase'[m] = "posted",
           \A x \in made' : \/ x \in made
                            \/ \E r \in reports : x.market = r.market /\ x.content = r.content,
           \A m \in Markets : \/ summary'[m] = summary[m]
                              \/ \E w \in Books!Writers : summary'[m] = txn[m][w],
           \A m \in Markets, w \in Books!Writers :
              \/ txn'[m][w] \in {txn[m][w], Books!None}
              \/ phase[m] = "posted" /\ txn'[m][w] = Books!LoadedTrades(m)
    PROVE  BookInv'
<1> USE DEF BookInv
<1>1. \A r \in reports' : \E s \in reports : Alike(r, s) /\ s \in BookReports
  BY DEF SameReports, BookTypes
<1>2. ASSUME NEW m, NEW t \in Trades
      PROVE  Books!LoadedTrades(m)[t] <= Books!LoadedTrades(m)'[t]
  BY DEF Books!LoadedTrades, BookTypes
<1>3. ASSUME NEW r \in reports'
      PROVE  /\ r.key = <<r.kind, r.market>> /\ phase'[r.market] = "posted"
             /\ \A t \in Trades : r.content[t] <= Books!LoadedTrades(r.market)'[t]
  <2>1. PICK s \in reports : Alike(r, s) /\ s \in BookReports
    BY <1>1
  <2>2. s.market \in Markets /\ s.content \in [Trades -> Nat]
    BY <2>1 DEF BookReports
  <2>3. r.key = <<r.kind, r.market>> /\ phase'[r.market] = "posted"
    BY <2>1, <2>2 DEF Alike, BookFacts
  <2>4. ASSUME NEW t \in Trades PROVE r.content[t] <= Books!LoadedTrades(r.market)'[t]
    <3> DEFINE before == Books!LoadedTrades(s.market)
    <3>1. before[t] \in Nat /\ before'[t] \in Nat
      BY LoadsAreCounts DEF BookTypes, Books!LoadedTrades
    <3>2. s.content[t] \in Nat /\ s.content[t] <= before[t]
      BY <2>1, <2>2 DEF BookFacts
    <3>3. before[t] <= before'[t]
      BY <1>2
    <3> HIDE DEF before
    <3>4. s.content[t] <= before'[t]
      BY <3>1, <3>2, <3>3
    <3> QED
      BY <2>1, <3>4 DEF Alike, before
  <2> QED
    BY <2>3, <2>4
<1>4. \A r, s \in reports' : r.market = s.market => r.content = s.content
  BY <1>1 DEF Alike, BookFacts
<1>5. \A m \in Markets : \A k \in promised'[m] : \E r \in reports' : r.kind = k /\ r.market = m
  BY DEF SameReports, Alike, BookFacts
<1>6. \A x \in made' : \E r \in reports' : x.market = r.market /\ x.content = r.content
  BY DEF SameReports, Alike, BookFacts
<1>7. ASSUME NEW m \in Markets, NEW load, NotLess(m, load),
             load # Books!None, NEW r \in reports', r.market = m
      PROVE  phase'[m] = "posted" /\ \A t \in Trades : r.content[t] <= load[t]
  BY <1>1, <1>7 DEF NotLess, Alike
<1>8. ASSUME NEW m \in Markets, NEW r \in reports', r.market = m
      PROVE  \A t \in Trades : r.content[t] <= Books!LoadedTrades(m)[t]
  BY <1>1, <1>8 DEF BookFacts, Alike
<1>9. ASSUME NEW m \in Markets PROVE NotLess(m, summary[m])'
  <2> SUFFICES ASSUME summary'[m] # Books!None
               PROVE  /\ phase'[m] = "posted"
                      /\ \A r \in reports' : r.market = m =>
                            \A t \in Trades : r.content[t] <= summary'[m][t]
    BY DEF NotLess
  <2>1. PICK load : summary'[m] = load /\ NotLess(m, load)
    BY DEF BookFacts
  <2> QED
    BY <1>7, <2>1 DEF NotLess
<1>10. ASSUME NEW m \in Markets, NEW w \in Books!Writers PROVE NotLess(m, txn[m][w])'
  <2> SUFFICES ASSUME txn'[m][w] # Books!None
               PROVE  /\ phase'[m] = "posted"
                      /\ \A r \in reports' : r.market = m =>
                            \A t \in Trades : r.content[t] <= txn'[m][w][t]
    BY DEF NotLess
  <2>1. CASE txn'[m][w] = txn[m][w]
    <3>1. NotLess(m, txn[m][w])
      BY DEF BookFacts
    <3> QED
      BY <1>7, <2>1, <3>1 DEF NotLess
  <2>2. CASE phase[m] = "posted" /\ txn'[m][w] = Books!LoadedTrades(m)
    BY <1>8, <2>2
  <2> QED
    BY <2>1, <2>2
<1>11. BookFacts'
  BY <1>3, <1>4, <1>5, <1>6, <1>9, <1>10 DEF BookFacts
<1> QED
  BY <1>11

\* The queue and the closing of a market.
LEMMA QueueKeepsBooks ==
    ASSUME BookInv,
           \/ \E t \in Trades : Books!Fill(t) \/ Books!RecordTrade(t)
           \/ \E m \in Markets : Books!PostMarketCancel(m) \/ Books!PostMarketFails(m)
    PROVE  BookInv'
<1> USE DEF BookInv
<1>1. reports' = reports /\ made' = made /\ promised' = promised /\ summary' = summary
      /\ txn' = txn
  BY DEF Books!Fill, Books!RecordTrade, Books!PostMarketCancel, Books!PostMarketFails
<1>2. SameReports
  BY <1>1 DEF SameReports, Alike, BookTypes
<1>3. trades' \in [Trades -> Nat] /\ \A t \in Trades : trades[t] <= trades'[t]
  BY DEF Books!Fill, Books!RecordTrade, Books!PostMarketCancel, Books!PostMarketFails, BookTypes
<1>4. phase' \in [Markets -> Books!Phases]
      /\ \A m \in Markets : phase[m] = "posted" => phase'[m] = "posted"
  BY DEF Books!Fill, Books!RecordTrade, Books!PostMarketCancel, Books!PostMarketFails, BookTypes,
         Books!Phases
<1>5. BookTypes'
  BY <1>1, <1>3, <1>4 DEF BookTypes
<1> QED
  BY <1>1, <1>2, <1>3, <1>4, <1>5, BooksGoOn

\* The handlers of the worker, and the summary job.
LEMMA HandlersKeepBooks ==
    ASSUME BookInv,
           \/ \E r \in reports :
                 Books!HandleReport(r) \/ Books!HandleSummaryRead(r) \/ Books!HandleSummaryEnds(r)
           \/ \E m \in Markets : Books!SummaryJobRead(m) \/ Books!SummaryJobEnds(m)
    PROVE  BookInv'
<1> USE DEF BookInv
<1>0. Books!None \in Loads
  BY DEF Loads
<1>1. ASSUME NEW r \in reports, Books!HandleReport(r) PROVE BookInv'
  <2>1. UNCHANGED <<phase, queued, trades, promised, summary, txn>>
    BY <1>1 DEF Books!HandleReport
  <2>2. SameReports
    BY <1>1, BecomesIsSame DEF Books!HandleReport, Books!Retried, BookTypes
  <2>3. \A x \in made' : x \in made \/ (x.market = r.market /\ x.content = r.content)
    BY <1>1 DEF Books!HandleReport, Books!Report
  <2>4. BookTypes'
    BY <2>1, <2>2 DEF BookTypes, SameReports
  <2>5. \A t \in Trades : trades[t] <= trades'[t]
    BY <2>1 DEF BookTypes
  <2> QED
    BY <2>1, <2>2, <2>3, <2>4, <2>5, BooksGoOn
<1>2. ASSUME NEW m \in Markets, NEW w \in Books!Writers, phase[m] = "posted",
             Books!SummaryRead(w, m),
             UNCHANGED <<phase, queued, trades, reports, promised, summary, made>>
      PROVE  BookInv'
  <2>1. Books!LoadedTrades(m) \in Loads
    BY LoadsAreCounts DEF BookTypes, Loads
  <2>2. txn' \in [Markets -> [Books!Writers -> Loads]]
    BY <1>2, <2>1 DEF Books!SummaryRead, BookTypes
  <2>3. BookTypes'
    BY <1>2, <2>2 DEF BookTypes
  <2>4. SameReports
    BY <1>2 DEF SameReports, Alike, BookTypes
  <2>5. \A t \in Trades : trades[t] <= trades'[t]
    BY <1>2 DEF BookTypes
  <2>6. \A n \in Markets, v \in Books!Writers :
           txn'[n][v] = txn[n][v] \/ (n = m /\ txn'[n][v] = Books!LoadedTrades(m))
    BY <1>2 DEF Books!SummaryRead, BookTypes
  <2> QED
    BY <1>2, <2>3, <2>4, <2>5, <2>6, BooksGoOn
<1>3. ASSUME NEW m \in Markets, NEW w \in Books!Writers,
             Books!SummaryWrite(w, m) \/ Books!SummaryFails(w, m),
             UNCHANGED <<phase, queued, trades, promised, made>>, SameReports
      PROVE  BookInv'
  <2>1. txn' \in [Markets -> [Books!Writers -> Loads]]
        /\ \A n \in Markets, v \in Books!Writers : txn'[n][v] \in {txn[n][v], Books!None}
    <3>1. txn' = [txn EXCEPT ![m][w] = Books!None]
      BY <1>3 DEF Books!SummaryWrite, Books!SummaryFails
    <3> QED
      BY <1>0, <3>1 DEF BookTypes
  <2>2. summary' \in [Markets -> Loads]
        /\ \A n \in Markets : summary'[n] = summary[n] \/ summary'[n] = txn[n][w]
    BY <1>3 DEF Books!SummaryWrite, Books!SummaryFails, Books!RowOf, BookTypes
  <2>3. BookTypes'
    BY <1>3, <2>1, <2>2 DEF BookTypes, SameReports
  <2>4. \A t \in Trades : trades[t] <= trades'[t]
    BY <1>3 DEF BookTypes
  <2> QED
    BY <1>3, <2>1, <2>2, <2>3, <2>4, BooksGoOn
<1>4. ASSUME NEW r \in reports,
             Books!HandleSummaryRead(r) \/ Books!HandleSummaryEnds(r)
      PROVE  BookInv'
  <2>1. r.market \in Markets /\ phase[r.market] = "posted"
    BY DEF BookTypes, BookFacts, BookReports
  <2>2. CASE Books!HandleSummaryRead(r)
    BY <1>2, <2>1, <2>2 DEF Books!HandleSummaryRead, Books!Writers
  <2>3. CASE Books!HandleSummaryEnds(r)
    <3>1. SameReports
      BY <2>3, BecomesIsSame DEF Books!HandleSummaryEnds, Books!Retried, BookTypes
    <3> QED
      BY <1>3, <2>1, <2>3, <3>1 DEF Books!HandleSummaryEnds, Books!Writers
  <2> QED
    BY <1>4, <2>2, <2>3
<1>5. ASSUME NEW m \in Markets, Books!SummaryJobRead(m) \/ Books!SummaryJobEnds(m)
      PROVE  BookInv'
  <2>1. CASE Books!SummaryJobRead(m)
    BY <1>2, <2>1 DEF Books!SummaryJobRead, Books!Writers
  <2>2. CASE Books!SummaryJobEnds(m)
    <3>1. SameReports
      BY <2>2 DEF Books!SummaryJobEnds, SameReports, Alike, BookTypes
    <3> QED
      BY <1>3, <2>2, <3>1 DEF Books!SummaryJobEnds, Books!Writers
  <2> QED
    BY <1>5, <2>1, <2>2
<1> QED
  BY <1>1, <1>4, <1>5

\* post_market queues the reports of a market that has none yet.
LEMMA ReportsKeepBooks ==
    ASSUME BookInv, NEW m \in Markets, Books!PostMarketReport(m)
    PROVE  BookInv'
<1> USE DEF BookInv
<1>1. PICK content \in {Books!LoadedTrades(m), Books!NoTrades}, kinds \in SUBSET Kinds :
         reports' = Books!Enqueued(kinds, m, content)
         /\ promised' = [promised EXCEPT ![m] = kinds]
  BY DEF Books!PostMarketReport
<1>2. phase[m] = "cancelled" /\ phase' = [phase EXCEPT ![m] = "posted"]
      /\ UNCHANGED <<queued, trades, summary, made, txn>>
  BY DEF Books!PostMarketReport
<1> DEFINE new == {[key |-> <<k, m>>, kind |-> k, market |-> m, content |-> content,
                    status |-> "waiting"] : k \in {x \in kinds : \A r \in reports : r.key # <<x, m>>}}
<1>3. reports' = reports \cup new
  BY <1>1 DEF Books!Enqueued, Books!Key
<1>4. content \in [Trades -> Nat]
      /\ \A t \in Trades : content[t] <= Books!LoadedTrades(m)[t]
  BY <1>1, LoadsAreCounts DEF BookTypes, Books!NoTrades, Books!LoadedTrades
<1>5. \A r \in new : /\ r \in BookReports /\ r.key = <<r.kind, r.market>>
                     /\ r.market = m /\ r.content = content
  BY <1>4 DEF BookReports
<1>6. ASSUME NEW r \in reports PROVE r.market # m /\ r.market \in Markets
  BY <1>2 DEF BookFacts, BookTypes, BookReports
<1>7. ASSUME NEW k \in kinds PROVE \E r \in reports' : r.kind = k /\ r.market = m
  <2>1. CASE \A r \in reports : r.key # <<k, m>>
    <3> DEFINE r == [key |-> <<k, m>>, kind |-> k, market |-> m, content |-> content,
                     status |-> "waiting"]
    <3>1. r \in new /\ r.kind = k /\ r.market = m
      BY <2>1
    <3> HIDE DEF r, new
    <3> QED
      BY <1>3, <3>1
  <2>2. CASE \E r \in reports : r.key = <<k, m>>
    BY <1>3, <2>2 DEF BookFacts
  <2> QED
    BY <2>1, <2>2
<1> HIDE DEF new
<1>8. BookTypes'
  <2>1. reports' \subseteq BookReports
    BY <1>3, <1>5 DEF BookTypes
  <2>2. phase' \in [Markets -> Books!Phases]
    BY <1>2 DEF BookTypes, Books!Phases
  <2>3. promised' \in [Markets -> SUBSET Kinds]
    BY <1>1 DEF BookTypes
  <2> QED
    BY <1>2, <2>1, <2>2, <2>3 DEF BookTypes
<1>9. \A n : Books!LoadedTrades(n)' = Books!LoadedTrades(n)
  BY <1>2 DEF Books!LoadedTrades
<1>10. ASSUME NEW r \in reports'
       PROVE  /\ r.key = <<r.kind, r.market>> /\ phase'[r.market] = "posted"
              /\ \A t \in Trades : r.content[t] <= Books!LoadedTrades(r.market)'[t]
  <2>1. CASE r \in reports
    BY <1>2, <1>6, <1>9, <2>1 DEF BookFacts, BookTypes
  <2>2. CASE r \in new
    BY <1>2, <1>4, <1>5, <1>9, <2>2 DEF BookTypes
  <2> QED
    BY <1>3, <2>1, <2>2
<1>11. \A r, s \in reports' : r.market = s.market => r.content = s.content
  BY <1>3, <1>5, <1>6 DEF BookFacts
<1>12. \A n \in Markets : \A k \in promised'[n] : \E r \in reports' : r.kind = k /\ r.market = n
  <2> SUFFICES ASSUME NEW n \in Markets, NEW k \in promised'[n]
               PROVE  \E r \in reports' : r.kind = k /\ r.market = n
    OBVIOUS
  <2>1. CASE n = m
    BY <1>1, <1>7, <2>1 DEF BookTypes
  <2>2. CASE n # m
    BY <1>1, <1>3, <2>2 DEF BookTypes, BookFacts
  <2> QED
    BY <2>1, <2>2
<1>13. \A x \in made' : \E r \in reports' : x.market = r.market /\ x.content = r.content
  BY <1>2, <1>3 DEF BookFacts
<1>14. ASSUME NEW n \in Markets, NEW load, NotLess(n, load)
       PROVE  load # Books!None =>
                 /\ phase'[n] = "posted"
                 /\ \A r \in reports' : r.market = n => \A t \in Trades : r.content[t] <= load[t]
  <2>1. CASE n = m
    BY <1>2, <1>14, <2>1 DEF NotLess
  <2>2. CASE n # m
    BY <1>2, <1>3, <1>5, <1>14, <2>2 DEF NotLess, BookTypes
  <2> QED
    BY <2>1, <2>2
<1>15. \A n \in Markets : NotLess(n, summary[n])'
                          /\ \A w \in Books!Writers : NotLess(n, txn[n][w])'
  <2>1. \A n \in Markets : NotLess(n, summary[n])
                           /\ \A w \in Books!Writers : NotLess(n, txn[n][w])
    BY DEF BookFacts
  <2> QED
    BY <1>2, <1>14, <2>1 DEF NotLess
<1>16. BookFacts'
  BY <1>10, <1>11, <1>12, <1>13, <1>15 DEF BookFacts
<1> QED
  BY <1>8, <1>16

LEMMA BooksInitial == Books!Init => BookInv
<1> SUFFICES ASSUME Books!Init PROVE BookInv
  OBVIOUS
<1>1. BookTypes
  BY DEF Books!Init, BookTypes, Loads, Books!None, Books!NoTrades, Books!Phases
<1>2. BookFacts
  BY DEF Books!Init, BookFacts, NotLess
<1> QED
  BY <1>1, <1>2 DEF BookInv

LEMMA BooksStep == BookInv /\ [Books!Next]_(Books!dayVars) => BookInv'
<1> SUFFICES ASSUME BookInv, [Books!Next]_(Books!dayVars) PROVE BookInv'
  OBVIOUS
<1>1. CASE UNCHANGED Books!dayVars
  BY <1>1 DEF Books!dayVars, BookInv, BookTypes, BookFacts, NotLess, Books!LoadedTrades
<1> QED
  BY <1>1, QueueKeepsBooks, HandlersKeepBooks, ReportsKeepBooks DEF Books!Next

\* A report that was accepted for a market is a task of that market, though the markets share
\* the queue and the date (the idempotency keys of post_market).
THEOREM AcceptedReportsAreQueued == Books!Spec => []AcceptedIsQueued
<1>1. BookInv => AcceptedIsQueued
  BY DEF BookInv, BookFacts, AcceptedIsQueued, Books!AcceptedIsQueued
<1> QED
  BY BooksInitial, BooksStep, <1>1, PTL DEF Books!Spec

\* The reports of a market tell the same day, and its summary row, by whichever of worker and
\* job it was written last, has no trade less.
THEOREM ReportsOfADayAgree == Books!Spec => []ReportsAgree
<1>1. BookInv => ReportsAgree
  <2> SUFFICES ASSUME BookInv, NEW x \in made
               PROVE  /\ \A y \in made : y.market = x.market => y.content = x.content
                      /\ summary[x.market] # Books!None =>
                            \A t \in Trades : x.content[t] <= summary[x.market][t]
    BY DEF ReportsAgree, Books!ReportsAgree
  <2>1. PICK r \in reports : x.market = r.market /\ x.content = r.content
    BY DEF BookInv, BookFacts
  <2>2. r.market \in Markets
    BY DEF BookInv, BookTypes, BookReports
  <2>3. \A y \in made : y.market = x.market => y.content = x.content
    BY <2>1 DEF BookInv, BookFacts
  <2>4. NotLess(r.market, summary[r.market])
    BY <2>2 DEF BookInv, BookFacts
  <2> QED
    BY <2>1, <2>3, <2>4 DEF NotLess
<1> QED
  BY BooksInitial, BooksStep, <1>1, PTL DEF Books!Spec

-----------------------------------------------------------------------------
(* The news collectors *)

NewsItems == [feed : Feeds \cup {Dart}, at : Nat, tracked : BOOLEAN]

NewsCycles ==
    [of : News!Collectors \cup {"nobody"}, since : Int, left : SUBSET (Feeds \cup {Dart}),
     docs : SUBSET Nat, unread : SUBSET Nat]

NewsTypes ==
    /\ clock \in Nat /\ published \in Seq(NewsItems)
    /\ lastCollected \in [News!Collectors -> Nat \cup {News!Never}]
    /\ collecting \in NewsCycles

Its(i) == News!CollectorOf(published[i].feed)

\* What the cycle under way has asked for: whatever of it is tracked was read or is known
\* not to have been.
CycleCovers ==
    collecting # News!Idle =>
        /\ collecting.of \in News!Collectors
        /\ lastCollected[collecting.of] # News!Never =>
              collecting.since = lastCollected[collecting.of]
        /\ \A i \in DOMAIN published :
              Its(i) = collecting.of /\ published[i].feed \notin collecting.left =>
                  \/ i \in collecting.docs \cup collecting.unread
                  \/ ~published[i].tracked
                  \/ i \notin News!Window(published[i].feed, collecting.since)

\* What no later cycle asks for was recorded or is known not to have been read.
Explained ==
    \A i \in DOMAIN published :
        \/ i \in chunks \cup excused
        \/ ~published[i].tracked
        \/ lastCollected[Its(i)] = News!Never
        \/ i \in News!Window(published[i].feed, lastCollected[Its(i)])

NewsInv == NewsTypes /\ CycleCovers /\ Explained

LEMMA DaysGrow ==
    ASSUME NEW a \in Nat, NEW b \in Nat, a <= b
    PROVE  News!Day(a) <= News!Day(b)
<1>1. DayLength \in Nat /\ DayLength > 0
  BY NewsAssumption
<1>2. ASSUME NEW x \in Nat
      PROVE  /\ x \div DayLength \in Nat
             /\ DayLength * (x \div DayLength) <= x
             /\ x < DayLength * (x \div DayLength) + DayLength
  BY <1>1
<1> QED
  BY <1>1, <1>2 DEF News!Day

LEMMA CollectorsOfFeeds ==
    ASSUME NEW feed \in Feeds \cup {Dart}, NEW c \in News!Collectors
    PROVE  /\ News!CollectorOf(feed) \in News!Collectors
           /\ feed \in News!FeedsOf(c) <=> News!CollectorOf(feed) = c
           /\ News!FeedsOf(c) \subseteq Feeds \cup {Dart}
  BY NewsAssumption DEF News!Collectors, News!CollectorOf, News!FeedsOf

\* Publishing.
LEMMA PublishKeeps ==
    ASSUME NewsInv, News!Publish
    PROVE  NewsInv'
<1> USE DEF NewsInv
<1>1. PICK feed \in Feeds \cup {Dart}, tracked \in BOOLEAN, stamp \in {clock, clock - 1} :
          /\ stamp >= 0
          /\ feed = Dart => stamp = clock
          /\ published' = Append(published, [feed |-> feed, at |-> stamp, tracked |-> tracked])
          /\ excused' = IF stamp < News!Since(News!CollectorOf(feed))
                        THEN excused \cup {Len(published) + 1} ELSE excused
          /\ collecting' = IF collecting.of = News!CollectorOf(feed) /\ feed \notin collecting.left
                           THEN [collecting EXCEPT !.unread = @ \cup {Len(published) + 1}]
                           ELSE collecting
  BY DEF News!Publish
<1>0. PICK n : n = Len(published) + 1
  OBVIOUS
<1> DEFINE item == [feed |-> feed, at |-> stamp, tracked |-> tracked]
           c == News!CollectorOf(feed)
<1>2. UNCHANGED <<clock, chunks, lastCollected>>
  BY DEF News!Publish
<1>3. stamp \in Nat /\ clock \in Nat /\ item \in NewsItems /\ stamp <= clock
  BY <1>1 DEF NewsTypes, NewsItems
<1>4. /\ published' \in Seq(NewsItems) /\ n \in Nat
      /\ DOMAIN published' = DOMAIN published \cup {n} /\ n \notin DOMAIN published
      /\ published'[n] = item
      /\ \A i \in DOMAIN published : published'[i] = published[i] /\ published[i] \in NewsItems
  BY <1>0, <1>1, <1>3 DEF NewsTypes
<1>5. c \in News!Collectors
  BY CollectorsOfFeeds, NewsAssumption DEF News!Collectors, News!CollectorOf
<1>6. collecting' \in NewsCycles
  BY <1>0, <1>1, <1>4 DEF NewsTypes, NewsCycles
<1>7. NewsTypes'
  BY <1>2, <1>4, <1>6 DEF NewsTypes
<1>8. \A i \in DOMAIN published : \A since :
         i \in News!Window(published[i].feed, since)'
         <=> i \in News!Window(published[i].feed, since)
  BY <1>4 DEF News!Window, News!Items
<1>9. /\ collecting'.of = collecting.of /\ collecting'.since = collecting.since
      /\ collecting'.left = collecting.left /\ collecting'.docs = collecting.docs
      /\ collecting.unread \subseteq collecting'.unread
      /\ collecting.of = c /\ feed \notin collecting.left => n \in collecting'.unread
  BY <1>0, <1>1 DEF NewsTypes, NewsCycles
<1>10. collecting' # News!Idle => collecting # News!Idle
  <2>1. News!Idle.of = "nobody" /\ "nobody" \notin News!Collectors
    BY DEF News!Idle, News!Collectors
  <2> QED
    BY <1>1, <1>5, <2>1
<1>11. Its(n)' = c /\ published'[n].feed = feed /\ published'[n].at = stamp
  BY <1>4 DEF Its, News!CollectorOf
<1>12. \A i \in DOMAIN published : Its(i)' = Its(i)
  BY <1>4 DEF Its, News!CollectorOf
<1> HIDE DEF item, c
<1>13. CycleCovers'
  <2> SUFFICES ASSUME collecting' # News!Idle, collecting # News!Idle
               PROVE  /\ collecting'.of \in News!Collectors
                      /\ lastCollected[collecting'.of] # News!Never =>
                            collecting'.since = lastCollected[collecting'.of]
                      /\ \A i \in DOMAIN published' :
                            Its(i)' = collecting'.of /\ published'[i].feed \notin collecting'.left =>
                               \/ i \in collecting'.docs \cup collecting'.unread
                               \/ ~published'[i].tracked
                               \/ i \notin News!Window(published[i].feed, collecting.since)'
    BY <1>2, <1>10 DEF CycleCovers
  <2>1. ASSUME NEW i \in DOMAIN published, Its(i) = collecting.of,
               published[i].feed \notin collecting.left
        PROVE  \/ i \in collecting.docs \cup collecting.unread
               \/ ~published[i].tracked
               \/ i \notin News!Window(published[i].feed, collecting.since)
    BY <2>1 DEF CycleCovers
  <2>2. ASSUME NEW i \in DOMAIN published', Its(i)' = collecting'.of,
               published'[i].feed \notin collecting'.left
        PROVE  \/ i \in collecting'.docs \cup collecting'.unread
               \/ ~published'[i].tracked
               \/ i \notin News!Window(published[i].feed, collecting.since)'
    <3>1. CASE i = n
      BY <1>9, <1>11, <2>2, <3>1
    <3>2. CASE i \in DOMAIN published
      BY <1>4, <1>8, <1>9, <1>12, <2>1, <2>2, <3>2
    <3> QED
      BY <1>4, <3>1, <3>2
  <2>3. collecting'.of \in News!Collectors
        /\ (lastCollected[collecting'.of] # News!Never =>
               collecting'.since = lastCollected[collecting'.of])
    BY <1>9 DEF CycleCovers
  <2> QED
    BY <2>2, <2>3
<1>14. Explained'
  <2> SUFFICES ASSUME NEW i \in DOMAIN published'
               PROVE  \/ i \in chunks \cup excused'
                      \/ ~published'[i].tracked
                      \/ lastCollected[Its(i)]' = News!Never
                      \/ i \in News!Window(published[i].feed, lastCollected[Its(i)])'
    BY <1>2 DEF Explained
  <2>1. CASE i \in DOMAIN published
    <3>1. excused \subseteq excused'
      BY <1>1
    <3> QED
      BY <1>2, <1>4, <1>8, <1>12, <2>1, <3>1 DEF Explained
  <2>2. CASE i = n
    <3>1. CASE stamp < News!Since(c)
      BY <1>0, <1>1, <2>2, <3>1 DEF c
    <3>2. CASE lastCollected[c] # News!Never /\ ~(stamp < News!Since(c))
      <4>1. lastCollected[c] \in Nat /\ lastCollected[c] <= stamp
        BY <1>3, <1>5, <3>2 DEF News!Since, NewsTypes, News!Never
      <4>2. News!Day(lastCollected[c]) <= News!Day(stamp)
        BY <1>3, <4>1, DaysGrow
      <4>3. News!Day(lastCollected[c]) \in Int /\ News!Day(stamp) \in Int
        BY <1>3, <4>1, NewsAssumption DEF News!Day
      <4>4. n \in News!Window(feed, lastCollected[c])'
        BY <1>2, <1>3, <1>4, <1>11, <4>1, <4>2, <4>3 DEF News!Window, News!Items, News!Day
      <4> QED
        BY <1>2, <1>11, <2>2, <4>4
    <3> QED
      BY <1>2, <1>11, <2>2, <3>1, <3>2
  <2> QED
    BY <1>4, <2>1, <2>2
<1> QED
  BY <1>7, <1>13, <1>14

\* A cycle begins, asks its feeds one by one, and ends.
LEMMA CollectKeeps ==
    ASSUME NewsInv,
           \/ News!Tick \/ News!CycleFails
           \/ \E c \in News!Collectors : News!StartCycle(c)
           \/ \E feed \in Feeds \cup {Dart} : News!Fetch(feed) \/ News!FeedSkipped(feed)
    PROVE  NewsInv'
<1> USE DEF NewsInv
<1>1. UNCHANGED <<published, chunks, lastCollected, excused>>
  BY DEF News!Tick, News!CycleFails, News!StartCycle, News!Fetch, News!FeedSkipped, News!Answered
<1>2. \A i : Its(i)' = Its(i)
  BY <1>1 DEF Its, News!CollectorOf
<1>3. \A i, since : i \in News!Window(published[i].feed, since)'
                    <=> i \in News!Window(published[i].feed, since)
  BY <1>1 DEF News!Window, News!Items
<1>4. Explained'
  BY <1>1, <1>2, <1>3 DEF Explained
<1>5. ASSUME collecting' = News!Idle, clock' \in Nat PROVE NewsInv'
  <2>1. News!Idle \in NewsCycles
    BY DEF NewsCycles, News!Idle, News!Never
  <2> QED
    BY <1>1, <1>4, <1>5, <2>1 DEF NewsTypes, CycleCovers
<1>6. CASE News!Tick
  <2>1. collecting' = collecting /\ clock' \in Nat
    BY <1>6 DEF News!Tick, NewsTypes
  <2>2. CycleCovers'
    BY <1>1, <1>2, <1>3, <2>1 DEF CycleCovers
  <2> QED
    BY <1>1, <1>4, <2>1, <2>2 DEF NewsTypes
<1>7. CASE News!CycleFails
  BY <1>5, <1>7 DEF News!CycleFails, NewsTypes
<1>8. ASSUME NEW c \in News!Collectors, News!StartCycle(c) PROVE NewsInv'
  <2>1. News!Since(c) \in Int
        /\ (lastCollected[c] # News!Never => News!Since(c) = lastCollected[c])
    BY NewsAssumption DEF News!Since, NewsTypes, News!Never
  <2>2. collecting' = [of |-> c, since |-> News!Since(c), left |-> News!FeedsOf(c),
                       docs |-> {}, unread |-> {}] /\ clock' = clock
    BY <1>8 DEF News!StartCycle
  <2>6. News!FeedsOf(c) \subseteq Feeds \cup {Dart}
    BY DEF News!FeedsOf
  <2>8. collecting' \in NewsCycles
    BY <2>1, <2>2, <2>6 DEF NewsCycles
  <2>3. NewsTypes'
    BY <1>1, <2>2, <2>8 DEF NewsTypes
  <2>4. \A i \in DOMAIN published : Its(i) = c => published[i].feed \in News!FeedsOf(c)
    <3>1. \A i \in DOMAIN published : published[i].feed \in Feeds \cup {Dart}
      <4>1. \A i \in DOMAIN published : published[i] \in NewsItems
        BY DEF NewsTypes
      <4> QED
        BY <4>1 DEF NewsItems
    <3> QED
      BY <3>1, CollectorsOfFeeds DEF Its
  <2>7. collecting'.of = c /\ collecting'.since = News!Since(c)
        /\ collecting'.left = News!FeedsOf(c)
    BY <2>2
  <2>5. CycleCovers'
    <3>1. ASSUME NEW i \in DOMAIN published', Its(i)' = collecting'.of
          PROVE  published'[i].feed \in collecting'.left
      BY <1>1, <1>2, <2>4, <2>7, <3>1
    <3>2. collecting'.of \in News!Collectors
          /\ (lastCollected'[collecting'.of] # News!Never =>
                 collecting'.since = lastCollected'[collecting'.of])
      BY <1>1, <2>1, <2>7
    <3> QED
      BY <3>1, <3>2 DEF CycleCovers
  <2> QED
    BY <1>4, <2>3, <2>5
<1>9. ASSUME NEW feed \in Feeds \cup {Dart}, News!Fetch(feed) \/ News!FeedSkipped(feed)
      PROVE  NewsInv'
  <2>1. feed \in collecting.left /\ clock' = clock /\ collecting # News!Idle
    <3>1. News!Idle.left = {}
      BY DEF News!Idle
    <3> QED
      BY <1>9, <3>1 DEF News!Fetch, News!FeedSkipped, News!Answered
  <2>3. DOMAIN published \subseteq Nat /\ collecting \in NewsCycles
    BY DEF NewsTypes
  <2>2. PICK docs, unread :
           /\ collecting' \in NewsCycles
           /\ collecting'.of = collecting.of /\ collecting'.since = collecting.since
           /\ collecting'.left = collecting.left \ {feed}
           /\ collecting'.docs = collecting.docs \cup docs
           /\ collecting'.unread = collecting.unread \cup unread
           /\ docs \subseteq DOMAIN published /\ unread \subseteq DOMAIN published
           /\ \A i \in News!Window(feed, collecting.since) :
                 i \in docs \cup unread \/ ~published[i].tracked
    <3>1. CASE News!Fetch(feed)
      <4> DEFINE window == News!Window(feed, collecting.since)
                 docs == {i \in News!Page(feed, window) : published[i].tracked}
                 unread == window \ News!Page(feed, window)
      <4>1. collecting' = [collecting EXCEPT !.left = @ \ {feed}, !.docs = @ \cup docs,
                                             !.unread = @ \cup unread]
        BY <3>1 DEF News!Fetch, News!Answered
      <4>2. window \subseteq DOMAIN published /\ News!Page(feed, window) \subseteq window
        BY DEF News!Window, News!Items, News!Page
      <4> HIDE DEF window
      <4>3. /\ docs \subseteq DOMAIN published /\ unread \subseteq DOMAIN published
            /\ \A i \in window : i \in docs \cup unread \/ ~published[i].tracked
        BY <4>2
      <4> HIDE DEF docs, unread
      <4>4. collecting' \in NewsCycles
        BY <2>3, <4>1, <4>3 DEF NewsCycles
      <4>5. /\ collecting'.of = collecting.of /\ collecting'.since = collecting.since
            /\ collecting'.left = collecting.left \ {feed}
            /\ collecting'.docs = collecting.docs \cup docs
            /\ collecting'.unread = collecting.unread \cup unread
        BY <2>3, <4>1 DEF NewsCycles
      <4> QED
        BY <4>3, <4>4, <4>5 DEF window
    <3>2. CASE News!FeedSkipped(feed)
      <4> DEFINE window == News!Window(feed, collecting.since)
      <4>1. collecting' = [collecting EXCEPT !.left = @ \ {feed}, !.unread = @ \cup window]
        BY <3>2 DEF News!FeedSkipped
      <4>2. window \subseteq DOMAIN published
        BY DEF News!Window, News!Items
      <4> HIDE DEF window
      <4>3. /\ collecting'.of = collecting.of /\ collecting'.since = collecting.since
            /\ collecting'.left = collecting.left \ {feed}
            /\ collecting'.docs = collecting.docs
            /\ collecting'.unread = collecting.unread \cup window
        BY <2>3, <4>1 DEF NewsCycles
      <4>4. collecting' \in NewsCycles
        BY <2>3, <4>1, <4>2 DEF NewsCycles
      <4>5. \A S : S \cup {} = S
        OBVIOUS
      <4>6. collecting'.docs = collecting.docs \cup {}
        BY <4>3, <4>5
      <4> DEFINE none == {}
      <4>7. none \subseteq DOMAIN published /\ collecting'.docs = collecting.docs \cup none
            /\ \A i \in window : i \in none \cup window
        BY <4>6
      <4> HIDE DEF none
      <4> QED
        BY <4>2, <4>3, <4>4, <4>7 DEF window
    <3> QED
      BY <1>9, <3>1, <3>2
  <2>4. NewsTypes'
    BY <1>1, <2>1, <2>2 DEF NewsTypes
  <2>6. CycleCovers'
    BY <1>1, <1>2, <1>3, <2>1, <2>2 DEF CycleCovers
  <2> QED
    BY <1>4, <2>4, <2>6
<1> QED
  BY <1>6, <1>7, <1>8, <1>9

\* A cycle that has read something moves its collector's time on: then every tracked item of
\* its feeds is stored or excused.
LEMMA StoreKeeps ==
    ASSUME NewsInv, News!Store
    PROVE  NewsInv'
<1> USE DEF NewsInv
<1>1. /\ collecting # News!Idle /\ collecting.left = {} /\ collecting' = News!Idle
      /\ chunks' = chunks \cup collecting.docs /\ UNCHANGED <<clock, published>>
  BY DEF News!Store
<1> DEFINE c == collecting.of
<1>2. c \in News!Collectors
  BY <1>1 DEF CycleCovers
<1>3. News!Idle \in NewsCycles
  BY DEF NewsCycles, News!Idle, News!Never
<1>4. CycleCovers'
  BY <1>1 DEF CycleCovers
<1>5. \A i : Its(i)' = Its(i)
  BY <1>1 DEF Its, News!CollectorOf
<1>6. \A i, since : i \in News!Window(published[i].feed, since)'
                    <=> i \in News!Window(published[i].feed, since)
  BY <1>1 DEF News!Window, News!Items
<1>7. CASE collecting.docs = {}
  <2>1. UNCHANGED <<lastCollected, excused>>
    BY <1>7 DEF News!Store
  <2>2. Explained'
    BY <1>1, <1>5, <1>6, <2>1 DEF Explained
  <2> QED
    BY <1>1, <1>3, <1>4, <2>1, <2>2 DEF NewsTypes
<1>8. CASE collecting.docs # {}
  <2>1. /\ lastCollected' = [lastCollected EXCEPT ![c] = clock]
        /\ excused' = excused \cup collecting.unread
              \cup {i \in DOMAIN published : /\ Its(i) = c /\ lastCollected[c] = News!Never
                                             /\ i \notin News!Window(published[i].feed,
                                                                     collecting.since)}
    BY <1>8 DEF News!Store, News!Items, Its
  <2>2. lastCollected' \in [News!Collectors -> Nat \cup {News!Never}]
        /\ \A d \in News!Collectors : d # c => lastCollected'[d] = lastCollected[d]
    BY <1>2, <2>1 DEF NewsTypes
  <2>3. NewsTypes'
    BY <1>1, <1>3, <2>2 DEF NewsTypes
  <2>4. ASSUME NEW i \in DOMAIN published
        PROVE  \/ i \in chunks' \cup excused'
               \/ ~published[i].tracked
               \/ Its(i) # c /\ lastCollected[Its(i)] = News!Never
               \/ Its(i) # c /\ i \in News!Window(published[i].feed, lastCollected[Its(i)])
    <3>1. chunks \cup excused \subseteq chunks' \cup excused'
      BY <1>1, <2>1
    <3>2. CASE Its(i) # c
      BY <3>1, <3>2 DEF Explained
    <3>3. CASE Its(i) = c
      <4>1. \/ i \in collecting.docs \cup collecting.unread
            \/ ~published[i].tracked
            \/ i \notin News!Window(published[i].feed, collecting.since)
        BY <1>1, <3>3 DEF CycleCovers
      <4>2. CASE i \in collecting.docs \cup collecting.unread
        BY <1>1, <2>1, <4>2
      <4>3. CASE i \notin News!Window(published[i].feed, collecting.since)
        <5>1. CASE lastCollected[c] = News!Never
          BY <2>1, <3>3, <4>3, <5>1
        <5>2. CASE lastCollected[c] # News!Never
          <6>1. collecting.since = lastCollected[c]
            BY <1>1, <5>2 DEF CycleCovers
          <6> QED
            BY <3>1, <3>3, <4>3, <5>2, <6>1 DEF Explained
        <5> QED
          BY <5>1, <5>2
      <4> QED
        BY <4>1, <4>2, <4>3
    <3> QED
      BY <3>2, <3>3
  <2>5. \A i \in DOMAIN published : Its(i) \in News!Collectors
    BY DEF Its, News!CollectorOf, News!Collectors
  <2>6. Explained'
    BY <1>1, <1>5, <1>6, <2>2, <2>4, <2>5 DEF Explained
  <2> QED
    BY <1>4, <2>3, <2>6
<1> QED
  BY <1>7, <1>8

\* What no later cycle of a collector asks for was recorded, unless the collector could not have
\* read it when it moved on (run_cycle and the collectors' queries).
THEOREM LossesExplained == News!Spec => []LossExplained
<1>1. News!Init => NewsInv
  <2> SUFFICES ASSUME News!Init PROVE NewsInv
    OBVIOUS
  <2>1. News!Idle \in NewsCycles
    BY DEF NewsCycles, News!Idle, News!Never
  <2>2. NewsTypes
    BY <2>1 DEF News!Init, NewsTypes
  <2> QED
    BY <2>2 DEF News!Init, NewsInv, CycleCovers, Explained
<1>2. NewsInv /\ [News!Next]_(News!newsVars) => NewsInv'
  <2> SUFFICES ASSUME NewsInv, [News!Next]_(News!newsVars) PROVE NewsInv'
    OBVIOUS
  <2>1. CASE UNCHANGED News!newsVars
    BY <2>1 DEF News!newsVars, NewsInv, NewsTypes, CycleCovers, Explained, Its, News!CollectorOf,
                News!Window, News!Items
  <2> QED
    BY <2>1, PublishKeeps, CollectKeeps, StoreKeeps DEF News!Next
<1>3. NewsInv => LossExplained
  <2> SUFFICES ASSUME NewsInv, NEW i \in DOMAIN published
               PROVE  \/ i \in chunks \cup excused
                      \/ ~published[i].tracked
                      \/ lastCollected[Its(i)] = News!Never
                      \/ i \in News!Window(published[i].feed, News!Since(Its(i)))
    BY DEF LossExplained, News!LossExplained, News!Items, Its
  <2> QED
    BY DEF NewsInv, Explained, News!Since
<1> QED
  BY <1>1, <1>2, <1>3, PTL DEF News!Spec

-----------------------------------------------------------------------------
(* The operator's commands *)

BotTypes ==
    /\ inbox \in Seq(Bot!Commands) /\ Len(inbox) <= MaxSent
    /\ confirmed \in Nat /\ offset \in Nat /\ lapses \in Nat
    /\ sentBefore \in Nat /\ sentBefore <= Len(inbox)
    /\ handled \in [1..MaxSent -> Nat]
    /\ batch \subseteq 1..Len(inbox)

\* Where handled updates may still come from: before a flush any of those sent before the
\* start, after it only those at or above the offset that Telegram keeps.
HandledInv ==
    /\ BotTypes
    /\ \A u \in 1..MaxSent :
        /\ handled[u] <= 1 + lapses
        /\ u > Len(inbox) => handled[u] = 0
        /\ bot = "flush" /\ u > sentBefore => handled[u] = 0
        /\ bot \in {"poll", "batch"} /\ u >= offset /\ u > confirmed => handled[u] <= lapses
    /\ bot \in {"flush", "down"} => offset = 0
    /\ bot = "batch" => batch # {} /\ \A u \in batch : u >= offset /\ u > confirmed

LEMMA BotMaxOfTwo ==
    ASSUME NEW x \in Int, NEW y \in Int
    PROVE  Bot!Max({x, y}) = IF x >= y THEN x ELSE y
<1> DEFINE P(m) == m \in {x, y} /\ \A k \in {x, y} : m >= k
<1>1. Bot!Max({x, y}) = CHOOSE m \in {x, y} : \A k \in {x, y} : m >= k
  BY DEF Bot!Max
<1>2. CASE x >= y
  BY <1>1, <1>2
<1>3. CASE ~(x >= y)
  BY <1>1, <1>3
<1> QED
  BY <1>2, <1>3

\* A page is a stretch of the numbers that Telegram keeps, from the first one asked for.
LEMMA PageIs ==
    ASSUME BotTypes, NEW from \in Nat
    PROVE  /\ Bot!Page(from) \subseteq 1..Len(inbox)
           /\ \A u \in Bot!Page(from) : u >= from /\ u > confirmed
           /\ Bot!Page(from) = {} => Len(inbox) < from \/ Len(inbox) <= confirmed
           /\ Bot!Page(from) # {} =>
                /\ Bot!Max(Bot!Page(from)) \in Bot!Page(from)
                /\ \A u \in Bot!Page(from) : u <= Bot!Max(Bot!Page(from))
<1> DEFINE low == IF from >= confirmed + 1 THEN from ELSE confirmed + 1
           high == low + UpdatePage - 1
           top == IF Len(inbox) < high THEN Len(inbox) ELSE high
<1>1. Bot!Page(from) = {u \in 1..Len(inbox) : u \in low..high}
  <2>1. Bot!Max({from, confirmed + 1}) = low
    BY BotMaxOfTwo DEF BotTypes
  <2> QED
    BY <2>1 DEF Bot!Page, BotTypes
<1>2. low \in Nat /\ high \in Nat /\ low <= high /\ low >= 1 /\ Len(inbox) \in Nat
  BY BotAssumption DEF BotTypes
<1>3. Bot!Page(from) # {} => top \in Bot!Page(from) /\ \A u \in Bot!Page(from) : u <= top
  BY <1>1, <1>2
<1>4. Bot!Page(from) # {} => Bot!Max(Bot!Page(from)) = top
  <2> SUFFICES ASSUME Bot!Page(from) # {}  PROVE Bot!Max(Bot!Page(from)) = top
    OBVIOUS
  <2>1. Bot!Max(Bot!Page(from))
          = CHOOSE m \in Bot!Page(from) : \A k \in Bot!Page(from) : m >= k
    BY DEF Bot!Max
  <2>2. \A k \in Bot!Page(from) : top >= k
    BY <1>2, <1>3, <1>1
  <2>3. \A m \in Bot!Page(from) : (\A k \in Bot!Page(from) : m >= k) => m = top
    BY <1>1, <1>2, <1>3
  <2> HIDE DEF top
  <2> QED
    BY <1>3, <2>1, <2>2, <2>3
<1>5. Bot!Page(from) = {} => Len(inbox) < from \/ Len(inbox) <= confirmed
  <2> SUFFICES ASSUME Bot!Page(from) = {}, Len(inbox) >= from, Len(inbox) > confirmed
               PROVE  FALSE
    BY <1>2 DEF BotTypes
  <2>1. low \in 1..Len(inbox) /\ low \in low..high
    BY <1>2 DEF BotTypes
  <2> QED
    BY <1>1, <2>1
<1>6. \A u \in Bot!Page(from) : u >= from /\ u > confirmed
  BY <1>1, <1>2 DEF BotTypes
<1> QED
  BY <1>1, <1>3, <1>4, <1>5, <1>6

LEMMA HandledInitial == Bot!Init => HandledInv
<1>1. <<>> \in Seq(Bot!Commands)
  OBVIOUS
<1> QED
  BY <1>1, BotAssumption DEF Bot!Init, Bot!Updates, HandledInv, BotTypes

LEMMA HandledStep == HandledInv /\ [Bot!Next]_(Bot!botVars) => HandledInv'
<1> SUFFICES ASSUME HandledInv, [Bot!Next]_(Bot!botVars)  PROVE HandledInv'
  OBVIOUS
<1> USE DEF HandledInv
<1>1. ASSUME NEW message \in Bot!Commands, Bot!Send(message)  PROVE HandledInv'
  <2>1. /\ inbox' \in Seq(Bot!Commands) /\ Len(inbox') = Len(inbox) + 1
        /\ Len(inbox) < MaxSent /\ Len(inbox) \in Nat
    BY <1>1 DEF Bot!Send, BotTypes
  <2>2. UNCHANGED <<confirmed, bot, offset, batch, sentBefore, handled, lapses>>
    BY <1>1 DEF Bot!Send
  <2> QED
    BY <2>1, <2>2, BotAssumption DEF BotTypes
<1>2. CASE Bot!FlushSkips
  <2>1. /\ bot = "flush" /\ bot' = "poll" /\ offset' = Bot!Max(Bot!Page(0)) + 1
        /\ Bot!Page(0) # {}
        /\ lapses' = IF Bot!Max(Bot!Page(0)) < sentBefore THEN lapses + 1 ELSE lapses
        /\ UNCHANGED <<inbox, confirmed, batch, sentBefore, handled>>
    BY <1>2 DEF Bot!FlushSkips
  <2>2. Bot!Max(Bot!Page(0)) \in 1..Len(inbox)
    BY <2>1, PageIs
  <2> QED
    BY <2>1, <2>2 DEF BotTypes
<1>3. CASE Bot!FlushTimesOut
  <2>1. /\ bot = "flush" /\ bot' = "poll" /\ Bot!Page(0) = {}
        /\ UNCHANGED <<inbox, confirmed, offset, batch, sentBefore, handled, lapses>>
    BY <1>3 DEF Bot!FlushTimesOut
  <2>2. Len(inbox) <= confirmed
    BY <2>1, PageIs DEF BotTypes
  <2> QED
    BY <2>1, <2>2 DEF BotTypes
<1>4. CASE Bot!FlushFails
  BY <1>4 DEF Bot!FlushFails, BotTypes
<1>5. CASE Bot!Poll
  <2>1. /\ bot = "poll" /\ confirmed' = Bot!Max({confirmed, offset - 1})
        /\ \/ Bot!Page(offset) # {} /\ bot' = "batch" /\ batch' = Bot!Page(offset)
           \/ UNCHANGED <<bot, batch>>
        /\ UNCHANGED <<inbox, offset, sentBefore, handled, lapses>>
    BY <1>5 DEF Bot!Poll
  <2>2. confirmed' = IF confirmed >= offset - 1 THEN confirmed ELSE offset - 1
    BY <2>1, BotMaxOfTwo DEF BotTypes
  <2>3. confirmed' \in Nat /\ confirmed' >= confirmed
    BY <2>2 DEF BotTypes
  <2>4. \A u \in Bot!Page(offset) : u \in 1..Len(inbox) /\ u >= offset /\ u > confirmed'
    BY <2>2, PageIs DEF BotTypes
  <2>5. BotTypes'
    BY <2>1, <2>3, <2>4 DEF BotTypes
  <2>6. \A u \in 1..MaxSent : u >= offset' /\ u > confirmed' => handled'[u] <= lapses'
    BY <2>1, <2>3 DEF BotTypes
  <2>7. bot' \in {"poll", "batch"} /\ (bot' = "batch" => batch' # {} /\ batch' = Bot!Page(offset))
    BY <2>1
  <2> QED
    BY <2>1, <2>4, <2>5, <2>6, <2>7
<1>6. CASE Bot!Handle
  <2>1. PICK n : n = Bot!Min(batch)
    OBVIOUS
  <2>2. n \in batch /\ (\A m \in batch : n <= m)
    <3>1. batch # {} /\ batch \subseteq Nat
      BY <1>6 DEF Bot!Handle, BotTypes
    <3>2. \E k \in batch : \A m \in batch : k <= m
      BY <3>1, LeastExists
    <3>3. Bot!Min(batch) = CHOOSE k \in batch : \A m \in batch : k <= m
      BY DEF Bot!Min
    <3> QED
      BY <2>1, <3>2, <3>3
  <2>3. /\ bot = "batch" /\ offset' = Bot!Max({offset, n + 1})
        /\ handled' = [handled EXCEPT ![n] = @ + 1]
        /\ batch' = batch \ {n} /\ bot' = IF batch' = {} THEN "poll" ELSE "batch"
        /\ UNCHANGED <<inbox, confirmed, sentBefore, lapses>>
    BY <1>6, <2>1 DEF Bot!Handle
  <2>4. n \in 1..Len(inbox) /\ n >= offset /\ n > confirmed
    BY <2>2, <2>3 DEF BotTypes
  <2>5. offset' = n + 1
    BY <2>3, <2>4, BotMaxOfTwo DEF BotTypes
  <2>6. n \in 1..MaxSent /\ handled[n] <= lapses
    BY <2>3, <2>4, BotAssumption DEF BotTypes
  <2>7. /\ handled' \in [1..MaxSent -> Nat] /\ handled'[n] = handled[n] + 1
        /\ \A u \in 1..MaxSent : u # n => handled'[u] = handled[u]
    BY <2>3, <2>6 DEF BotTypes
  <2>8. \A u \in batch' : u \in 1..Len(inbox) /\ u >= n + 1 /\ u > confirmed
    BY <2>2, <2>3, <2>4 DEF BotTypes
  <2>9. BotTypes'
    BY <2>3, <2>4, <2>5, <2>7, <2>8 DEF BotTypes
  <2>10. \A u \in 1..MaxSent :
           /\ handled'[u] <= 1 + lapses'
           /\ u > Len(inbox') => handled'[u] = 0
           /\ u >= offset' /\ u > confirmed' => handled'[u] <= lapses'
    BY <2>3, <2>4, <2>5, <2>6, <2>7 DEF BotTypes
  <2> QED
    BY <2>3, <2>5, <2>8, <2>9, <2>10
<1>7. CASE Bot!Down
  BY <1>7 DEF Bot!Down, BotTypes
<1>8. CASE Bot!Start
  <2>1. /\ bot = "down" /\ bot' = "flush" /\ sentBefore' = Len(inbox) /\ Len(inbox) \in Nat
        /\ UNCHANGED <<inbox, confirmed, offset, batch, handled, lapses>>
    BY <1>8 DEF Bot!Start, BotTypes
  <2> QED
    BY <2>1 DEF BotTypes
<1>9. CASE UNCHANGED Bot!botVars
  BY <1>9 DEF Bot!botVars, BotTypes
<1> QED
  BY <1>1, <1>2, <1>3, <1>4, <1>5, <1>6, <1>7, <1>8, <1>9 DEF Bot!Next

\* For any page size, any number of commands and of starts, through lost answers, crashes and
\* restarts: a message is carried out once, and once more at most for each start whose flush
\* failed or was shorter than the backlog (_flush_old_updates).
THEOREM CommandsActOnce == Bot!Spec => []HandledAgainOnlyAfterLapse
<1>1. HandledInv => HandledAgainOnlyAfterLapse
  <2>1. BotTypes => \A u \in DOMAIN inbox : u \in 1..MaxSent
    BY BotAssumption DEF BotTypes
  <2> QED
    BY <2>1 DEF HandledInv, HandledAgainOnlyAfterLapse, Bot!HandledAgainOnlyAfterLapse
<1> QED
  BY <1>1, HandledInitial, HandledStep, PTL DEF Bot!Spec

-----------------------------------------------------------------------------
(* The limiter that processes share *)

AllCallers == Procs \X Coroutines
AtOnce == Cardinality(Procs) * Cardinality(Coroutines)

\* The callers that will be counted in Redis, for an earlier day, and by their process.
CountWaiting == {q \in AllCallers : at[q[1]][q[2]] = "counted"}
LateWaiting == {q \in AllCallers :
                   \/ at[q[1]][q[2]] = "counted" /\ key[q[1]] # today
                   \/ at[q[1]][q[2]] = "local" /\ localDate[q[1]] # today}
OwnWaiting(p) == {k \in Coroutines : at[p][k] = "local"}

LimiterTypes ==
    /\ today \in 1..LastDate /\ counter \in [1..LastDate -> Nat]
    /\ key \in [Procs -> 1..LastDate] /\ localDate \in [Procs -> 1..LastDate]
    /\ localCount \in [Procs -> Nat] /\ usingRedis \in [Procs -> BOOLEAN]
    /\ at \in [Procs -> [Coroutines -> {"idle", "counted", "local"}]]
    /\ granted \in [1..LastDate -> [shared : Nat, late : Nat, own : [Procs -> Nat]]]

\* Keys and dates are of days that have begun, and who counts for itself has lost Redis.
Steady ==
    /\ \A p \in Procs : key[p] <= today /\ localDate[p] <= today
    /\ \A p \in Procs, k \in Coroutines : at[p][k] = "local" => ~usingRedis[p]

\* Nothing is counted or granted for a day to come.
NothingAhead ==
    \A d \in 1..LastDate : d > today =>
        /\ counter[d] = 0 /\ granted[d].shared = 0 /\ granted[d].late = 0
        /\ \A p \in Procs : granted[d].own[p] = 0

\* What was granted today, and what those that wait may still be granted, is within bounds.
SharedRoom ==
    /\ granted[today].shared <= counter[today]
    /\ counter[today] + Cardinality(CountWaiting) <= DailyLimit - 1 + AtOnce
LateRoom ==
    granted[today].late + Cardinality(LateWaiting) <= IF today = 1 THEN 0 ELSE AtOnce
OwnRoom(p) ==
    /\ localDate[p] # today => granted[today].own[p] = 0
    /\ localDate[p] = today =>
         /\ granted[today].own[p] <= localCount[p]
         /\ localCount[p] + Cardinality(OwnWaiting(p)) <= DailyLimit - 1 + Cardinality(Coroutines)

GrantsInv ==
    /\ LimiterTypes /\ CallsBounded /\ Steady /\ NothingAhead
    /\ SharedRoom /\ LateRoom /\ \A p \in Procs : OwnRoom(p)

\* The instance counts as this module does.
LEMMA LimiterCounts == \A S : Limiter!Cardinality(S) = Cardinality(S)
  BY DEF Limiter!Cardinality, Cardinality

LEMMA CallersFinite ==
    /\ Cardinality(Procs) \in Nat /\ Cardinality(Coroutines) \in Nat /\ AtOnce \in Nat
    /\ \A S : S \subseteq AllCallers =>
          IsFiniteSet(S) /\ Cardinality(S) \in Nat /\ Cardinality(S) <= AtOnce
    /\ \A S : S \subseteq Coroutines =>
          IsFiniteSet(S) /\ Cardinality(S) \in Nat /\ Cardinality(S) <= Cardinality(Coroutines)
    /\ \A S, T : T \subseteq AllCallers /\ S \subseteq T => Cardinality(S) <= Cardinality(T)
    /\ \A S, T : T \subseteq Coroutines /\ S \subseteq T => Cardinality(S) <= Cardinality(T)
<1>1. IsFiniteSet(Procs) /\ IsFiniteSet(Coroutines)
  BY TokenAssumption, LimiterAssumption
<1>2. Cardinality(Procs) \in Nat /\ Cardinality(Coroutines) \in Nat
  BY <1>1, FS_CardinalityType
<1>3. IsFiniteSet(AllCallers) /\ Cardinality(AllCallers) = AtOnce
  BY <1>1, FS_Product DEF AllCallers, AtOnce
<1>4. AtOnce \in Nat
  BY <1>3, FS_CardinalityType
<1>5. ASSUME NEW U, IsFiniteSet(U), NEW S, S \subseteq U
      PROVE  IsFiniteSet(S) /\ Cardinality(S) \in Nat /\ Cardinality(S) <= Cardinality(U)
  BY <1>5, FS_Subset, FS_CardinalityType
<1>6. ASSUME NEW U, IsFiniteSet(U), NEW S, NEW T, T \subseteq U, S \subseteq T
      PROVE  Cardinality(S) <= Cardinality(T)
  <2>1. IsFiniteSet(T)
    BY <1>5, <1>6
  <2> QED
    BY <1>5, <1>6, <2>1
<1> QED
  BY <1>1, <1>2, <1>3, <1>4, <1>5, <1>6

LEMMA BoundsTyped ==
    AtOnce \in Nat /\ Cardinality(Coroutines) \in Nat /\ DailyLimit \in Nat /\ DailyLimit >= 1
BY CallersFinite, LimiterAssumption

LEMMA GrantsTyped ==
    ASSUME LimiterTypes
    PROVE  /\ counter[today] \in Nat
           /\ \A d \in 1..LastDate : /\ granted[d].shared \in Nat /\ granted[d].late \in Nat
                                     /\ \A p \in Procs : granted[d].own[p] \in Nat
           /\ granted[today].late \in Nat
           /\ \A p \in Procs : granted[today].own[p] \in Nat /\ localCount[p] \in Nat
BY DEF LimiterTypes

LEMMA GrantsInitial == Limiter!Init => GrantsInv
<1> SUFFICES ASSUME Limiter!Init  PROVE GrantsInv
  OBVIOUS
<1>1. CountWaiting = {} /\ LateWaiting = {} /\ (\A p \in Procs : OwnWaiting(p) = {})
  BY DEF Limiter!Init, CountWaiting, LateWaiting, OwnWaiting, AllCallers
<1>2. Cardinality({}) = 0
  BY FS_EmptySet
<1>3. LimiterTypes
  BY LimiterAssumption DEF Limiter!Init, LimiterTypes, Limiter!Days
<1>4. Cardinality(Coroutines) \in Nat /\ AtOnce \in Nat /\ DailyLimit \in Nat \ {0}
  BY CallersFinite, LimiterAssumption
<1>5. \A d \in 1..LastDate : /\ counter[d] = 0 /\ granted[d].shared = 0 /\ granted[d].late = 0
                             /\ \A p \in Procs : granted[d].own[p] = 0
  BY DEF Limiter!Init, Limiter!Days
<1>6. today = 1 /\ 1 \in 1..LastDate
  BY LimiterAssumption DEF Limiter!Init
<1>7. CallsBounded
  BY <1>4, <1>5, LimiterCounts
     DEF CallsBounded, Limiter!CallsBounded, Limiter!Days, AtOnce
<1>8. \A p \in Procs : key[p] = 1 /\ localDate[p] = 1 /\ localCount[p] = 0
                       /\ \A k \in Coroutines : at[p][k] = "idle"
  BY DEF Limiter!Init
<1>9. SharedRoom /\ LateRoom
  BY <1>1, <1>2, <1>4, <1>5, <1>6 DEF SharedRoom, LateRoom
<1>10. ASSUME NEW p \in Procs  PROVE OwnRoom(p)
  <2>1. Cardinality(OwnWaiting(p)) = 0 /\ granted[today].own[p] = 0 /\ localCount[p] = 0
    BY <1>1, <1>2, <1>5, <1>6, <1>8
  <2> QED
    BY <2>1, BoundsTyped DEF OwnRoom
<1>11. Steady /\ NothingAhead
  BY <1>5, <1>6, <1>8 DEF Steady, NothingAhead
<1> QED
  BY <1>3, <1>7, <1>9, <1>10, <1>11 DEF GrantsInv

\* A caller of one process changes its place.
Moved(p, k, place) == at' = [at EXCEPT ![p][k] = place]

LEMMA MovedFewer ==
    ASSUME LimiterTypes, NEW p \in Procs, NEW k \in Coroutines, NEW place, Moved(p, k, place),
           at[p][k] # place
    PROVE  /\ at'[p][k] = place
           /\ \A q \in Procs, j \in Coroutines : <<q, j>> # <<p, k>> => at'[q][j] = at[q][j]
           /\ at[p][k] = "counted" =>
                /\ CountWaiting' = CountWaiting \ {<<p, k>>}
                /\ Cardinality(CountWaiting') = Cardinality(CountWaiting) - 1
           /\ at[p][k] = "local" =>
                /\ OwnWaiting(p)' = OwnWaiting(p) \ {k}
                /\ Cardinality(OwnWaiting(p)') = Cardinality(OwnWaiting(p)) - 1
<1>1. /\ at'[p][k] = place
      /\ \A q \in Procs, j \in Coroutines : <<q, j>> # <<p, k>> => at'[q][j] = at[q][j]
  BY DEF Moved, LimiterTypes
<1>2. ASSUME at[p][k] = "counted"
      PROVE  /\ CountWaiting' = CountWaiting \ {<<p, k>>}
             /\ Cardinality(CountWaiting') = Cardinality(CountWaiting) - 1
  <2>1. \A q \in AllCallers : q \in CountWaiting' <=> q \in CountWaiting /\ q # <<p, k>>
    <3> SUFFICES ASSUME NEW r \in Procs, NEW j \in Coroutines
                 PROVE  <<r, j>> \in CountWaiting' <=> <<r, j>> \in CountWaiting /\ <<r, j>> # <<p, k>>
      BY DEF AllCallers
    <3> QED
      BY <1>1, <1>2 DEF CountWaiting, AllCallers
  <2>2. CountWaiting' = CountWaiting \ {<<p, k>>} /\ <<p, k>> \in CountWaiting
    BY <1>2, <2>1 DEF CountWaiting, AllCallers
  <2>3. IsFiniteSet(CountWaiting)
    BY CallersFinite DEF CountWaiting
  <2> QED
    BY <2>2, <2>3, FS_RemoveElement
<1>3. ASSUME at[p][k] = "local"
      PROVE  /\ OwnWaiting(p)' = OwnWaiting(p) \ {k}
             /\ Cardinality(OwnWaiting(p)') = Cardinality(OwnWaiting(p)) - 1
  <2>1. OwnWaiting(p)' = OwnWaiting(p) \ {k} /\ k \in OwnWaiting(p)
    BY <1>1, <1>3 DEF OwnWaiting
  <2>2. IsFiniteSet(OwnWaiting(p))
    BY CallersFinite DEF OwnWaiting
  <2> QED
    BY <2>1, <2>2, FS_RemoveElement
<1> QED
  BY <1>1, <1>2, <1>3

\* The bounds of a day as CallsBounded states them.
Bounds(d) ==
    /\ granted[d].shared <= DailyLimit - 1 + AtOnce
    /\ granted[d].late <= IF d = 1 THEN 0 ELSE AtOnce
    /\ \A p \in Procs :
         granted[d].own[p] <= IF usingRedis[p] THEN 0 ELSE DailyLimit - 1 + Cardinality(Coroutines)

LEMMA BoundsAre == CallsBounded <=> \A d \in 1..LastDate : Bounds(d)
BY LimiterCounts DEF CallsBounded, Limiter!CallsBounded, Limiter!Days, Bounds, AtOnce

\* Steps that grant nothing: places, counters and dates change.
LEMMA NothingGranted ==
    ASSUME GrantsInv, UNCHANGED <<today, granted>>, LimiterTypes', Steady', NothingAhead',
           counter'[today] = counter[today],
           \A p \in Procs : usingRedis'[p] => usingRedis[p],
           counter[today] + Cardinality(CountWaiting') <= DailyLimit - 1 + AtOnce,
           LateWaiting' \subseteq LateWaiting,
           \A p \in Procs : OwnRoom(p)'
    PROVE  GrantsInv'
<1>1. CallsBounded'
  <2>1. \A d \in 1..LastDate : Bounds(d)
    BY BoundsAre DEF GrantsInv
  <2>2. ASSUME NEW d \in 1..LastDate  PROVE Bounds(d)'
    <3>1. Bounds(d)
      BY <2>1
    <3>2. ASSUME NEW p \in Procs
          PROVE  granted[d].own[p] <= IF usingRedis'[p] THEN 0
                                      ELSE DailyLimit - 1 + Cardinality(Coroutines)
      <4>1. granted[d].own[p] \in Nat
        BY GrantsTyped DEF GrantsInv
      <4>2. granted[d].own[p] <= IF usingRedis[p] THEN 0
                                 ELSE DailyLimit - 1 + Cardinality(Coroutines)
        BY <3>1 DEF Bounds
      <4>3. usingRedis'[p] => usingRedis[p]
        OBVIOUS
      <4> QED
        BY <4>1, <4>2, <4>3, BoundsTyped
    <3> QED
      BY <3>1, <3>2 DEF Bounds
  <2>3. (\A d \in 1..LastDate : Bounds(d))' => CallsBounded'
    BY BoundsAre, PTL
  <2> QED
    BY <2>2, <2>3
<1>2. SharedRoom'
  BY DEF SharedRoom, GrantsInv
<1>3. LateRoom'
  <2>1. LateWaiting \subseteq AllCallers
    BY DEF LateWaiting
  <2>2. /\ Cardinality(LateWaiting') <= Cardinality(LateWaiting)
        /\ Cardinality(LateWaiting') \in Nat /\ Cardinality(LateWaiting) \in Nat
    BY <2>1, CallersFinite
  <2>3. granted[today].late \in Nat
    BY GrantsTyped DEF GrantsInv
  <2>4. granted[today].late + Cardinality(LateWaiting) <= IF today = 1 THEN 0 ELSE AtOnce
    BY DEF GrantsInv, LateRoom
  <2>5. granted[today].late + Cardinality(LateWaiting') <= IF today = 1 THEN 0 ELSE AtOnce
    BY <2>2, <2>3, <2>4, BoundsTyped
  <2> QED
    BY <2>5 DEF LateRoom
<1> QED
  BY <1>1, <1>2, <1>3 DEF GrantsInv

LEMMA ChecksKeep ==
    ASSUME GrantsInv, NEW p \in Procs, NEW k \in Coroutines, Limiter!CheckRedis(p, k)
    PROVE  GrantsInv'
<1> USE DEF GrantsInv
<1>1. /\ at[p][k] = "idle" /\ key' = [key EXCEPT ![p] = today]
      /\ at' = IF counter[today] < DailyLimit THEN [at EXCEPT ![p][k] = "counted"] ELSE at
      /\ UNCHANGED <<today, counter, usingRedis, localCount, localDate, granted>>
  BY DEF Limiter!CheckRedis
<1>2. LimiterTypes'
  BY <1>1 DEF LimiterTypes
<1>3. \A q \in Procs, j \in Coroutines :
        \/ at'[q][j] = at[q][j]
        \/ q = p /\ counter[today] < DailyLimit /\ at'[q][j] = "counted"
  BY <1>1 DEF LimiterTypes
<1>4. Steady' /\ NothingAhead'
  BY <1>1, <1>3 DEF Steady, NothingAhead, LimiterTypes
<1>5. counter[today] + Cardinality(CountWaiting') <= DailyLimit - 1 + AtOnce
  <2>1. CASE counter[today] < DailyLimit
    <3>1. CountWaiting' \subseteq AllCallers
      BY DEF CountWaiting, AllCallers
    <3>2. Cardinality(CountWaiting') \in Nat /\ Cardinality(CountWaiting') <= AtOnce
      BY <3>1, CallersFinite
    <3>3. counter[today] \in Nat
      BY GrantsTyped
    <3> QED
      BY <2>1, <3>2, <3>3, BoundsTyped
  <2>2. CASE ~(counter[today] < DailyLimit)
    BY <1>1, <2>2 DEF CountWaiting, SharedRoom
  <2> QED
    BY <2>1, <2>2
<1>6. LateWaiting' \subseteq LateWaiting
  <2> SUFFICES ASSUME NEW q \in Procs, NEW j \in Coroutines, <<q, j>> \in LateWaiting'
               PROVE  <<q, j>> \in LateWaiting
    BY DEF LateWaiting, AllCallers
  <2>1. q # p => key'[q] = key[q]
    BY <1>1 DEF LimiterTypes
  <2>2. key'[p] = today
    BY <1>1 DEF LimiterTypes
  <2> QED
    BY <1>1, <1>3, <2>1, <2>2 DEF LateWaiting, AllCallers
<1>7. ASSUME NEW q \in Procs  PROVE OwnRoom(q)'
  <2>1. OwnWaiting(q)' \subseteq OwnWaiting(q) /\ OwnWaiting(q) \subseteq Coroutines
    BY <1>3 DEF OwnWaiting
  <2>2. /\ Cardinality(OwnWaiting(q)') <= Cardinality(OwnWaiting(q))
        /\ Cardinality(OwnWaiting(q)') \in Nat /\ Cardinality(OwnWaiting(q)) \in Nat
    BY <2>1, CallersFinite
  <2>3. granted[today].own[q] \in Nat /\ localCount[q] \in Nat
    BY GrantsTyped
  <2>4. OwnRoom(q)
    OBVIOUS
  <2> QED
    BY <1>1, <2>2, <2>3, <2>4, BoundsTyped DEF OwnRoom
<1> QED
  BY <1>1, <1>2, <1>4, <1>5, <1>6, <1>7, NothingGranted

\* A caller enters the local limiter of its process, which it may just have fallen back to.
LEMMA EntriesKeep ==
    ASSUME GrantsInv, NEW p \in Procs, NEW k \in Coroutines,
           Limiter!RedisFails(p, k) \/ Limiter!CheckLocal(p, k)
    PROVE  GrantsInv'
<1> USE DEF GrantsInv
<1> DEFINE count == IF localDate[p] = today THEN localCount[p] ELSE 0
<1>1. /\ at[p][k] \in {"idle", "counted"} /\ Limiter!EnterLocal(p, k)
      /\ usingRedis' = usingRedis \/ usingRedis' = [usingRedis EXCEPT ![p] = FALSE]
      /\ UNCHANGED <<today, counter, key, granted>>
  BY DEF Limiter!RedisFails, Limiter!CheckLocal
<1>2. /\ localDate' = [localDate EXCEPT ![p] = today]
      /\ localCount' = [localCount EXCEPT ![p] = count]
      /\ at' = [at EXCEPT ![p][k] = IF count < DailyLimit THEN "local" ELSE "idle"]
  BY <1>1 DEF Limiter!EnterLocal
<1>3. /\ \A q \in Procs : usingRedis'[q] => usingRedis[q]
      /\ ~usingRedis'[p]
      /\ usingRedis' \in [Procs -> BOOLEAN]
  <2>1. CASE Limiter!RedisFails(p, k)
    BY <2>1 DEF Limiter!RedisFails, LimiterTypes
  <2>2. CASE Limiter!CheckLocal(p, k)
    BY <2>2 DEF Limiter!CheckLocal, LimiterTypes
  <2> QED
    BY <2>1, <2>2
<1>4. count \in Nat
  BY DEF LimiterTypes
<1> HIDE DEF count
<1>5. LimiterTypes'
  BY <1>1, <1>2, <1>3, <1>4 DEF LimiterTypes
<1>6. \A q \in Procs, j \in Coroutines :
        \/ at'[q][j] = at[q][j]
        \/ q = p /\ j = k /\ at'[q][j] = (IF count < DailyLimit THEN "local" ELSE "idle")
  BY <1>2 DEF LimiterTypes
<1>7. Steady' /\ NothingAhead'
  <2>1. \A q \in Procs : key'[q] <= today' /\ localDate'[q] <= today'
    BY <1>1, <1>2 DEF Steady, LimiterTypes
  <2>2. \A q \in Procs, j \in Coroutines : at'[q][j] = "local" => ~usingRedis'[q]
    BY <1>3, <1>6 DEF Steady
  <2> QED
    BY <1>1, <2>1, <2>2 DEF Steady, NothingAhead
<1>8. counter[today] + Cardinality(CountWaiting') <= DailyLimit - 1 + AtOnce
  <2>1. CountWaiting' \subseteq CountWaiting
    <3> SUFFICES ASSUME NEW q \in Procs, NEW j \in Coroutines, <<q, j>> \in CountWaiting'
                 PROVE  <<q, j>> \in CountWaiting
      BY DEF CountWaiting, AllCallers
    <3> QED
      BY <1>6 DEF CountWaiting, AllCallers
  <2>2. CountWaiting \subseteq AllCallers
    BY DEF CountWaiting
  <2>3. /\ Cardinality(CountWaiting') <= Cardinality(CountWaiting)
        /\ Cardinality(CountWaiting') \in Nat /\ Cardinality(CountWaiting) \in Nat
    BY <2>1, <2>2, CallersFinite
  <2>4. counter[today] \in Nat
    BY GrantsTyped
  <2> QED
    BY <2>3, <2>4, BoundsTyped DEF SharedRoom
<1>9. LateWaiting' \subseteq LateWaiting
  <2> SUFFICES ASSUME NEW q \in Procs, NEW j \in Coroutines, <<q, j>> \in LateWaiting'
               PROVE  <<q, j>> \in LateWaiting
    BY DEF LateWaiting, AllCallers
  <2>1. q # p => localDate'[q] = localDate[q]
    BY <1>2 DEF LimiterTypes
  <2>2. localDate'[p] = today
    BY <1>2 DEF LimiterTypes
  <2> QED
    BY <1>1, <1>6, <2>1, <2>2 DEF LateWaiting, AllCallers
<1>10. ASSUME NEW q \in Procs  PROVE OwnRoom(q)'
  <2>1. CASE q # p
    <3>1. OwnWaiting(q)' = OwnWaiting(q)
      BY <1>6, <2>1 DEF OwnWaiting
    <3>2. localDate'[q] = localDate[q] /\ localCount'[q] = localCount[q]
      BY <1>2, <2>1 DEF LimiterTypes
    <3> QED
      BY <1>1, <3>1, <3>2 DEF OwnRoom
  <2>2. CASE q = p
    <3>1. localDate'[p] = today /\ localCount'[p] = count
      BY <1>2 DEF LimiterTypes
    <3>2. granted[today].own[p] <= count
      <4>1. OwnRoom(p)
        OBVIOUS
      <4> QED
        BY <4>1 DEF OwnRoom, count
    <3>3. OwnWaiting(p)' \subseteq Coroutines /\ OwnWaiting(p) \subseteq Coroutines
      BY DEF OwnWaiting
    <3>4. /\ Cardinality(OwnWaiting(p)') \in Nat /\ Cardinality(OwnWaiting(p)) \in Nat
          /\ Cardinality(OwnWaiting(p)') <= Cardinality(Coroutines)
          /\ OwnWaiting(p)' \subseteq OwnWaiting(p) =>
               Cardinality(OwnWaiting(p)') <= Cardinality(OwnWaiting(p))
      BY <3>3, CallersFinite
    <3>5. count + Cardinality(OwnWaiting(p)') <= DailyLimit - 1 + Cardinality(Coroutines)
      <4>1. CASE count < DailyLimit
        BY <1>4, <3>4, <4>1, CallersFinite, LimiterAssumption
      <4>2. CASE ~(count < DailyLimit)
        <5>1. localDate[p] = today /\ count = localCount[p]
          BY <4>2, LimiterAssumption DEF count
        <5>2. OwnWaiting(p)' \subseteq OwnWaiting(p)
          BY <1>6, <4>2 DEF OwnWaiting
        <5>3. localCount[p] + Cardinality(OwnWaiting(p)) <= DailyLimit - 1 + Cardinality(Coroutines)
          BY <5>1 DEF OwnRoom
        <5> QED
          BY <1>4, <3>4, <5>1, <5>2, <5>3, CallersFinite, LimiterAssumption
      <4> QED
        BY <4>1, <4>2
    <3> QED
      BY <1>1, <2>2, <3>1, <3>2, <3>5 DEF OwnRoom
  <2> QED
    BY <2>1, <2>2
<1> QED
  BY <1>1, <1>3, <1>5, <1>7, <1>8, <1>9, <1>10, NothingGranted

\* What is granted on a day is within the room there was.
LEMMA RoomBounds ==
    ASSUME LimiterTypes', SharedRoom', LateRoom', \A p \in Procs : OwnRoom(p)',
           UNCHANGED <<today, usingRedis>>, GrantsInv,
           \A d \in 1..LastDate : d # today => granted'[d] = granted[d],
           \A p \in Procs : usingRedis[p] => granted'[today].own[p] = granted[today].own[p]
    PROVE  CallsBounded'
<1>1. \A d \in 1..LastDate : Bounds(d)
  BY BoundsAre DEF GrantsInv
<1>2. /\ Cardinality(CountWaiting') \in Nat /\ Cardinality(LateWaiting') \in Nat
      /\ \A p \in Procs : Cardinality(OwnWaiting(p)') \in Nat
  <2>1. /\ CountWaiting' \subseteq AllCallers /\ LateWaiting' \subseteq AllCallers
        /\ \A p \in Procs : OwnWaiting(p)' \subseteq Coroutines
    BY DEF CountWaiting, LateWaiting, OwnWaiting, AllCallers
  <2> QED
    BY <2>1, CallersFinite
<1>3. /\ counter'[today] \in Nat /\ granted'[today].shared \in Nat
      /\ granted'[today].late \in Nat
      /\ \A p \in Procs : granted'[today].own[p] \in Nat /\ localCount'[p] \in Nat
  BY DEF LimiterTypes
<1>4. Bounds(today)'
  <2>1. granted'[today].shared <= DailyLimit - 1 + AtOnce
    BY <1>2, <1>3, BoundsTyped DEF SharedRoom
  <2>2. granted'[today].late <= IF today = 1 THEN 0 ELSE AtOnce
    <3>1. granted'[today].late + Cardinality(LateWaiting') <= IF today = 1 THEN 0 ELSE AtOnce
      BY DEF LateRoom
    <3> QED
      BY <1>2, <1>3, <3>1, BoundsTyped
  <2>3. ASSUME NEW p \in Procs
        PROVE  granted'[today].own[p] <= IF usingRedis[p] THEN 0
                                         ELSE DailyLimit - 1 + Cardinality(Coroutines)
    <3>1. CASE usingRedis[p]
      BY <1>1, <3>1 DEF Bounds, GrantsInv, LimiterTypes
    <3>2. CASE ~usingRedis[p]
      <4>1. OwnRoom(p)'
        OBVIOUS
      <4> QED
        BY <1>2, <1>3, <3>2, <4>1, BoundsTyped DEF OwnRoom
    <3> QED
      BY <3>1, <3>2
  <2> QED
    BY <2>1, <2>2, <2>3 DEF Bounds
<1>5. \A d \in 1..LastDate : Bounds(d)'
  <2>1. ASSUME NEW d \in 1..LastDate, d # today  PROVE Bounds(d)'
    BY <1>1, <2>1 DEF Bounds
  <2> QED
    BY <1>4, <2>1
<1>6. (\A d \in 1..LastDate : Bounds(d))' => CallsBounded'
  BY BoundsAre, PTL
<1> QED
  BY <1>5, <1>6

\* A call more on a day is a history of the same type.
LEMMA OneMoreGranted ==
    ASSUME LimiterTypes, NEW p \in Procs
    PROVE  LET Histories == [1..LastDate -> [shared : Nat, late : Nat, own : [Procs -> Nat]]]
           IN  /\ [granted EXCEPT ![today].shared = @ + 1] \in Histories
               /\ [granted EXCEPT ![today].late = @ + 1] \in Histories
               /\ [granted EXCEPT ![today].own[p] = @ + 1] \in Histories
<1> DEFINE Grants == [shared : Nat, late : Nat, own : [Procs -> Nat]]
           g == granted[today]
<1>1. granted \in [1..LastDate -> Grants] /\ today \in 1..LastDate /\ g \in Grants
  BY DEF LimiterTypes
<1>2. /\ [g EXCEPT !.shared = @ + 1] \in Grants
      /\ [g EXCEPT !.late = @ + 1] \in Grants
      /\ [g EXCEPT !.own[p] = @ + 1] \in Grants
  <2> HIDE DEF g
  <2>1. g.shared + 1 \in Nat /\ g.late + 1 \in Nat
        /\ [g.own EXCEPT ![p] = @ + 1] \in [Procs -> Nat]
    BY <1>1
  <2>2. [g EXCEPT !.shared = @ + 1] \in Grants
    BY ONLY <1>1, <2>1
  <2>3. [g EXCEPT !.late = @ + 1] \in Grants
    BY ONLY <1>1, <2>1
  <2>4. [g EXCEPT !.own[p] = @ + 1] = [g EXCEPT !.own = [g.own EXCEPT ![p] = @ + 1]]
    BY ONLY <1>1
  <2>5. [g EXCEPT !.own = [g.own EXCEPT ![p] = @ + 1]] \in Grants
    BY ONLY <1>1, <2>1
  <2> QED
    BY <2>2, <2>3, <2>4, <2>5
<1>3. /\ [granted EXCEPT ![today].shared = @ + 1]
           = [granted EXCEPT ![today] = [g EXCEPT !.shared = @ + 1]]
      /\ [granted EXCEPT ![today].late = @ + 1]
           = [granted EXCEPT ![today] = [g EXCEPT !.late = @ + 1]]
      /\ [granted EXCEPT ![today].own[p] = @ + 1]
           = [granted EXCEPT ![today] = [g EXCEPT !.own[p] = @ + 1]]
  BY <1>1
<1>4. \A h \in Grants : [granted EXCEPT ![today] = h] \in [1..LastDate -> Grants]
  BY ONLY <1>1
<1> QED
  BY <1>2, <1>3, <1>4

\* A caller that waited is counted in Redis, for the day of its key.
LEMMA CountsKeep ==
    ASSUME GrantsInv, NEW p \in Procs, NEW k \in Coroutines, Limiter!CountRedis(p, k)
    PROVE  GrantsInv'
<1> USE DEF GrantsInv
<1>1. /\ at[p][k] = "counted" /\ Moved(p, k, "idle")
      /\ counter' = [counter EXCEPT ![key[p]] = @ + 1]
      /\ granted' = IF key[p] = today THEN [granted EXCEPT ![today].shared = @ + 1]
                                      ELSE [granted EXCEPT ![today].late = @ + 1]
      /\ UNCHANGED <<today, key, usingRedis, localCount, localDate>>
  BY DEF Limiter!CountRedis, Limiter!GrantShared, Moved
<1>2. /\ at'[p][k] = "idle"
      /\ \A q \in Procs, j \in Coroutines : <<q, j>> # <<p, k>> => at'[q][j] = at[q][j]
      /\ Cardinality(CountWaiting') = Cardinality(CountWaiting) - 1
  BY <1>1, MovedFewer
<1>3. LimiterTypes'
  <2>1. granted' \in [1..LastDate -> [shared : Nat, late : Nat, own : [Procs -> Nat]]]
    BY <1>1, OneMoreGranted
  <2>2. counter' \in [1..LastDate -> Nat]
    BY <1>1 DEF LimiterTypes
  <2>3. at' \in [Procs -> [Coroutines -> {"idle", "counted", "local"}]]
    BY <1>1 DEF LimiterTypes, Moved
  <2> QED
    BY <1>1, <2>1, <2>2, <2>3 DEF LimiterTypes
<1>4. /\ \A d \in 1..LastDate : d # today => granted'[d] = granted[d]
      /\ granted'[today].own = granted[today].own
      /\ key[p] = today => /\ granted'[today].shared = granted[today].shared + 1
                           /\ granted'[today].late = granted[today].late
      /\ key[p] # today => /\ granted'[today].shared = granted[today].shared
                           /\ granted'[today].late = granted[today].late + 1
  BY <1>1 DEF LimiterTypes
<1>5. /\ \A d \in 1..LastDate : d # key[p] => counter'[d] = counter[d]
      /\ counter'[key[p]] = counter[key[p]] + 1
      /\ key[p] \in 1..LastDate /\ key[p] <= today
  BY <1>1 DEF LimiterTypes, Steady
<1>6. Steady' /\ NothingAhead'
  <2>1. Steady'
    BY <1>1, <1>2 DEF Steady
  <2>2. NothingAhead'
    BY <1>1, <1>4, <1>5 DEF NothingAhead, LimiterTypes
  <2> QED
    BY <2>1, <2>2
<1>7. /\ Cardinality(CountWaiting) \in Nat /\ counter[today] \in Nat
      /\ granted[today].shared \in Nat /\ granted[today].late \in Nat
  <2>1. CountWaiting \subseteq AllCallers
    BY DEF CountWaiting
  <2> QED
    BY <2>1, CallersFinite DEF LimiterTypes
<1>8. SharedRoom'
  BY <1>1, <1>2, <1>4, <1>5, <1>7, BoundsTyped DEF SharedRoom
<1>9. LateRoom'
  <2>1. LateWaiting \subseteq AllCallers /\ IsFiniteSet(LateWaiting)
        /\ Cardinality(LateWaiting) \in Nat
    BY CallersFinite DEF LateWaiting
  <2>2. LateWaiting' = LateWaiting \ {<<p, k>>}
    <3>1. \A q \in Procs, j \in Coroutines :
            <<q, j>> \in LateWaiting' <=> <<q, j>> \in LateWaiting /\ <<q, j>> # <<p, k>>
      BY <1>1, <1>2 DEF LateWaiting, AllCallers
    <3> QED
      BY <3>1 DEF LateWaiting, AllCallers
  <2>3. Cardinality(LateWaiting') = IF <<p, k>> \in LateWaiting THEN Cardinality(LateWaiting) - 1
                                                                ELSE Cardinality(LateWaiting)
    BY <2>1, <2>2, FS_RemoveElement
  <2>4. <<p, k>> \in LateWaiting <=> key[p] # today
    BY <1>1 DEF LateWaiting, AllCallers
  <2>5. granted[today].late + Cardinality(LateWaiting) <= IF today = 1 THEN 0 ELSE AtOnce
    BY DEF LateRoom
  <2>6. granted'[today].late + Cardinality(LateWaiting')
          = granted[today].late + Cardinality(LateWaiting)
    BY <1>4, <1>7, <2>1, <2>3, <2>4
  <2> QED
    BY <1>1, <2>5, <2>6 DEF LateRoom
<1>10. ASSUME NEW q \in Procs  PROVE OwnRoom(q)'
  <2>1. OwnWaiting(q)' = OwnWaiting(q)
    BY <1>1, <1>2 DEF OwnWaiting
  <2>2. OwnRoom(q)
    OBVIOUS
  <2> QED
    BY <1>1, <1>4, <2>1, <2>2 DEF OwnRoom
<1>11. CallsBounded'
  BY <1>1, <1>3, <1>4, <1>8, <1>9, <1>10, RoomBounds
<1> QED
  BY <1>3, <1>6, <1>8, <1>9, <1>10, <1>11

\* A caller that waited is counted by its process, for the day of its date.
LEMMA OwnCountsKeep ==
    ASSUME GrantsInv, NEW p \in Procs, NEW k \in Coroutines, Limiter!CountLocal(p, k)
    PROVE  GrantsInv'
<1> USE DEF GrantsInv
<1>1. /\ at[p][k] = "local" /\ Moved(p, k, "idle")
      /\ localCount' = [localCount EXCEPT ![p] = @ + 1]
      /\ granted' = IF localDate[p] = today THEN [granted EXCEPT ![today].own[p] = @ + 1]
                                            ELSE [granted EXCEPT ![today].late = @ + 1]
      /\ UNCHANGED <<today, counter, key, usingRedis, localDate>>
  BY DEF Limiter!CountLocal, Limiter!GrantOwn, Moved
<1>2. /\ at'[p][k] = "idle"
      /\ \A q \in Procs, j \in Coroutines : <<q, j>> # <<p, k>> => at'[q][j] = at[q][j]
      /\ OwnWaiting(p)' = OwnWaiting(p) \ {k}
      /\ Cardinality(OwnWaiting(p)') = Cardinality(OwnWaiting(p)) - 1
  BY <1>1, MovedFewer
<1>3. LimiterTypes'
  <2>1. granted' \in [1..LastDate -> [shared : Nat, late : Nat, own : [Procs -> Nat]]]
    BY <1>1, OneMoreGranted
  <2>2. localCount' \in [Procs -> Nat]
    BY <1>1 DEF LimiterTypes
  <2>3. at' \in [Procs -> [Coroutines -> {"idle", "counted", "local"}]]
    BY <1>1 DEF LimiterTypes, Moved
  <2> QED
    BY <1>1, <2>1, <2>2, <2>3 DEF LimiterTypes
<1>4. /\ \A d \in 1..LastDate : d # today => granted'[d] = granted[d]
      /\ granted'[today].shared = granted[today].shared
      /\ \A q \in Procs : q # p => granted'[today].own[q] = granted[today].own[q]
      /\ localDate[p] = today => /\ granted'[today].own[p] = granted[today].own[p] + 1
                                 /\ granted'[today].late = granted[today].late
      /\ localDate[p] # today => /\ granted'[today].own[p] = granted[today].own[p]
                                 /\ granted'[today].late = granted[today].late + 1
  BY <1>1 DEF LimiterTypes
<1>5. /\ localCount'[p] = localCount[p] + 1
      /\ \A q \in Procs : q # p => localCount'[q] = localCount[q]
  BY <1>1 DEF LimiterTypes
<1>6. Steady' /\ NothingAhead'
  <2>1. Steady'
    BY <1>1, <1>2 DEF Steady
  <2>2. NothingAhead'
    BY <1>1, <1>4 DEF NothingAhead, LimiterTypes
  <2> QED
    BY <2>1, <2>2
<1>7. /\ granted[today].late \in Nat
      /\ \A q \in Procs : granted[today].own[q] \in Nat /\ localCount[q] \in Nat
  BY GrantsTyped
<1>8. SharedRoom'
  <2>1. CountWaiting' = CountWaiting
    <3>1. \A q \in Procs, j \in Coroutines : <<q, j>> \in CountWaiting' <=> <<q, j>> \in CountWaiting
      BY <1>1, <1>2 DEF CountWaiting, AllCallers
    <3> QED
      BY <3>1 DEF CountWaiting, AllCallers
  <2> QED
    BY <1>1, <1>4, <2>1 DEF SharedRoom
<1>9. LateRoom'
  <2>1. LateWaiting \subseteq AllCallers /\ IsFiniteSet(LateWaiting)
        /\ Cardinality(LateWaiting) \in Nat
    BY CallersFinite DEF LateWaiting
  <2>2. LateWaiting' = LateWaiting \ {<<p, k>>}
    <3>1. \A q \in Procs, j \in Coroutines :
            <<q, j>> \in LateWaiting' <=> <<q, j>> \in LateWaiting /\ <<q, j>> # <<p, k>>
      BY <1>1, <1>2 DEF LateWaiting, AllCallers
    <3> QED
      BY <3>1 DEF LateWaiting, AllCallers
  <2>3. Cardinality(LateWaiting') = IF <<p, k>> \in LateWaiting THEN Cardinality(LateWaiting) - 1
                                                                ELSE Cardinality(LateWaiting)
    BY <2>1, <2>2, FS_RemoveElement
  <2>4. <<p, k>> \in LateWaiting <=> localDate[p] # today
    BY <1>1 DEF LateWaiting, AllCallers
  <2>5. granted[today].late + Cardinality(LateWaiting) <= IF today = 1 THEN 0 ELSE AtOnce
    BY DEF LateRoom
  <2>6. granted'[today].late + Cardinality(LateWaiting')
          = granted[today].late + Cardinality(LateWaiting)
    BY <1>4, <1>7, <2>1, <2>3, <2>4
  <2> QED
    BY <1>1, <2>5, <2>6 DEF LateRoom
<1>10. ASSUME NEW q \in Procs  PROVE OwnRoom(q)'
  <2>1. OwnRoom(q)
    OBVIOUS
  <2>2. CASE q # p
    <3>1. OwnWaiting(q)' = OwnWaiting(q)
      BY <1>2, <2>2 DEF OwnWaiting
    <3> QED
      BY <1>1, <1>4, <1>5, <2>1, <2>2, <3>1 DEF OwnRoom
  <2>3. CASE q = p
    <3>1. Cardinality(OwnWaiting(p)) \in Nat
      <4>1. OwnWaiting(p) \subseteq Coroutines
        BY DEF OwnWaiting
      <4> QED
        BY <4>1, CallersFinite
    <3>2. /\ granted[today].own[p] \in Nat /\ localCount[p] \in Nat
          /\ Cardinality(OwnWaiting(p)') = Cardinality(OwnWaiting(p)) - 1
          /\ localCount'[p] = localCount[p] + 1
      BY <1>2, <1>5, <1>7
    <3>3. CASE localDate[p] = today
      <4>1. granted'[today].own[p] = granted[today].own[p] + 1
        BY <1>4, <3>3
      <4>2. OwnRoom(p)'
        BY <1>1, <2>1, <2>3, <3>1, <3>2, <3>3, <4>1, BoundsTyped DEF OwnRoom
      <4> QED
        BY <2>3, <4>2
    <3>4. CASE localDate[p] # today
      <4>1. granted'[today].own[p] = granted[today].own[p]
        BY <1>4, <3>4
      <4>2. OwnRoom(p)'
        BY <1>1, <2>1, <2>3, <3>1, <3>2, <3>4, <4>1, BoundsTyped DEF OwnRoom
      <4> QED
        BY <2>3, <4>2
    <3> QED
      BY <3>3, <3>4
  <2> QED
    BY <2>2, <2>3
<1>11. \A q \in Procs : usingRedis[q] => granted'[today].own[q] = granted[today].own[q]
  BY <1>1, <1>4 DEF Steady
<1>12. CallsBounded'
  BY <1>1, <1>3, <1>4, <1>8, <1>9, <1>10, <1>11, RoomBounds
<1> QED
  BY <1>3, <1>6, <1>8, <1>9, <1>10, <1>12

\* A new day: all that wait are late, nobody has been granted anything.
LEMMA MidnightKeeps ==
    ASSUME GrantsInv, Limiter!Midnight
    PROVE  GrantsInv'
<1> USE DEF GrantsInv
<1>1. /\ today' = today + 1 /\ today' \in 1..LastDate
      /\ UNCHANGED <<counter, key, usingRedis, localCount, localDate, at, granted>>
  <2>1. today \in 1..LastDate
    BY DEF LimiterTypes
  <2>2. /\ today < LastDate /\ today' = today + 1
        /\ UNCHANGED <<counter, key, usingRedis, localCount, localDate, at, granted>>
    BY DEF Limiter!Midnight
  <2>3. today + 1 \in 1..LastDate
    BY <2>1, <2>2, LimiterAssumption
  <2> QED
    BY <2>2, <2>3
<1>2. LimiterTypes'
  BY <1>1 DEF LimiterTypes
<1>3. Steady' /\ NothingAhead'
  BY <1>1 DEF Steady, NothingAhead, LimiterTypes
<1>4. CallsBounded'
  BY <1>1 DEF CallsBounded, Limiter!CallsBounded, Limiter!Days
<1>5. /\ counter'[today'] = 0 /\ granted'[today'].shared = 0 /\ granted'[today'].late = 0
      /\ \A p \in Procs : granted'[today'].own[p] = 0
  BY <1>1 DEF NothingAhead, LimiterTypes
<1>6. \A p \in Procs : localDate'[p] # today'
  BY <1>1 DEF Steady, LimiterTypes
<1>7. /\ CountWaiting' \subseteq AllCallers /\ LateWaiting' \subseteq AllCallers
  BY DEF CountWaiting, LateWaiting, AllCallers
<1>8. /\ Cardinality(CountWaiting') \in Nat /\ Cardinality(CountWaiting') <= AtOnce
      /\ Cardinality(LateWaiting') \in Nat /\ Cardinality(LateWaiting') <= AtOnce
  BY <1>7, CallersFinite
<1>9. SharedRoom'
  BY <1>5, <1>8, BoundsTyped DEF SharedRoom
<1>10. LateRoom'
  <2>1. today' # 1
    BY <1>1 DEF LimiterTypes
  <2> QED
    BY <1>5, <1>8, <2>1, BoundsTyped DEF LateRoom
<1>11. \A p \in Procs : OwnRoom(p)'
  BY <1>5, <1>6 DEF OwnRoom
<1> QED
  BY <1>2, <1>3, <1>4, <1>9, <1>10, <1>11

LEMMA GrantsStep == GrantsInv /\ [Limiter!Next]_(Limiter!limiterVars) => GrantsInv'
<1> SUFFICES ASSUME GrantsInv, [Limiter!Next]_(Limiter!limiterVars)  PROVE GrantsInv'
  OBVIOUS
<1>1. CASE UNCHANGED Limiter!limiterVars
  <2>1. UNCHANGED <<today, counter, key, usingRedis, localCount, localDate, at, granted>>
    BY <1>1 DEF Limiter!limiterVars
  <2>2. UNCHANGED <<CountWaiting, LateWaiting>> /\ \A p : OwnWaiting(p)' = OwnWaiting(p)
    BY <2>1 DEF CountWaiting, LateWaiting, OwnWaiting
  <2> QED
    BY <2>1, <2>2
       DEF GrantsInv, LimiterTypes, CallsBounded, Limiter!CallsBounded, Steady, NothingAhead,
           SharedRoom, LateRoom, OwnRoom
<1> QED
  BY <1>1, ChecksKeep, CountsKeep, EntriesKeep, OwnCountsKeep, MidnightKeeps DEF Limiter!Next

\* For any processes, coroutines, limits and days, however the checks, waits and counts
\* interleave, Redis fails and midnights pass: the calls counted in Redis for a day exceed the
\* limit by those that waited at once at most, those of a process that lost Redis likewise, and
\* those left over from the day before are the ones that waited then.
THEOREM CallsStayBounded == Limiter!Spec => []CallsBounded
<1>1. GrantsInv => CallsBounded
  BY DEF GrantsInv
<1> QED
  BY <1>1, GrantsInitial, GrantsStep, PTL DEF Limiter!Spec

=============================================================================
