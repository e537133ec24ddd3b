-------------------------- MODULE IngestionProofs --------------------------
(***************************************************************************)
(* Theorems about the start of the server and the ingestion worker, for    *)
(* any providers, interval, TTL and limit of fetch.  What carries them is  *)
(* that calls are open only while a cycle runs, at most one to a feed, and *)
(* that cached facts were asked for before any call still open.            *)
(***************************************************************************)
EXTENDS Ingestion, TLAPS

\* Nothing runs in a process that is not there, and no timer before the first
\* cycle has ended.
ProcessInv ==
  /\ server \in {"down", "failed", "opening"} => ~cycleInFlight
  /\ server = "starting" => cycleInFlight
  /\ server # "listening" => timer = NoTimer
  /\ ~cycleInFlight => fetches = {}

\* What the process still has to add is what the file lacks.
FileInv ==
  /\ server = "opening" => missing = Columns \ columns
  /\ server \in {"starting", "listening"} => columns = Columns

\* In the first cycle a feed without an answer still has an open call.
WarmInv ==
  \A p \in Providers :
    entry[p].error = "not_yet_ingested" =>
      /\ server # "listening"
      /\ server = "starting" => \E f \in fetches : f.provider = p

\* The cache dates facts by the time they were asked for.
DatedInv ==
  \A p \in Providers :
    entry[p].facts => /\ entry[p].status = "ok"
                      /\ entry[p].ingested = factsAge[p]
                      /\ factsAge[p] # Never

\* One open call to a feed, and it began after the cached facts were asked for.
OrderInv ==
  /\ \A f, g \in fetches : f.provider = g.provider => f = g
  /\ \A f \in fetches :
       entry[f.provider].facts =>
         f.age <= factsAge[f.provider]

IInv == TypeOK /\ ProcessInv /\ FileInv /\ WarmInv /\ DatedInv /\ OrderInv

USE IngestionAssumption

----------------------------------------------------------------------------
LEMMA IngestionInit == Init => IInv
<1> SUFFICES ASSUME Init
             PROVE  IInv
  OBVIOUS
<1>1. /\ Blank \in Entry /\ ~Blank.facts
      /\ \A p \in Providers : entry[p] = Blank
  BY DEF Init, Blank, Entry, Never
<1>2. TypeOK
  <2>1. entry \in [Providers -> Entry]
    BY <1>1 DEF Init
  <2>2. factsAge \in [Providers -> Never .. MaxAge]
    BY DEF Init, Never
  <2>3. timer \in NoTimer .. Interval
    BY DEF Init, NoTimer
  <2>4. /\ server \in {"down", "failed", "opening", "starting", "listening"}
        /\ cycleInFlight \in BOOLEAN
        /\ columns \subseteq Columns /\ missing \subseteq Columns
        /\ fetches \subseteq [provider : Providers, age : 0 .. FetchLimit]
    BY DEF Init
  <2>5. QED
    BY <2>1, <2>2, <2>3, <2>4 DEF TypeOK
<1>3. ProcessInv /\ FileInv /\ WarmInv /\ DatedInv /\ OrderInv
  BY <1>1 DEF Init, ProcessInv, FileInv, WarmInv, DatedInv, OrderInv
<1>4. QED
  BY <1>2, <1>3 DEF IInv

\* The cache and the worker are left alone.
LEMMA OpeningStep ==
  ASSUME IInv, OpenDatabase \/ \E c \in Columns : AddColumn(c)
  PROVE  IInv'
<1>1. CASE OpenDatabase
  BY <1>1 DEF OpenDatabase, Missing, cacheVars, IInv, TypeOK, ProcessInv,
     FileInv, WarmInv, DatedInv, OrderInv
<1>2. ASSUME NEW c \in Columns, AddColumn(c)
      PROVE  IInv'
  <2>1. server = "opening" /\ c \notin columns /\ UNCHANGED cacheVars
    BY <1>2 DEF AddColumn, IInv, FileInv
  <2>2. columns' = columns \cup {c} /\ missing' = missing \ {c}
        /\ UNCHANGED server
    BY <1>2, <2>1 DEF AddColumn
  <2>3. QED
    BY <2>1, <2>2 DEF cacheVars, IInv, TypeOK, ProcessInv, FileInv, WarmInv,
       DatedInv, OrderInv
<1>3. QED
  BY <1>1, <1>2

LEMMA BeginCycleStep ==
  ASSUME IInv, Start \/ Poll
  PROVE  IInv'
<1>1. /\ fetches = {} /\ cycleInFlight' = TRUE
      /\ fetches' = [provider : Providers, age : {0}]
      /\ UNCHANGED <<dbVars, entry, factsAge>>
  BY DEF Start, Poll, BeginCycle, IInv, ProcessInv, dbVars
<1>2. \A f \in fetches' : f.provider \in Providers /\ f.age = 0
  BY <1>1
<1>3. \A f, g \in fetches' : f.provider = g.provider => f = g
  BY <1>1
<1>4. \A p \in Providers : \E f \in fetches' : f.provider = p
  <2> TAKE p \in Providers
  <2>1. [provider |-> p, age |-> 0] \in fetches'
    BY <1>1
  <2>2. QED
    BY <2>1
<1>5. /\ server \in {"opening", "listening"}
      /\ server = "opening" => /\ server' = "starting" /\ timer' = timer
                               /\ missing = {}
      /\ server = "listening" => server' = "listening" /\ timer' = Interval
  BY DEF Start, Poll, Due, IInv, TypeOK, ProcessInv, NoTimer
<1>6. TypeOK'
  BY <1>1, <1>5 DEF IInv, TypeOK, dbVars, NoTimer
<1>7. ProcessInv' /\ FileInv'
  BY <1>1, <1>5 DEF IInv, TypeOK, ProcessInv, FileInv, dbVars
<1>8. WarmInv'
  BY <1>1, <1>4, <1>5 DEF IInv, WarmInv
<1>9. DatedInv'
  BY <1>1 DEF IInv, DatedInv
<1>10. OrderInv'
  BY <1>1, <1>2, <1>3 DEF IInv, OrderInv, DatedInv, TypeOK, Never
<1>11. QED
  BY <1>6, <1>7, <1>8, <1>9, <1>10 DEF IInv

LEMMA EndCycleStep ==
  ASSUME IInv, EndCycle
  PROVE  IInv'
<1>1. /\ fetches = {} /\ cycleInFlight' = FALSE
      /\ UNCHANGED <<dbVars, fetches, entry, factsAge>>
      /\ server' = "listening" /\ timer' \in NoTimer .. Interval
      /\ server \in {"starting", "listening"}
  BY DEF EndCycle, IInv, TypeOK, NoTimer
<1>2. QED
  BY <1>1 DEF IInv, TypeOK, ProcessInv, FileInv, WarmInv, DatedInv, OrderInv, dbVars

LEMMA SkipPollStep ==
  ASSUME IInv, SkipPoll
  PROVE  IInv'
<1>1. timer' = Interval /\ server = "listening"
      /\ UNCHANGED <<server, dbVars, cycleInFlight, fetches, entry, factsAge>>
  BY DEF SkipPoll, Due, IInv, ProcessInv, NoTimer
<1>2. QED
  BY <1>1 DEF IInv, TypeOK, ProcessInv, FileInv, WarmInv, DatedInv, OrderInv,
              dbVars, NoTimer

\* An answer to f ends the only open call to its feed.
LEMMA AnswerStep ==
  ASSUME IInv, NEW f \in fetches, Answer(f)
  PROVE  IInv'
<1> DEFINE p == f.provider
           age == f.age
<1>1. /\ p \in Providers /\ f.age \in 0 .. FetchLimit
      /\ age \in 0 .. MaxAge /\ cycleInFlight
      /\ server \in {"starting", "listening"}
  BY DEF IInv, TypeOK, ProcessInv
<1>2. /\ fetches' = fetches \ {f}
      /\ UNCHANGED <<server, dbVars, cycleInFlight, timer>>
  BY DEF Answer, FetchSucceeds, FetchFails
<1>3. /\ entry' \in [Providers -> Entry]
      /\ entry'[p].error # "not_yet_ingested"
      /\ \A q \in Providers \ {p} : entry'[q] = entry[q] /\ factsAge'[q] = factsAge[q]
      /\ factsAge' \in [Providers -> Never .. MaxAge]
      /\ entry'[p].facts => /\ entry'[p].status = "ok"
                            /\ entry'[p].ingested = factsAge'[p]
                            /\ factsAge'[p] = age
  <2>1. CASE FetchSucceeds(f)
    <3>1. PICK facts \in BOOLEAN :
            /\ entry' = [entry EXCEPT ![p] =
                 [status |-> "ok", facts |-> facts, error |-> "none", ingested |-> age]]
            /\ factsAge' = [factsAge EXCEPT ![p] = age]
      BY <2>1 DEF FetchSucceeds
    <3>2. [status |-> "ok", facts |-> facts, error |-> "none", ingested |-> age] \in Entry
      BY <1>1 DEF Entry, Never
    <3>3. QED
      BY <1>1, <3>1, <3>2 DEF IInv, TypeOK, Never
  <2>2. CASE FetchFails(f)
    <3>1. /\ entry' = [entry EXCEPT ![p] =
               [status |-> "failed", facts |-> FALSE, error |-> "fetch_failed",
                ingested |-> entry[p].ingested]]
          /\ factsAge' = factsAge
      BY <2>2 DEF FetchFails
    <3>2. entry \in [Providers -> Entry] /\ factsAge \in [Providers -> Never .. MaxAge]
      BY DEF IInv, TypeOK
    <3>3. entry[p] \in Entry
          /\ entry'[p] = [status |-> "failed", facts |-> FALSE,
                          error |-> "fetch_failed", ingested |-> entry[p].ingested]
      BY <1>1, <3>1, <3>2
    <3>4. entry'[p] \in Entry /\ ~entry'[p].facts /\ entry'[p].error = "fetch_failed"
      BY <3>3 DEF Entry
    <3>5. \A q \in Providers \ {p} : entry'[q] = entry[q]
      BY <3>1, <3>2
    <3>6. entry' \in [Providers -> Entry]
      BY <3>1, <3>2, <3>4, <3>5
    <3>7. QED
      BY <3>1, <3>2, <3>4, <3>5, <3>6
  <2>3. QED
    BY <2>1, <2>2 DEF Answer
<1>4. TypeOK'
  BY <1>2, <1>3 DEF IInv, TypeOK, dbVars
<1>5. ProcessInv' /\ FileInv'
  BY <1>1, <1>2 DEF IInv, ProcessInv, FileInv, dbVars
<1>6. WarmInv'
  BY <1>1, <1>2, <1>3 DEF IInv, WarmInv
<1>7. DatedInv'
  BY <1>1, <1>3 DEF IInv, DatedInv, Never
<1>8. OrderInv'
  BY <1>1, <1>2, <1>3 DEF IInv, TypeOK, OrderInv
<1>9. QED
  BY <1>4, <1>5, <1>6, <1>7, <1>8 DEF IInv

LEMMA TickStep ==
  ASSUME IInv, Tick
  PROVE  IInv'
<1>1. /\ timer # 0 /\ UNCHANGED <<server, dbVars, cycleInFlight>>
      /\ timer' = IF timer = NoTimer THEN NoTimer ELSE timer - 1
      /\ fetches' = {[f EXCEPT !.age = @ + 1] : f \in fetches}
      /\ entry' = [p \in Providers |-> [entry[p] EXCEPT !.ingested = Older(@)]]
      /\ factsAge' = [p \in Providers |-> Older(factsAge[p])]
  BY DEF Tick, Due
<1>2. \A f \in fetches : f.provider \in Providers /\ f.age \in 0 .. FetchLimit
                         /\ f = [provider |-> f.provider, age |-> f.age]
  BY DEF IInv, TypeOK
<1>3. \A f \in fetches : f.age + 1 \in 0 .. FetchLimit
  BY <1>2 DEF Tick, Limit
<1>4. \A f \in fetches : [f EXCEPT !.age = @ + 1] =
                           [provider |-> f.provider, age |-> f.age + 1]
  BY <1>2
<1>5. fetches' = {[provider |-> f.provider, age |-> f.age + 1] : f \in fetches}
  BY <1>1, <1>4
<1>6. \A age \in Never .. MaxAge : Older(age) \in Never .. MaxAge
  BY DEF Older, Never
<1>7. \A p \in Providers :
        /\ entry[p] \in Entry /\ factsAge[p] \in Never .. MaxAge
        /\ factsAge'[p] = Older(factsAge[p])
  BY <1>1 DEF IInv, TypeOK
<1>8. \A p \in Providers :
        /\ entry'[p] \in Entry /\ entry'[p].ingested = Older(entry[p].ingested)
        /\ entry'[p].facts <=> entry[p].facts
        /\ entry'[p].status = entry[p].status
        /\ entry'[p].error = entry[p].error
  <2> TAKE p \in Providers
  <2>1. entry'[p] = [status |-> entry[p].status, facts |-> entry[p].facts,
                     error |-> entry[p].error, ingested |-> Older(entry[p].ingested)]
    BY <1>1, <1>7 DEF Entry
  <2>2. entry[p].ingested \in Never .. MaxAge
    BY <1>7 DEF Entry
  <2>3. QED
    BY <1>6, <1>7, <2>1, <2>2 DEF Entry
<1>9. TypeOK'
  <2>1. timer' \in NoTimer .. Interval
    BY <1>1 DEF IInv, TypeOK, NoTimer
  <2>2. fetches' \subseteq [provider : Providers, age : 0 .. FetchLimit]
    BY <1>2, <1>3, <1>5
  <2>3. entry' \in [Providers -> Entry]
    BY <1>1, <1>8
  <2>4. factsAge' \in [Providers -> Never .. MaxAge]
    BY <1>1, <1>6, <1>7
  <2>5. QED
    BY <1>1, <2>1, <2>2, <2>3, <2>4 DEF IInv, TypeOK, dbVars
<1>10. ProcessInv' /\ FileInv'
  BY <1>1, <1>5 DEF IInv, TypeOK, ProcessInv, FileInv, dbVars, NoTimer
<1>11. WarmInv'
  <2> SUFFICES ASSUME NEW p \in Providers, entry'[p].error = "not_yet_ingested"
               PROVE  /\ server' # "listening"
                      /\ server' = "starting" => \E f \in fetches' : f.provider = p
    BY DEF WarmInv
  <2>1. CASE server = "starting"
    <3>1. PICK f \in fetches : f.provider = p
      BY <1>8, <2>1 DEF IInv, WarmInv
    <3>2. [provider |-> p, age |-> f.age + 1] \in fetches'
      BY <1>5, <3>1
    <3>3. QED
      BY <1>1, <2>1, <3>2
  <2>2. QED
    BY <1>1, <1>8, <2>1 DEF IInv, WarmInv
<1>12. DatedInv'
  <2> SUFFICES ASSUME NEW p \in Providers, entry'[p].facts
               PROVE  /\ entry'[p].status = "ok"
                      /\ entry'[p].ingested = factsAge'[p]
                      /\ factsAge'[p] # Never
    BY DEF DatedInv
  <2>1. entry[p].facts
    BY <1>8
  <2>2. entry[p].status = "ok" /\ entry[p].ingested = factsAge[p]
        /\ factsAge[p] # Never
    BY <2>1 DEF IInv, DatedInv
  <2>3. QED
    BY <1>7, <1>8, <2>2 DEF Older, Never
<1>13. OrderInv'
  <2>1. ASSUME NEW f \in fetches', NEW g \in fetches', f.provider = g.provider
        PROVE  f = g
    BY <1>2, <1>5, <2>1 DEF IInv, OrderInv
  <2>2. ASSUME NEW g \in fetches', entry'[g.provider].facts
        PROVE  g.age <= factsAge'[g.provider]
    <3>1. PICK f \in fetches : g = [provider |-> f.provider, age |-> f.age + 1]
      BY <1>5
    <3>2. /\ factsAge[f.provider] # Never
          /\ f.age <= factsAge[f.provider]
      BY <1>2, <1>8, <2>2, <3>1 DEF IInv, OrderInv, DatedInv
    <3>3. f.age + 1 < MaxAge
      BY <1>3
    <3>4. QED
      BY <1>2, <1>7, <3>1, <3>2, <3>3 DEF Older, Never
  <2>3. QED
    BY <2>1, <2>2 DEF OrderInv
<1>14. QED
  BY <1>9, <1>10, <1>11, <1>12, <1>13 DEF IInv

LEMMA CrashStep ==
  ASSUME IInv, Crash
  PROVE  IInv'
<1>1. /\ Blank \in Entry /\ ~Blank.facts
      /\ entry' \in [Providers -> Entry]
      /\ \A p \in Providers : entry'[p] = Blank
      /\ factsAge' \in [Providers -> Never .. MaxAge]
  BY DEF Crash, Blank, Entry, Never
<1>2. /\ server' = "down" /\ ~cycleInFlight' /\ cycleInFlight' \in BOOLEAN
      /\ timer' = NoTimer /\ fetches' = {} /\ missing' = {} /\ columns' = columns
  BY DEF Crash
<1>3. TypeOK'
  BY <1>1, <1>2 DEF IInv, TypeOK, NoTimer
<1>4. ProcessInv' /\ FileInv' /\ WarmInv' /\ DatedInv' /\ OrderInv'
  BY <1>1, <1>2 DEF ProcessInv, FileInv, WarmInv, DatedInv, OrderInv
<1>5. QED
  BY <1>3, <1>4 DEF IInv

LEMMA IngestionNext == IInv /\ [Next]_vars => IInv'
<1> SUFFICES ASSUME IInv, [Next]_vars
             PROVE  IInv'
  OBVIOUS
<1>1. CASE UNCHANGED vars
  BY <1>1 DEF vars, dbVars, cacheVars, IInv, TypeOK, ProcessInv, FileInv,
     WarmInv, DatedInv, OrderInv
<1>2. QED
  <2>1. ASSUME NEW f \in fetches, Answer(f)
        PROVE  IInv'
    BY <2>1, AnswerStep
  <2>2. CASE OpenDatabase \/ \E c \in Columns : AddColumn(c)
    BY <2>2, OpeningStep
  <2>3. CASE Start \/ Poll
    BY <2>3, BeginCycleStep
  <2>4. CASE EndCycle \/ SkipPoll
    BY <2>4, EndCycleStep, SkipPollStep
  <2>5. CASE Tick \/ Crash
    BY <2>5, TickStep, CrashStep
  <2>6. QED
    BY <1>1, <2>1, <2>2, <2>3, <2>4, <2>5 DEF Next

LEMMA IngestionIInv == Spec => []IInv
BY IngestionInit, IngestionNext, PTL DEF Spec

----------------------------------------------------------------------------
\* The cache, the worker's timer and the open calls keep their types; a fetch
\* ends within its limit and the timer never runs below zero (worker.ts:26-80).
THEOREM IngestionTypeOK == Spec => []TypeOK
<1>1. IInv => TypeOK
  BY DEF IInv
<1>2. QED
  BY <1>1, IngestionIInv, PTL

\* No reader is given facts asked for longer ago than the TTL
\* (cache.ts:21-30, 59-74).
THEOREM IngestionServesFresh == Spec => []ServedFactsAreFresh
<1>1. IInv => ServedFactsAreFresh
  <2> SUFFICES ASSUME IInv, NEW p \in Providers, Served(p).facts
               PROVE  factsAge[p] \in 0 .. TTL
    BY DEF ServedFactsAreFresh
  <2>1. entry[p] \in Entry /\ factsAge[p] \in Never .. MaxAge
    BY DEF IInv, TypeOK
  <2>2. entry[p].facts /\ ~(entry[p].status = "ok" /\ entry[p].ingested > TTL)
    BY <2>1 DEF Served, Entry
  <2>3. QED
    BY <2>1, <2>2 DEF IInv, DatedInv, Never
<1>2. QED
  BY <1>1, IngestionIInv, PTL

\* The server listens only with every feed tried and both columns in the file
\* (worker.ts:36-43, connection.ts:126-135).
THEOREM IngestionReady == Spec => []ReadyBeforeListening
<1>1. IInv => ReadyBeforeListening
  <2> SUFFICES ASSUME IInv, server = "listening", NEW p \in Providers
               PROVE  columns = Columns /\ Served(p).error # "not_yet_ingested"
    BY DEF ReadyBeforeListening, IInv, FileInv
  <2>1. entry[p] \in Entry
    BY DEF IInv, TypeOK
  <2>2. Served(p).error = entry[p].error
    BY <2>1 DEF Served, Entry
  <2>3. QED
    BY <2>2 DEF IInv, FileInv, WarmInv
<1>2. QED
  BY <1>1, IngestionIInv, PTL

\* Two answers of one feed are never applied out of order (worker.ts:8-11).
THEOREM IngestionFactsNeverGoBack == Spec => FactsNeverGoBack
<1> DEFINE Forward ==
      \A p \in Providers :
        (entry[p].facts /\ entry'[p].facts /\ server' # "down")
          => factsAge'[p] <= Older(factsAge[p])
<1>1. IInv /\ IInv' /\ [Next]_vars => [Forward]_vars
  <2> SUFFICES ASSUME IInv, IInv', Next, NEW p \in Providers, entry[p].facts,
                      entry'[p].facts, server' # "down"
               PROVE  factsAge'[p] <= Older(factsAge[p])
    BY DEF Forward
  <2>1. factsAge[p] \in 0 .. MaxAge
    BY DEF IInv, TypeOK, DatedInv, Never
  <2>2. CASE factsAge'[p] = factsAge[p]
    BY <2>1, <2>2 DEF Older, Never
  <2>3. CASE Tick
    BY <2>1, <2>3 DEF Tick, IInv, TypeOK, Older, Never
  <2>4. ASSUME NEW f \in fetches, Answer(f), f.provider = p
        PROVE  factsAge'[p] <= Older(factsAge[p])
    <3>1. f.age \in 0 .. FetchLimit
          /\ f.age <= factsAge[p]
      BY <2>4 DEF IInv, TypeOK, OrderInv
    <3>2. factsAge'[p] = factsAge[p]
          \/ factsAge'[p] = f.age
      BY <2>4 DEF Answer, FetchSucceeds, FetchFails, IInv, TypeOK
    <3>3. QED
      BY <2>1, <3>1, <3>2 DEF Older, Never
  <2>5. ASSUME NEW f \in fetches, Answer(f), f.provider # p
        PROVE  factsAge'[p] = factsAge[p]
    BY <2>5 DEF Answer, FetchSucceeds, FetchFails, IInv, TypeOK
  <2>6. CASE OpenDatabase \/ Start \/ EndCycle \/ Poll \/ SkipPoll
    BY <2>2, <2>6 DEF OpenDatabase, Start, EndCycle, Poll, SkipPoll, cacheVars
  <2>7. CASE \E c \in Columns : AddColumn(c)
    BY <2>2, <2>7 DEF AddColumn, cacheVars
  <2>8. CASE Crash
    BY <2>8 DEF Crash
  <2>9. QED
    BY <2>2, <2>3, <2>4, <2>5, <2>6, <2>7, <2>8 DEF Next
<1>2. QED
  <2>1. [Forward]_vars => [\A p \in Providers :
          (entry[p].facts /\ entry[p]'.facts /\ server' # "down")
            => factsAge[p]' <= Older(factsAge[p])]_vars
    OBVIOUS
  <2>2. QED
    BY <1>1, <2>1, IngestionIInv, PTL DEF Spec, FactsNeverGoBack

ServedByGoodFeeds ==
  \A p \in Providers :
    Served(p).facts => /\ Served(p).status = "ok"
                       /\ Served(p).ingested \in 0 .. TTL

\* What Ranking starts from: facts are served for a feed that is ok, and dated
\* within the TTL, and for no other; that is the cache its RefreshRunPod,
\* RefreshFixture and LoseFacts make (cache.ts:59-74).
THEOREM IngestionServesGoodFeeds == Spec => []ServedByGoodFeeds
<1>1. IInv => ServedByGoodFeeds
  <2> SUFFICES ASSUME IInv, NEW p \in Providers, Served(p).facts
               PROVE  /\ Served(p).status = "ok"
                      /\ Served(p).ingested \in 0 .. TTL
    BY DEF ServedByGoodFeeds
  <2>1. entry[p] \in Entry /\ factsAge[p] \in Never .. MaxAge
    BY DEF IInv, TypeOK
  <2>2. entry[p].facts /\ ~(entry[p].status = "ok" /\ entry[p].ingested > TTL)
    BY <2>1 DEF Served, Entry
  <2>3. Served(p) = entry[p]
    BY <2>2 DEF Served
  <2>4. QED
    BY <2>1, <2>2, <2>3 DEF IInv, DatedInv, Never
<1>2. QED
  BY <1>1, IngestionIInv, PTL

----------------------------------------------------------------------------
(* How far a hanging feed can take a healthy one down with it.             *)

\* The interval is never lost, and the calls of a cycle were made together.
CycleInv ==
  /\ server = "listening" => timer \in 0 .. Interval
  /\ \A f, g \in fetches : f.age = g.age

Asked(p) == \E f \in fetches : f.provider = p

\* A feed that answers at once has its facts dated by the cycle they came in;
\* from the end of that cycle the timer leaves them an interval.
HealthyOf(p) ==
  /\ \A f \in fetches : f.provider = p => f.age = 0
  /\ server = "listening" \/ (server = "starting" /\ ~Asked(p)) =>
       /\ entry[p].status = "ok" /\ entry[p].facts
       /\ entry[p].ingested \in 0 .. FetchLimit + Interval
  /\ cycleInFlight /\ ~Asked(p) =>
       /\ entry[p].ingested <= FetchLimit
       /\ \A f \in fetches : f.age = entry[p].ingested
  /\ server = "listening" /\ ~cycleInFlight =>
       entry[p].ingested + timer <= FetchLimit + Interval

HealthyInv == CycleInv /\ \A p \in Local : HealthyOf(p)

\* A cycle begins: every feed has an open call, just made.
LEMMA BeginHealthy ==
  ASSUME IInv, HealthyInv, Start \/ Poll
  PROVE  HealthyInv'
<1>1. /\ fetches' = [provider : Providers, age : {0}]
      /\ entry' = entry
      /\ server \in {"opening", "listening"}
      /\ server = "opening" => server' = "starting"
      /\ server = "listening" => server' = "listening" /\ timer' = Interval
      /\ cycleInFlight'
  <2>1. CASE Start
    BY <2>1 DEF Start, BeginCycle, IInv, ProcessInv
  <2>2. CASE Poll
    <3>1. timer = 0 /\ ~cycleInFlight /\ server' = server /\ timer' = Interval
      BY <2>2 DEF Poll, Due
    <3>2. server = "listening"
      BY <3>1 DEF IInv, ProcessInv, NoTimer
    <3>3. QED
      BY <2>2, <3>1, <3>2 DEF Poll, BeginCycle, IInv, ProcessInv
  <2>3. QED
    BY <2>1, <2>2
<1>2. \A f \in fetches' : f.age = 0
  BY <1>1
<1>3. CycleInv'
  BY <1>1, <1>2 DEF CycleInv, HealthyInv
<1>4. ASSUME NEW p \in Local
      PROVE  HealthyOf(p)'
  <2>1. [provider |-> p, age |-> 0] \in fetches'
    BY <1>1
  <2>2. Asked(p)'
    BY <2>1 DEF Asked
  <2>3. QED
    BY <1>1, <1>2, <2>2 DEF HealthyInv, HealthyOf
<1>5. QED
  BY <1>3, <1>4 DEF HealthyInv

\* A cycle ends, or is in flight when the timer fires.
LEMMA EndHealthy ==
  ASSUME IInv, HealthyInv, EndCycle \/ SkipPoll
  PROVE  HealthyInv'
<1>1. CASE EndCycle
  <2>1. /\ cycleInFlight /\ fetches = {} /\ ~cycleInFlight'
        /\ UNCHANGED <<fetches, entry>>
        /\ server \in {"starting", "listening"} /\ server' = "listening"
        /\ timer' \in 0 .. Interval
    BY <1>1 DEF EndCycle, HealthyInv, CycleInv
  <2>2. CycleInv'
    BY <2>1 DEF CycleInv
  <2>3. ASSUME NEW p \in Local
        PROVE  HealthyOf(p)'
    <3>1. ~Asked(p)
      BY <2>1 DEF Asked
    <3>2. /\ entry[p].status = "ok" /\ entry[p].facts
          /\ entry[p].ingested \in 0 .. FetchLimit + Interval
          /\ entry[p].ingested <= FetchLimit
      BY <2>1, <3>1 DEF HealthyInv, HealthyOf
    <3>3. QED
      BY <2>1, <3>2 DEF HealthyOf
  <2>4. QED
    BY <2>2, <2>3 DEF HealthyInv
<1>2. CASE SkipPoll
  <2>1. /\ cycleInFlight /\ timer' = Interval
        /\ UNCHANGED <<server, cycleInFlight, fetches, entry>>
    BY <1>2 DEF SkipPoll
  <2>2. QED
    BY <2>1 DEF HealthyInv, CycleInv, HealthyOf, Asked
<1>3. QED
  BY <1>1, <1>2

LEMMA AnswerHealthy ==
  ASSUME IInv, HealthyInv, NEW f \in fetches, Answer(f)
  PROVE  HealthyInv'
<1>1. /\ fetches' = fetches \ {f}
      /\ UNCHANGED <<server, cycleInFlight, timer>>
      /\ f.provider \in Providers
      /\ cycleInFlight /\ server \in {"starting", "listening"}
  BY DEF Answer, FetchSucceeds, FetchFails, IInv, TypeOK, ProcessInv
<1>2. CycleInv'
  BY <1>1 DEF HealthyInv, CycleInv
<1>3. ASSUME NEW p \in Local, p # f.provider
      PROVE  HealthyOf(p)'
  <2>1. entry'[p] = entry[p]
    BY <1>1, <1>3 DEF Answer, FetchSucceeds, FetchFails, IInv, TypeOK
  <2>2. Asked(p)' <=> Asked(p)
    BY <1>1, <1>3 DEF Asked
  <2>3. QED
    BY <1>1, <2>1, <2>2 DEF HealthyInv, HealthyOf
<1>4. ASSUME NEW p \in Local, p = f.provider
      PROVE  HealthyOf(p)'
  <2>1. f.age = 0 /\ \A g \in fetches' : g.age = 0 /\ g.provider # p
    BY <1>1, <1>4 DEF HealthyInv, HealthyOf, CycleInv, IInv, OrderInv
  <2>2. entry'[p].status = "ok" /\ entry'[p].facts /\ entry'[p].ingested = 0
    <3>1. FetchSucceeds(f)
      BY <1>4 DEF Answer, FetchFails
    <3>2. entry' = [entry EXCEPT ![p] = [status |-> "ok", facts |-> TRUE,
                                         error |-> "none", ingested |-> f.age]]
      BY <1>4, <3>1 DEF FetchSucceeds
    <3>3. QED
      BY <1>1, <1>4, <2>1, <3>2 DEF IInv, TypeOK
  <2>3. QED
    BY <1>1, <2>1, <2>2 DEF HealthyOf
<1>5. QED
  BY <1>2, <1>3, <1>4 DEF HealthyInv

\* Time passes only while every open call has some left, or up to the next poll.
LEMMA TickHealthy ==
  ASSUME IInv, HealthyInv, Tick
  PROVE  HealthyInv'
<1>1. /\ timer # 0 /\ UNCHANGED <<server, cycleInFlight>>
      /\ timer' = IF timer = NoTimer THEN NoTimer ELSE timer - 1
      /\ fetches' = {[f EXCEPT !.age = @ + 1] : f \in fetches}
      /\ \A f \in fetches : f.age < Limit(f)
      /\ cycleInFlight => fetches # {}
  BY DEF Tick, Due
<1>2. \A f \in fetches : /\ f.age \in 0 .. FetchLimit
                         /\ f = [provider |-> f.provider, age |-> f.age]
  BY DEF IInv, TypeOK
<1>3. fetches' = {[provider |-> f.provider, age |-> f.age + 1] : f \in fetches}
  <2>1. \A f \in fetches : [f EXCEPT !.age = @ + 1] =
                             [provider |-> f.provider, age |-> f.age + 1]
    BY <1>2
  <2>2. QED
    BY <1>1, <2>1
<1>4. CycleInv'
  <2>1. \A f, g \in fetches' : f.age = g.age
    BY <1>3 DEF HealthyInv, CycleInv
  <2>2. server' = "listening" => timer' \in 0 .. Interval
    BY <1>1 DEF HealthyInv, CycleInv, NoTimer
  <2>3. QED
    BY <2>1, <2>2 DEF CycleInv
<1>5. ASSUME NEW p \in Local
      PROVE  HealthyOf(p)'
  <2>1. \A f \in fetches : f.provider # p /\ f.age < FetchLimit
    BY <1>1, <1>2, <1>5 DEF Limit
  <2>2. ~Asked(p) /\ ~Asked(p)' /\ \A f \in fetches' : f.provider # p
    BY <1>3, <2>1 DEF Asked
  <2>3. /\ entry'[p].status = entry[p].status
        /\ entry'[p].facts = entry[p].facts
        /\ entry'[p].ingested = Older(entry[p].ingested)
    <3>1. /\ entry[p] \in Entry
          /\ entry'[p] = [entry[p] EXCEPT !.ingested = Older(@)]
      BY DEF Tick, IInv, TypeOK
    <3>2. QED
      BY <3>1 DEF Entry
  <2>4. CASE server \in {"starting", "listening"}
    <3>1. /\ entry[p].status = "ok" /\ entry[p].facts
          /\ entry[p].ingested \in 0 .. FetchLimit + Interval
      BY <2>2, <2>4 DEF HealthyInv, HealthyOf
    <3>2. entry'[p].ingested = entry[p].ingested + 1
      BY <2>3, <3>1 DEF Older, Never
    <3>3. CASE cycleInFlight
      <4>1. /\ \A f \in fetches : f.age = entry[p].ingested
            /\ entry[p].ingested < FetchLimit
        BY <1>1, <2>1, <2>2, <3>3 DEF HealthyInv, HealthyOf
      <4>2. \A f \in fetches' : f.age = entry'[p].ingested
        BY <1>3, <3>2, <4>1
      <4>3. QED
        BY <1>1, <2>2, <2>3, <3>1, <3>2, <3>3, <4>1, <4>2 DEF HealthyOf
    <3>4. CASE ~cycleInFlight
      <4>1. server = "listening" /\ timer \in 1 .. Interval /\ timer' = timer - 1
        BY <1>1, <2>4, <3>4 DEF IInv, ProcessInv, HealthyInv, CycleInv, NoTimer
      <4>2. entry[p].ingested + timer <= FetchLimit + Interval
        BY <3>4, <4>1 DEF HealthyInv, HealthyOf
      <4>3. QED
        BY <1>1, <2>2, <2>3, <3>1, <3>2, <3>4, <4>1, <4>2 DEF HealthyOf
    <3>5. QED
      BY <3>3, <3>4
  <2>5. CASE server \notin {"starting", "listening"}
    <3>1. ~cycleInFlight
      BY <2>5 DEF IInv, TypeOK, ProcessInv
    <3>2. QED
      BY <1>1, <2>2, <2>5, <3>1 DEF HealthyOf
  <2>6. QED
    BY <2>4, <2>5
<1>6. QED
  BY <1>4, <1>5 DEF HealthyInv

\* Nothing is ingested before a start and after the end of a process.
LEMMA DownHealthy ==
  ASSUME IInv, OpenDatabase \/ Crash \/ \E c \in Columns : AddColumn(c)
  PROVE  HealthyInv'
<1>1. ~cycleInFlight' /\ fetches' = {} /\ server' \notin {"starting", "listening"}
  BY DEF OpenDatabase, Crash, AddColumn, cacheVars, IInv, TypeOK, ProcessInv
<1>2. QED
  BY <1>1 DEF HealthyInv, CycleInv, HealthyOf

LEMMA HealthyNext ==
  ASSUME IInv, HealthyInv, [Next]_vars
  PROVE  HealthyInv'
<1>1. CASE UNCHANGED vars
  BY <1>1 DEF vars, dbVars, cacheVars, HealthyInv, CycleInv, HealthyOf, Asked
<1>2. ASSUME NEW f \in fetches, Answer(f)
      PROVE  HealthyInv'
  BY <1>2, AnswerHealthy
<1>3. CASE OpenDatabase \/ Crash \/ \E c \in Columns : AddColumn(c)
  BY <1>3, DownHealthy
<1>4. CASE Start \/ Poll
  BY <1>4, BeginHealthy
<1>5. CASE EndCycle \/ SkipPoll
  BY <1>5, EndHealthy
<1>6. CASE Tick
  BY <1>6, TickHealthy
<1>7. QED
  BY <1>1, <1>2, <1>3, <1>4, <1>5, <1>6 DEF Next

\* While the server listens, what it holds of a feed that always answers was asked
\* for no longer ago than one call may hang and one interval, however long every
\* other feed hangs and however often it does (cache.ts:81-90, worker.ts:41-80).
THEOREM IngestionHealthyAge == Spec => []HealthyDataAgeIsBounded
<1>1. Init => HealthyInv
  BY DEF Init, HealthyInv, CycleInv, HealthyOf
<1>2. IInv /\ HealthyInv /\ [Next]_vars => HealthyInv'
  BY HealthyNext
<1>3. IInv /\ HealthyInv => HealthyDataAgeIsBounded
  <2> SUFFICES ASSUME IInv, HealthyInv, server = "listening", NEW p \in Local
               PROVE  /\ entry[p].status = "ok" /\ entry[p].facts
                      /\ factsAge[p] <= FetchLimit + Interval
    BY DEF HealthyDataAgeIsBounded
  <2>1. /\ entry[p].status = "ok" /\ entry[p].facts
        /\ entry[p].ingested \in 0 .. FetchLimit + Interval
    BY DEF HealthyInv, HealthyOf
  <2>2. entry[p].ingested = factsAge[p]
    BY <2>1 DEF IInv, DatedInv
  <2>3. QED
    BY <2>1, <2>2
<1>4. QED
  BY <1>1, <1>2, <1>3, IngestionIInv, PTL DEF Spec
=============================================================================
