----------------------------- MODULE Ingestion -----------------------------
(***************************************************************************)
(* The server's start and the background ingestion of provider facts.  On  *)
(* start two columns that an older request_log lacks are added to the      *)
(* database file, one statement each; then IngestionWorker runs a first    *)
(* cycle, and only then the server listens.  The worker polls on an        *)
(* interval and skips a tick while a cycle is in flight; one cycle fetches *)
(* from every adapter at once, and each adapter's answer is written to     *)
(* IngestionCache as it arrives; readers apply the TTL.                    *)
(*                                                                         *)
(* Time is discrete.  Instead of dates the state holds ages, which grow    *)
(* with every Tick; what the code does at once (a due timer, the end of a  *)
(* cycle, an adapter that reads a local file) is done before time passes.  *)
(***************************************************************************)
EXTENDS Integers

CONSTANTS
  Providers,
  Local,        \* providers whose adapter reads a fixture file
  Interval,     \* INGESTION_REFRESH_INTERVAL_SECONDS, in units of time
  TTL,          \* CACHE_TTL_SECONDS
  FetchLimit,   \* how long fetch itself waits for a remote feed
  MaxAge        \* bound on the ages that are told apart

ASSUME IngestionAssumption ==
  /\ Local \subseteq Providers
  /\ Interval \in Nat \ {0}
  /\ TTL \in Nat
  /\ FetchLimit \in Nat
  /\ MaxAge \in Nat
  /\ MaxAge > TTL /\ MaxAge > FetchLimit + Interval

VARIABLES
  server,         \* down, failed (main threw), opening (the database), starting
                  \* (the worker), listening
  columns,        \* those of Columns that request_log has, in the file
  missing,        \* those this process found missing and has not yet added
  cycleInFlight,
  timer,          \* time until the interval next fires, or NoTimer
  fetches,        \* adapter calls without an answer, and how long ago they began
  entry,          \* IngestionCache.state
  factsAge        \* history: how long ago the cached facts were asked for

dbVars == <<columns, missing>>
cacheVars == <<cycleInFlight, timer, fetches, entry, factsAge>>
vars == <<server, dbVars, cacheVars>>

\* What request_log got after there were files without it.
Columns == {"rail", "identifier"}

NoTimer == -1

\* No time: lastIngestedAt is null.
Never == -1

Older(age) == IF age \in {Never, MaxAge} THEN age ELSE age + 1

Entry == [status : {"ok", "failed", "stale"}, facts : BOOLEAN,
          error : {"none", "not_yet_ingested", "fetch_failed"},
          ingested : Never .. MaxAge]

Blank == [status |-> "failed", facts |-> FALSE, error |-> "not_yet_ingested",
          ingested |-> Never]

Init ==
  /\ server = "down"
  /\ columns = {}
  /\ missing = {}
  /\ cycleInFlight = FALSE
  /\ timer = NoTimer
  /\ fetches = {}
  /\ entry = [p \in Providers |-> Blank]
  /\ factsAge = [p \in Providers |-> Never]

----------------------------------------------------------------------------
(* createDatabase: migrateRequestLogRailColumns.                           *)

\* A bug: the two columns are taken for one change, recognised by the first.
MissingIfNoRail == IF "rail" \in columns THEN {} ELSE Columns

\* PRAGMA table_info, once.
Missing == Columns \ columns

OpenDatabase ==
  /\ server \in {"down", "failed"}
  /\ server' = "opening"
  /\ missing' = Missing
  /\ UNCHANGED <<columns, cacheVars>>

\* ALTER TABLE ADD COLUMN, rail first.  On a column that is there it throws, and
\* the process ends.
AddColumn(c) ==
  /\ server = "opening"
  /\ c \in missing
  /\ "rail" \in missing => c = "rail"
  /\ IF c \in columns
     THEN server' = "failed" /\ missing' = {} /\ UNCHANGED columns
     ELSE /\ columns' = columns \cup {c}
          /\ missing' = missing \ {c}
          /\ UNCHANGED server
  /\ UNCHANGED cacheVars

----------------------------------------------------------------------------
(* IngestionWorker.                                                        *)

\* runCycle up to its await: ingestAll calls every adapter.
BeginCycle ==
  /\ cycleInFlight' = TRUE
  /\ fetches' = fetches \cup [provider : Providers, age : {0}]

\* main, with the database open: a fresh cache, and worker.start() before any
\* route is registered.
Start ==
  /\ server = "opening"
  /\ missing = {}
  /\ server' = "starting"
  /\ BeginCycle
  /\ UNCHANGED <<dbVars, timer, entry, factsAge>>

\* A bug: the interval is set to the TTL.
EndCycleSlow ==
  /\ cycleInFlight
  /\ fetches = {}
  /\ cycleInFlight' = FALSE
  /\ \/ /\ server = "starting"
        /\ server' = "listening"
        /\ timer' = TTL
     \/ server = "listening" /\ UNCHANGED <<server, timer>>
  /\ UNCHANGED <<dbVars, fetches, entry, factsAge>>

\* A bug: the server waits for a first cycle without a failure.
EndCycleIfAllOk ==
  /\ cycleInFlight
  /\ fetches = {}
  /\ cycleInFlight' = FALSE
  /\ IF server = "starting" /\ \A p \in Providers : entry[p].status = "ok"
     THEN server' = "listening" /\ timer' = Interval
     ELSE UNCHANGED <<server, timer>>
  /\ UNCHANGED <<dbVars, fetches, entry, factsAge>>

\* The last answer is in.  After the first cycle start() sets the interval and
\* the server listens.
EndCycle ==
  /\ cycleInFlight
  /\ fetches = {}
  /\ cycleInFlight' = FALSE
  /\ \/ /\ server = "starting"
        /\ server' = "listening"
        /\ timer' = Interval
     \/ server = "listening" /\ UNCHANGED <<server, timer>>
  /\ UNCHANGED <<dbVars, fetches, entry, factsAge>>

Due == timer = 0

\* A bug: no overlap protection.
PollAnyway ==
  /\ Due
  /\ timer' = Interval
  /\ BeginCycle
  /\ UNCHANGED <<server, dbVars, entry, factsAge>>

Poll ==
  /\ Due
  /\ ~cycleInFlight
  /\ timer' = Interval
  /\ BeginCycle
  /\ UNCHANGED <<server, dbVars, entry, factsAge>>

\* A bug: the interval is not set again after a skipped cycle.
SkipForGood ==
  /\ Due
  /\ cycleInFlight
  /\ timer' = NoTimer
  /\ UNCHANGED <<server, dbVars, cycleInFlight, fetches, entry, factsAge>>

SkipPoll ==
  /\ Due
  /\ cycleInFlight
  /\ timer' = Interval
  /\ UNCHANGED <<server, dbVars, cycleInFlight, fetches, entry, factsAge>>

----------------------------------------------------------------------------
(* IngestionCache.ingestAll: one adapter's answer.                         *)

\* A bug: the adapter notes the time when the answer is in.
FetchSucceedsLate(f) ==
  /\ f \in fetches
  /\ fetches' = fetches \ {f}
  /\ entry' = [entry EXCEPT ![f.provider] =
                 [status |-> "ok", facts |-> TRUE, error |-> "none", ingested |-> 0]]
  /\ factsAge' = [factsAge EXCEPT ![f.provider] = f.age]
  /\ UNCHANGED <<server, dbVars, cycleInFlight, timer>>

\* The adapter notes the time before it asks; rejected records are left out,
\* so that there may be no facts at all.
FetchSucceeds(f) ==
  /\ f \in fetches
  /\ fetches' = fetches \ {f}
  /\ \E facts \in IF f.provider \in Local THEN {TRUE} ELSE BOOLEAN :
       entry' = [entry EXCEPT ![f.provider] =
                   [status |-> "ok", facts |-> facts, error |-> "none",
                    ingested |-> f.age]]
  /\ factsAge' = [factsAge EXCEPT ![f.provider] = f.age]
  /\ UNCHANGED <<server, dbVars, cycleInFlight, timer>>

\* An HTTP error, a network error, a timeout or a body that is not JSON.
FetchFails(f) ==
  /\ f \in fetches
  /\ f.provider \notin Local
  /\ fetches' = fetches \ {f}
  /\ entry' = [entry EXCEPT ![f.provider] =
                 [status |-> "failed", facts |-> FALSE, error |-> "fetch_failed",
                  ingested |-> @.ingested]]
  /\ UNCHANGED <<server, dbVars, cycleInFlight, timer, factsAge>>

----------------------------------------------------------------------------
(* Readers: IngestionCache.getStates.                                      *)

Served(p) ==
  IF entry[p].status = "ok" /\ entry[p].ingested > TTL
  THEN [entry[p] EXCEPT !.status = "stale", !.facts = FALSE]
  ELSE entry[p]

----------------------------------------------------------------------------
(* Time and failure.                                                       *)

Limit(f) == IF f.provider \in Local THEN 0 ELSE FetchLimit

Tick ==
  /\ ~Due
  /\ server # "opening"
  /\ ~(cycleInFlight /\ fetches = {})
  /\ \A f \in fetches : f.age < Limit(f)
  /\ timer' = IF timer = NoTimer THEN NoTimer ELSE timer - 1
  /\ fetches' = {[f EXCEPT !.age = @ + 1] : f \in fetches}
  /\ entry' = [p \in Providers |-> [entry[p] EXCEPT !.ingested = Older(@)]]
  /\ factsAge' = [p \in Providers |-> Older(factsAge[p])]
  /\ UNCHANGED <<server, dbVars, cycleInFlight>>

\* The cache lives in memory; the file keeps what was added to it.
Crash ==
  /\ server \notin {"down", "failed"}
  /\ server' = "down"
  /\ missing' = {}
  /\ cycleInFlight' = FALSE
  /\ timer' = NoTimer
  /\ fetches' = {}
  /\ entry' = [p \in Providers |-> Blank]
  /\ factsAge' = [p \in Providers |-> Never]
  /\ UNCHANGED columns

Answer(f) == FetchSucceeds(f) \/ FetchFails(f)

Next ==
  \/ OpenDatabase \/ \E c \in Columns : AddColumn(c)
  \/ Start \/ EndCycle \/ Poll \/ SkipPoll
  \/ \E f \in fetches : Answer(f)
  \/ Tick
  \/ Crash

Spec == Init /\ [][Next]_vars

\* The host starts the process; the event loop and the clock go on; fetch ends
\* a call that is not answered in time.
Fairness ==
  /\ WF_vars(OpenDatabase) /\ WF_vars(\E c \in Columns : AddColumn(c))
  /\ WF_vars(Start) /\ WF_vars(EndCycle) /\ WF_vars(Poll \/ SkipPoll)
  /\ WF_vars(\E f \in fetches : Answer(f) /\ f.age = Limit(f))
  /\ WF_vars(Tick)

FairSpec == Spec /\ Fairness

----------------------------------------------------------------------------
(* Properties.                                                             *)

TypeOK ==
  /\ server \in {"down", "failed", "opening", "starting", "listening"}
  /\ columns \subseteq Columns
  /\ missing \subseteq Columns
  /\ cycleInFlight \in BOOLEAN
  /\ timer \in NoTimer .. Interval
  /\ fetches \subseteq [provider : Providers, age : 0 .. FetchLimit]
  /\ entry \in [Providers -> Entry]
  /\ factsAge \in [Providers -> Never .. MaxAge]

\* No reader is given facts that were asked for longer ago than the TTL,
\* however slow the feed, and whatever the worker does or fails to do
\* (cache.ts:21-30, 59-74).
ServedFactsAreFresh ==
  \A p \in Providers : Served(p).facts => factsAge[p] \in 0 .. TTL

\* Facts are never replaced by facts asked for earlier: two answers of one feed
\* are never applied out of order (worker.ts:8-11).
FactsNeverGoBack ==
  [][\A p \in Providers :
       (entry[p].facts /\ entry[p]'.facts /\ server' # "down")
         => factsAge[p]' <= Older(factsAge[p])]_vars

\* The server answers no request before every feed has been tried once and the
\* table its answers are logged to has both columns, wherever in an earlier
\* start the process died (worker.ts:36-43, index.ts:153-156,
\* connection.ts:126-135).
ReadyBeforeListening ==
  server = "listening" =>
    /\ columns = Columns
    /\ \A p \in Providers : Served(p).error # "not_yet_ingested"

\* A feed that always answers is served again and again, although another feed
\* may hang or fail for ever: a skipped tick is made up for (worker.ts:57-80).
HealthyFeedIsServedAgain ==
  \A p \in Local : []<>(Served(p).status = "ok") \/ []<><<Crash>>_vars

\* What a hanging feed does to one that answers is bounded: while the server
\* listens, what it holds of the latter was asked for no longer ago than one call
\* may hang and one interval.  With fetch's 300 seconds and the interval's 60 that
\* is twice the TTL of 180: the outage that cache.ts:77-80 denies lasts three
\* minutes at most, whatever the others do (cache.ts:81-90, worker.ts:41-80).
HealthyDataAgeIsBounded ==
  server = "listening" =>
    \A p \in Local : /\ entry[p].status = "ok" /\ entry[p].facts
                     /\ factsAge[p] <= FetchLimit + Interval

\* Unless it is killed again and again the server comes to listen: no feed that
\* fails or hangs and nothing an earlier start left behind in the file keeps it
\* from it (index.ts:153-156, worker.ts:41-48, connection.ts:126-135).
EventuallyListens == []<>(server = "listening") \/ []<><<Crash>>_vars

\* cache.ts:77-80 "one broken feed marks itself failed and every other
\* provider's last-good data stays servable".
HealthyFeedStaysServable ==
  server = "listening" => \A p \in Local : Served(p).status = "ok"
=============================================================================
