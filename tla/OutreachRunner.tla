--------------------------- MODULE OutreachRunner ---------------------------
(***************************************************************************)
(* The one action of the admin console: OutreachRunner.trigger starts      *)
(* scripts/outreach/run.mjs as a child process and returns; the child's    *)
(* "error" and "close" events report the end in the agent log and release  *)
(* the guard that keeps a second run from starting.  The guard is a        *)
(* boolean in memory, with no note of which run holds it.                  *)
(*                                                                         *)
(* A child that could not be started (EAGAIN, EMFILE, ENOENT) reports      *)
(* "error" and, once its streams are closed, "close" as well: both release *)
(* the guard, and both log run_failed.                                     *)
(*                                                                         *)
(* The server is one machine: when its process dies the child dies too.    *)
(***************************************************************************)
EXTENDS Naturals, FiniteSets

CONSTANTS
  Runs           \* the requests to trigger a run, each with its run id

ASSUME RunsAssumption == IsFiniteSet(Runs)

VARIABLES
  running,       \* OutreachRunner.running
  run,           \* what became of each request
  agentLog       \* how many entries of each kind are logged under a run id

vars == <<running, run, agentLog>>

\* Between "live" and "closed" a script runs, has exited with or without
\* success, or could not be started ("unstartable", then "errored").
States == {"new", "refused", "threw", "live", "succeeded", "failed",
           "unstartable", "errored", "closed", "lost"}

Kinds == {"run_started", "run_completed", "run_failed"}

\* The child processes that still have an event to report.
Children == {r \in Runs : run[r] \in {"live", "succeeded", "failed",
                                      "unstartable", "errored"}}

Init ==
  /\ running = FALSE
  /\ run = [r \in Runs |-> "new"]
  /\ agentLog = [r \in Runs |-> [kind \in Kinds |-> 0]]

\* AgentLogStore.append: one INSERT.
Logged(r, kind) == agentLog' = [agentLog EXCEPT ![r][kind] = @ + 1]

Becomes(r, state) == run' = [run EXCEPT ![r] = state]

----------------------------------------------------------------------------
(* trigger, and the route's answer: 202 if it returns, 409 if it throws.   *)

Refuse(r) ==
  /\ run[r] = "new"
  /\ running
  /\ Becomes(r, "refused")
  /\ UNCHANGED <<running, agentLog>>

\* A bug: no test of the guard.
StartUnguarded(r) ==
  /\ run[r] = "new"
  /\ running' = TRUE
  /\ \E outcome \in {"live", "unstartable"} : Becomes(r, outcome)
  /\ Logged(r, "run_started")

Start(r) ==
  /\ run[r] = "new"
  /\ ~running
  /\ running' = TRUE
  /\ \E outcome \in {"live", "unstartable"} : Becomes(r, outcome)
  /\ Logged(r, "run_started")

\* The INSERT throws, or spawn does (ENOMEM, E2BIG): the guard is set and no
\* child is there to release it.
TriggerThrows(r) ==
  /\ run[r] = "new"
  /\ ~running
  /\ running' = TRUE
  /\ Becomes(r, "threw")
  /\ Logged(r, "run_started") \/ UNCHANGED agentLog

----------------------------------------------------------------------------
(* The child and its events.                                               *)

\* run.mjs is through, exits on an error, or is killed.  Nothing bounds the time
\* that takes: its calls of gh have no timeout, and nobody ends a child.
ScriptEnds(r) ==
  /\ run[r] = "live"
  /\ \E end \in {"succeeded", "failed"} : Becomes(r, end)
  /\ UNCHANGED <<running, agentLog>>

\* A bug: "error" is taken for something that may happen again.
ReportErrorAgain(r) ==
  /\ run[r] \in {"unstartable", "errored"}
  /\ running' = FALSE
  /\ Becomes(r, "errored")
  /\ Logged(r, "run_failed")

\* "error": the child could not be started.
ReportError(r) ==
  /\ run[r] = "unstartable"
  /\ running' = FALSE
  /\ Becomes(r, "errored")
  /\ Logged(r, "run_failed")

\* A bug that reports only what went well.
CloseOnSuccess(r) ==
  /\ run[r] \in {"succeeded", "failed", "errored"}
  /\ running' = FALSE
  /\ Becomes(r, "closed")
  /\ IF run[r] = "succeeded" THEN Logged(r, "run_completed") ELSE UNCHANGED agentLog

\* A bug: no release when the child is closed.
CloseHeld(r) ==
  /\ run[r] \in {"succeeded", "failed", "errored"}
  /\ Becomes(r, "closed")
  /\ Logged(r, IF run[r] = "succeeded" THEN "run_completed" ELSE "run_failed")
  /\ UNCHANGED running

\* "close": the exit code is 0 only if the script ran and succeeded.
Close(r) ==
  /\ run[r] \in {"succeeded", "failed", "errored"}
  /\ running' = FALSE
  /\ Becomes(r, "closed")
  /\ Logged(r, IF run[r] = "succeeded" THEN "run_completed" ELSE "run_failed")

\* The process dies, also because an INSERT throws inside an event handler,
\* and is started again: the guard is down and the children are gone.
Restart ==
  /\ running' = FALSE
  /\ run' = [r \in Runs |-> IF r \in Children \/ run[r] = "threw"
                              THEN "lost" ELSE run[r]]
  /\ UNCHANGED agentLog

----------------------------------------------------------------------------
Trigger(r) == Refuse(r) \/ Start(r) \/ TriggerThrows(r)

Report(r) == ReportError(r) \/ Close(r)

Next ==
  \/ \E r \in Runs : Trigger(r) \/ ScriptEnds(r) \/ Report(r)
  \/ Restart

Spec == Init /\ [][Next]_vars

\* Node reports what happened to a child.  That a script ends is not assumed.
Fairness == \A r \in Runs : WF_vars(Report(r))

FairSpec == Spec /\ Fairness

----------------------------------------------------------------------------
(* Properties.                                                             *)

TypeOK ==
  /\ running \in BOOLEAN
  /\ run \in [Runs -> States]
  /\ agentLog \in [Runs -> [Kinds -> 0 .. 2]]

\* The runs whose next event releases the guard: all but the failed starts that
\* have released it once.
Holders == {r \in Children : run[r] # "errored"}

\* The runs whose failure was reported twice, by "error" and by "close".
FailedTwice == {r \in Runs : agentLog[r]["run_failed"] = 2}

\* The guard keeps runs apart (outreachRunner.ts:24-26 "a second trigger while
\* one's running is refused rather than queued or run concurrently"), up to the
\* failed starts: each can let one more run start beside another, since its
\* "close" releases the guard of whatever run was started after its "error".
OverlapIsBounded ==
  Cardinality(Holders) <= (IF running THEN 1 ELSE 0) + Cardinality(FailedTwice)

Ends(r) == agentLog[r]["run_completed"] + agentLog[r]["run_failed"]

\* What the console's feed shows of a run (agentLog.ts:5-8 "run_* kinds bracket
\* an operator-triggered run"): one shown as started and not ended is in flight,
\* died with the server or never had a child; one whose child is closed is shown
\* as started and ended; one shown as completed ended once; and a request that
\* was refused shows nothing.
FeedTellsTheEnd ==
  \A r \in Runs :
    /\ agentLog[r]["run_started"] = 1 /\ Ends(r) = 0 =>
         r \in Children \/ run[r] \in {"threw", "lost"}
    /\ run[r] = "closed" => agentLog[r]["run_started"] = 1 /\ Ends(r) > 0
    /\ agentLog[r]["run_completed"] > 0 => run[r] = "closed" /\ Ends(r) = 1
    /\ run[r] \in {"new", "refused"} => \A kind \in Kinds : agentLog[r][kind] = 0

\* As long as no script runs on for ever, the guard comes down again, unless a
\* trigger threw after it had set it: then every later trigger is refused until a
\* restart (outreachRunner.ts:53-87).
GuardComesDown ==
  (\A r \in Runs : []<>(run[r] # "live"))
    => (running ~> (~running \/ \E r \in Runs : run[r] = "threw"))
=============================================================================
