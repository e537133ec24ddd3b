------------------------ MODULE OutreachRunnerProofs ------------------------
(***************************************************************************)
(* For any finite set of triggers: the types, the bound on runs beside     *)
(* each other, and what the feed tells.  The strengthening is FeedMatches: *)
(* the state a run is in fixes what has been logged for it.                *)
(***************************************************************************)
EXTENDS OutreachRunner, FiniteSetTheorems, TLAPS

Unended == {"live", "succeeded", "failed", "unstartable"}

Has(r, started, completed, failed) ==
  /\ agentLog[r]["run_started"] = started
  /\ agentLog[r]["run_completed"] = completed
  /\ agentLog[r]["run_failed"] = failed

FeedMatches ==
  \A r \in Runs :
    /\ run[r] \in {"new", "refused"} => Has(r, 0, 0, 0)
    /\ run[r] = "threw" => Has(r, 0, 0, 0) \/ Has(r, 1, 0, 0)
    /\ run[r] \in Unended => Has(r, 1, 0, 0)
    /\ run[r] = "errored" => Has(r, 1, 0, 1)
    /\ run[r] = "closed" => Has(r, 1, 1, 0) \/ Has(r, 1, 0, 1) \/ Has(r, 1, 0, 2)
    /\ run[r] = "lost" => Has(r, 0, 0, 0) \/ Has(r, 1, 0, 0) \/ Has(r, 1, 0, 1)

IInv == TypeOK /\ FeedMatches /\ OverlapIsBounded

\* The two sets OverlapIsBounded counts are finite, as Runs is.
LEMMA CountsAreNat ==
  /\ IsFiniteSet(Holders) /\ Cardinality(Holders) \in Nat
  /\ IsFiniteSet(FailedTwice) /\ Cardinality(FailedTwice) \in Nat
  <1>1. Holders \subseteq Runs /\ FailedTwice \subseteq Runs
    BY DEF Holders, Children, FailedTwice
  <1> QED
    BY <1>1, RunsAssumption, FS_Subset, FS_CardinalityType

\* AgentLogStore.append adds one entry under one run id.
LEMMA LoggedEntries ==
  ASSUME TypeOK, NEW r \in Runs, NEW kind \in Kinds, Logged(r, kind)
  PROVE  /\ agentLog' \in [Runs -> [Kinds -> Nat]]
         /\ \A q \in Runs, k \in Kinds :
              agentLog'[q][k] = IF q = r /\ k = kind THEN agentLog[q][k] + 1
                                                    ELSE agentLog[q][k]
  <1>1. agentLog \in [Runs -> [Kinds -> Nat]]
    BY DEF TypeOK
  <1>2. agentLog' = [agentLog EXCEPT ![r] = [agentLog[r] EXCEPT ![kind] = @ + 1]]
    BY DEF Logged
  <1>3. agentLog[r][kind] + 1 \in Nat
    BY <1>1
  <1>4. [agentLog[r] EXCEPT ![kind] = @ + 1] \in [Kinds -> Nat]
    BY <1>1, <1>3
  <1>5. agentLog' \in [Runs -> [Kinds -> Nat]]
    BY <1>1, <1>2, <1>4
  <1>6. ASSUME NEW q \in Runs, NEW k \in Kinds
        PROVE  agentLog'[q][k] = IF q = r /\ k = kind THEN agentLog[q][k] + 1
                                                     ELSE agentLog[q][k]
    <2>1. CASE q = r
      BY <1>1, <1>2, <2>1
    <2>2. CASE q # r
      BY <1>1, <1>2, <2>2
    <2> QED
      BY <2>1, <2>2
  <1> QED
    BY <1>5, <1>6

\* The entries that fit a run's state are never more than two of a kind.
LEMMA EntriesBounded ==
  ASSUME agentLog' \in [Runs -> [Kinds -> Nat]], run' \in [Runs -> States],
         FeedMatches'
  PROVE  agentLog' \in [Runs -> [Kinds -> 0 .. 2]]
  <1>1. ASSUME NEW r \in Runs, NEW k \in Kinds PROVE agentLog'[r][k] \in 0 .. 2
    BY <1>1 DEF FeedMatches, Has, States, Kinds, Unended
  <1>2. ASSUME NEW r \in Runs PROVE agentLog'[r] \in [Kinds -> 0 .. 2]
    BY <1>1
  <1> QED
    BY <1>2

\* No run has been triggered.
LEMMA InitIInv == Init => IInv
  <1> SUFFICES ASSUME Init PROVE IInv
    OBVIOUS
  <1>1. agentLog \in [Runs -> [Kinds -> 0 .. 2]]
    <2>1. [kind \in Kinds |-> 0] \in [Kinds -> 0 .. 2]
      OBVIOUS
    <2> QED
      BY <2>1 DEF Init
  <1>2. TypeOK
    BY <1>1 DEF Init, TypeOK, States
  <1>3. FeedMatches
    BY DEF Init, FeedMatches, Has, Kinds, Unended
  <1>4. Holders = {}
    BY DEF Init, Holders, Children
  <1>5. OverlapIsBounded
    BY <1>4, FS_EmptySet, CountsAreNat DEF OverlapIsBounded, Init
  <1> QED
    BY <1>2, <1>3, <1>5 DEF IInv

\* Every step keeps the types and the tie between a run and its feed.
LEMMA StepFeeds ==
  ASSUME TypeOK, FeedMatches, [Next]_vars
  PROVE  TypeOK' /\ FeedMatches'
  <1> USE DEF TypeOK, FeedMatches, Has, States, Unended
  <1>0. {"run_started", "run_completed", "run_failed"} = Kinds
    BY DEF Kinds
  <1>1. ASSUME NEW r \in Runs, Trigger(r) PROVE TypeOK' /\ FeedMatches'
    <2>1. CASE Refuse(r)
      BY <2>1 DEF Refuse, Becomes
    <2>2. CASE Start(r)
      <3>1. FeedMatches'
        BY <2>2, LoggedEntries, <1>0 DEF Start, Becomes
      <3> QED
        BY <2>2, <3>1, LoggedEntries, EntriesBounded, <1>0 DEF Start, Becomes
    <2>3. CASE TriggerThrows(r)
      <3>1. CASE Logged(r, "run_started")
        <4>1. FeedMatches'
          BY <2>3, <3>1, LoggedEntries, <1>0 DEF TriggerThrows, Becomes
        <4> QED
          BY <2>3, <3>1, <4>1, LoggedEntries, EntriesBounded, <1>0
          DEF TriggerThrows, Becomes
      <3>2. CASE UNCHANGED agentLog
        BY <2>3, <3>2 DEF TriggerThrows, Becomes
      <3> QED
        BY <2>3, <3>1, <3>2 DEF TriggerThrows
    <2> QED
      BY <1>1, <2>1, <2>2, <2>3 DEF Trigger
  <1>2. ASSUME NEW r \in Runs, ScriptEnds(r) PROVE TypeOK' /\ FeedMatches'
    BY <1>2 DEF ScriptEnds, Becomes
  <1>3. ASSUME NEW r \in Runs, ReportError(r) PROVE TypeOK' /\ FeedMatches'
    <2>1. FeedMatches'
      BY <1>3, LoggedEntries, <1>0 DEF ReportError, Becomes
    <2> QED
      BY <1>3, <2>1, LoggedEntries, EntriesBounded, <1>0 DEF ReportError, Becomes
  <1>4. ASSUME NEW r \in Runs, Close(r) PROVE TypeOK' /\ FeedMatches'
    <2>1. PICK kind \in {"run_completed", "run_failed"} :
            /\ Logged(r, kind)
            /\ kind = "run_completed" <=> run[r] = "succeeded"
      BY <1>4 DEF Close
    <2>2. FeedMatches'
      BY <1>4, <2>1, LoggedEntries, <1>0 DEF Close, Becomes
    <2> QED
      BY <1>4, <2>1, <2>2, LoggedEntries, EntriesBounded, <1>0 DEF Close, Becomes
  <1>5. CASE Restart
    BY <1>5 DEF Restart, Children
  <1>6. CASE UNCHANGED vars
    BY <1>6 DEF vars
  <1> QED
    BY <1>1, <1>2, <1>3, <1>4, <1>5, <1>6 DEF Next, Report

\* Every step keeps the bound: a run that starts takes the guard, and a child
\* whose event releases it either stops holding it or is a failed start's second.
LEMMA StepOverlap ==
  ASSUME IInv, TypeOK', FeedMatches', [Next]_vars
  PROVE  OverlapIsBounded'
  <1> USE DEF IInv
  <1>0. /\ IsFiniteSet(Holders) /\ Cardinality(Holders) \in Nat
        /\ IsFiniteSet(FailedTwice) /\ Cardinality(FailedTwice) \in Nat
    BY CountsAreNat
  <1>1. ASSUME Holders' = Holders, FailedTwice' = FailedTwice, running => running'
        PROVE  OverlapIsBounded'
    BY <1>0, <1>1 DEF OverlapIsBounded, TypeOK
  <1>2. ASSUME NEW r \in Runs, Refuse(r) PROVE OverlapIsBounded'
    BY <1>1, <1>2 DEF Refuse, Becomes, Holders, Children, FailedTwice, TypeOK
  <1>3. ASSUME NEW r \in Runs, Start(r) PROVE OverlapIsBounded'
    <2>1. Holders' = Holders \cup {r} /\ r \notin Holders
      BY <1>3 DEF Start, Becomes, Holders, Children, TypeOK
    <2>2. FailedTwice' = FailedTwice
      BY <1>3 DEF Start, Becomes, Logged, FailedTwice, TypeOK, Kinds
    <2>3. Cardinality(Holders') = Cardinality(Holders) + 1
      BY <1>0, <2>1, FS_AddElement
    <2>4. ~running /\ running'
      BY <1>3 DEF Start
    <2> QED
      BY <1>0, <2>2, <2>3, <2>4 DEF OverlapIsBounded
  <1>4. ASSUME NEW r \in Runs, TriggerThrows(r) PROVE OverlapIsBounded'
    BY <1>1, <1>4 DEF TriggerThrows, Becomes, Logged, Holders, Children, FailedTwice, TypeOK, Kinds
  <1>5. ASSUME NEW r \in Runs, ScriptEnds(r) PROVE OverlapIsBounded'
    BY <1>1, <1>5 DEF ScriptEnds, Becomes, Holders, Children, FailedTwice, TypeOK
  <1>6. ASSUME NEW r \in Runs, Holders' = Holders \ {r}, r \in Holders,
               FailedTwice' = FailedTwice
        PROVE  OverlapIsBounded'
    <2>1. Cardinality(Holders') = Cardinality(Holders) - 1
      BY <1>0, <1>6, FS_RemoveElement
    <2> QED
      BY <1>0, <1>6, <2>1, TypeOK' DEF OverlapIsBounded, TypeOK
  <1>7. ASSUME NEW r \in Runs, ReportError(r) PROVE OverlapIsBounded'
    <2>1. Holders' = Holders \ {r} /\ r \in Holders
      BY <1>7 DEF ReportError, Becomes, Holders, Children, TypeOK
    <2>2. FailedTwice' = FailedTwice
      <3>1. "run_failed" \in Kinds
        BY DEF Kinds
      <3>2. agentLog[r]["run_failed"] = 0
        BY <1>7 DEF ReportError, FeedMatches, Has, Unended
      <3>3. \A q \in Runs : agentLog'[q]["run_failed"] =
                              IF q = r THEN 1 ELSE agentLog[q]["run_failed"]
        BY <1>7, <3>1, <3>2, LoggedEntries DEF ReportError
      <3> QED
        BY <3>2, <3>3 DEF FailedTwice
    <2> QED
      BY <1>6, <2>1, <2>2
  <1>8. ASSUME NEW r \in Runs, Close(r) PROVE OverlapIsBounded'
    <2>1. CASE run[r] = "errored"
      <3>1. Holders' = Holders
        BY <1>8, <2>1 DEF Close, Becomes, Holders, Children, TypeOK
      <3>2. agentLog[r]["run_failed"] = 1
        BY <2>1 DEF FeedMatches, Has
      <3>3. agentLog'[r]["run_failed"] = 2
        BY <1>8, <2>1, <3>2 DEF Close, Logged, TypeOK, Kinds
      <3>4. FailedTwice' = FailedTwice \cup {r}
        BY <1>8, <3>3 DEF Close, Becomes, Logged, FailedTwice, TypeOK, Kinds
      <3>5. r \notin FailedTwice
        BY <3>2 DEF FailedTwice
      <3>6. Cardinality(FailedTwice') = Cardinality(FailedTwice) + 1
        BY <1>0, <3>4, <3>5, FS_AddElement
      <3> QED
        BY <1>0, <1>8, <3>1, <3>6 DEF OverlapIsBounded, TypeOK
    <2>2. CASE run[r] \in {"succeeded", "failed"}
      <3>1. Holders' = Holders \ {r} /\ r \in Holders
        BY <1>8, <2>2 DEF Close, Becomes, Holders, Children, TypeOK
      <3>2. agentLog[r]["run_failed"] = 0
        BY <2>2 DEF FeedMatches, Has, Unended
      <3>3. agentLog'[r]["run_failed"] < 2
        BY <1>8, <3>2 DEF Close, Logged, TypeOK, Kinds
      <3>4. FailedTwice' = FailedTwice
        BY <1>8, <2>2, <3>3 DEF Close, Becomes, Logged, FailedTwice, TypeOK, Kinds
      <3> QED
        BY <1>6, <3>1, <3>4
    <2> QED
      BY <1>8, <2>1, <2>2 DEF Close
  <1>9. CASE Restart
    <2>1. Holders' = {}
      BY <1>9 DEF Restart, Holders, Children, TypeOK
    <2>2. FailedTwice' = FailedTwice
      BY <1>9 DEF Restart, Children, FailedTwice, TypeOK
    <2> QED
      BY <1>0, <1>9, <2>1, <2>2, FS_EmptySet DEF Restart, OverlapIsBounded
  <1>10. CASE UNCHANGED vars
    BY <1>1, <1>10 DEF vars, Holders, Children, FailedTwice
  <1> QED
    BY <1>2, <1>3, <1>4, <1>5, <1>7, <1>8, <1>9, <1>10 DEF Next, Trigger, Report

\* IInv is inductive.
LEMMA RunnerIInv == Spec => []IInv
  <1>1. IInv /\ [Next]_vars => IInv'
    BY StepFeeds, StepOverlap DEF IInv
  <1> QED
    BY InitIInv, <1>1, PTL DEF Spec

\* The states of the guard, of every run and of its entries in agent_log.
THEOREM RunnerTypeOK == Spec => []TypeOK
  BY RunnerIInv, PTL DEF IInv

\* The guard of outreachRunner.ts:53 keeps runs apart up to one run for each
\* failed start that has reported both "error" and "close".
THEOREM RunnerOverlapIsBounded == Spec => []OverlapIsBounded
  BY RunnerIInv, PTL DEF IInv

\* What the console's feed shows of a run is what became of it.
THEOREM RunnerFeedTellsTheEnd == Spec => []FeedTellsTheEnd
  <1>1. IInv => FeedTellsTheEnd
    BY DEF FeedTellsTheEnd, Ends, IInv, TypeOK, FeedMatches, Has,
           States, Kinds, Unended, Children
  <1> QED
    BY RunnerIInv, <1>1, PTL

----------------------------------------------------------------------------
(* Nobody waits for a guard that nobody holds.                             *)

GuardIsHeld ==
  running => Holders # {} \/ \E r \in Runs : run[r] = "threw"

\* A step of a run that leaves the guard set leaves its holder, and a trigger
\* that sets it makes one.
LEMMA StepGuard ==
  ASSUME TypeOK, GuardIsHeld, [Next]_vars
  PROVE  GuardIsHeld'
  <1> SUFFICES ASSUME running'
               PROVE  \E r \in Runs : r \in Holders' \/ run'[r] = "threw"
    BY DEF GuardIsHeld
  <1>1. ASSUME NEW r \in Runs, Start(r) \/ TriggerThrows(r)
        PROVE  r \in Holders' \/ run'[r] = "threw"
    BY <1>1 DEF Start, TriggerThrows, Becomes, Holders, Children, TypeOK
  <1>2. ASSUME NEW r \in Runs, Refuse(r) \/ ScriptEnds(r),
               NEW q \in Runs, q \in Holders \/ run[q] = "threw"
        PROVE  q \in Holders' \/ run'[q] = "threw"
    BY <1>2 DEF Refuse, ScriptEnds, Becomes, Holders, Children, TypeOK
  <1>3. ASSUME NEW r \in Runs, Report(r) PROVE FALSE
    BY <1>3 DEF Report, ReportError, Close
  <1>4. CASE Restart
    BY <1>4 DEF Restart
  <1>5. CASE UNCHANGED vars
    BY <1>5 DEF vars, GuardIsHeld, Holders, Children
  <1>6. ASSUME NEW r \in Runs, Refuse(r) \/ ScriptEnds(r)
        PROVE  \E q \in Runs : q \in Holders' \/ run'[q] = "threw"
    <2>1. running
      BY <1>6 DEF Refuse, ScriptEnds
    <2>2. PICK q \in Runs : q \in Holders \/ run[q] = "threw"
      BY <2>1 DEF GuardIsHeld, Holders, Children
    <2> QED
      BY <1>2, <1>6, <2>2
  <1> QED
    BY <1>1, <1>3, <1>4, <1>5, <1>6 DEF Next, Trigger

\* Whenever the guard is set, a child is there whose end clears it, or a trigger
\* threw after it had set it: it is those events that GuardComesDown waits for
\* (outreachRunner.ts:53-87).
THEOREM RunnerGuardIsHeld == Spec => []GuardIsHeld
  <1>1. Init => GuardIsHeld
    BY DEF Init, GuardIsHeld
  <1>2. IInv /\ GuardIsHeld /\ [Next]_vars => GuardIsHeld'
    BY StepGuard DEF IInv
  <1> QED
    BY <1>1, <1>2, RunnerIInv, PTL DEF Spec
=============================================================================
