------------------------------- MODULE Enrich -------------------------------
(***************************************************************************)
(* internal/enrich: the fail-open HTTP stage in front of the EventLog.     *)
(* AppendBatch runs Enrich for every event in a goroutine of its own, at   *)
(* most EnrichConcurrency at a time, waits for all of them and hands the   *)
(* batch to the log.  Several callers append at once, such as the          *)
(* collections of a MongoDB source: each call has a semaphore of its own,  *)
(* but all share the circuit breaker, which skips the request after        *)
(* CircuitThreshold consecutive timeouts.                                  *)
(*                                                                         *)
(* circuitMu makes each use of the breaker one step.  Of the clock only    *)
(* the cool-down counts: "cooling" until it is over, "cooled" after.       *)
(***************************************************************************)
EXTENDS Integers, Sequences, FiniteSets

CONSTANTS
    Caller,                \* the goroutines that call AppendBatch
    Slot,                  \* the places for events in their batches
    CallerOf,              \* CallerOf[i]: whose batch place i is in
    EnrichConcurrency,     \* enrichBatchConcurrency (8 in the code)
    CircuitThreshold       \* defaultCircuitThreshold (5 in the code)

ASSUME EnrichAssumption ==
    /\ IsFiniteSet(Slot) /\ CallerOf \in [Slot -> Caller]
    /\ EnrichConcurrency \in Nat \ {0} /\ CircuitThreshold \in Nat \ {0}

VARIABLES
    task,          \* each slot's goroutine: "none", "waiting", "checked", "posting", "done"
    matching,      \* the slots whose event the matcher selects
    context,       \* the slots whose ai_context is set
    logged,        \* of each caller: contexts of the batch handed to the log last
    timeouts,      \* consecutiveTimeouts, up to the threshold
    openedAt,      \* circuitOpenedAt: "zero", "cooling", "cooled"
    healthy,       \* the enricher answers in time (external)
    given,         \* history: the slots of the batches for which it answered
    late           \* history: each caller's timeouts since the cool-down last began
enrichVars == <<task, matching, context, logged, timeouts, openedAt, healthy, given, late>>

NotLogged == <<>>
Batch(c) == {i \in Slot : CallerOf[i] = c}
Posting(c) == {i \in Batch(c) : task[i] = "posting"}
Running(c) == {i \in Batch(c) : task[i] \in {"checked", "posting"}}
NoBatch(c) == \A i \in Batch(c) : task[i] = "none"

\* What a caller's goroutines turn to: the stage of every place in its batch.
Turns(c, stage) == task' = [i \in Slot |-> IF CallerOf[i] = c THEN stage ELSE task[i]]

\* enrichingLog.AppendBatch starts a goroutine per event.
EnrichBatch(c) ==
    /\ NoBatch(c) /\ Turns(c, "waiting")
    /\ \E m \in SUBSET Batch(c) : matching' = (matching \ Batch(c)) \cup m
    /\ context' = context \ Batch(c) /\ given' = given \ Batch(c)
    /\ logged' = [logged EXCEPT ![c] = NotLogged]
    /\ UNCHANGED <<timeouts, openedAt, healthy, late>>

\* sem <- struct{}{}, and Enrich asks the matcher.
EnrichStarts(i) ==
    /\ task[i] = "waiting" /\ Cardinality(Running(CallerOf[i])) < EnrichConcurrency
    /\ task' = [task EXCEPT ![i] = IF i \in matching THEN "checked" ELSE "done"]
    /\ UNCHANGED <<matching, context, logged, timeouts, openedAt, healthy, given, late>>

CircuitOpen == timeouts >= CircuitThreshold

\* Mutant: each call that finds the circuit open starts the cool-down again.
CheckCircuitRestarts(i) ==
    /\ openedAt' = IF CircuitOpen THEN "cooling" ELSE openedAt
    /\ task' = [task EXCEPT ![i] = IF CircuitOpen THEN "done" ELSE "posting"]

\* Mutant: the circuit is not looked at.
CheckCircuitSkipped(i) == UNCHANGED openedAt /\ task' = [task EXCEPT ![i] = "posting"]

\* checkCircuit: an open circuit fails the call until the cool-down is over, and
\* then lets every call through until one of them reports.
CheckCircuit(i) ==
    /\ openedAt' = IF CircuitOpen /\ openedAt = "zero" THEN "cooling" ELSE openedAt
    /\ task' = [task EXCEPT ![i] = IF CircuitOpen /\ openedAt' = "cooling" THEN "done" ELSE "posting"]

PostBegins(i) ==
    /\ task[i] = "checked" /\ CheckCircuit(i)
    /\ UNCHANGED <<matching, context, logged, timeouts, healthy, given, late>>

\* recordTimeout; a count above the threshold means what the threshold means.
RecordTimeout ==
    /\ timeouts' = IF CircuitOpen THEN timeouts ELSE timeouts + 1
    /\ openedAt' = IF timeouts' >= CircuitThreshold THEN "cooling" ELSE openedAt

PostTimesOut(i) ==
    /\ task[i] = "posting" /\ ~healthy
    /\ RecordTimeout
    /\ late' = IF openedAt = "cooling" THEN [late EXCEPT ![CallerOf[i]] = @ + 1]
               ELSE [c \in Caller |-> 0]
    /\ task' = [task EXCEPT ![i] = "done"]
    /\ UNCHANGED <<matching, context, logged, healthy, given>>

RecordSuccess == timeouts' = 0 /\ openedAt' = "zero"

\* 200 with a good ai_context, or 204.
PostAnswers(i) ==
    /\ task[i] = "posting"
    /\ RecordSuccess
    /\ \/ context' = context \cup {i} /\ given' = given \cup {i}
       \/ UNCHANGED <<context, given>>
    /\ task' = [task EXCEPT ![i] = "done"]
    /\ UNCHANGED <<matching, logged, healthy, late>>

\* Another status, a bad or oversized body, a refused connection or a cancelled
\* context: the breaker is not told.
PostFails(i) ==
    /\ task[i] = "posting" /\ ~healthy
    /\ task' = [task EXCEPT ![i] = "done"]
    /\ UNCHANGED <<matching, context, logged, timeouts, openedAt, healthy, given, late>>

\* wg.Wait() and inner.AppendBatch.
AppendEnriched(c) ==
    /\ \A i \in Batch(c) : task[i] = "done"
    /\ logged' = [logged EXCEPT ![c] = <<context \cap Batch(c)>>]
    /\ Turns(c, "none")

BatchAppended(c) ==
    /\ AppendEnriched(c)
    /\ UNCHANGED <<matching, context, timeouts, openedAt, healthy, given, late>>

\* circuitCooldown passes.
CoolDown ==
    /\ openedAt = "cooling" /\ openedAt' = "cooled"
    /\ UNCHANGED <<task, matching, context, logged, timeouts, healthy, given, late>>

\* The enricher becomes slow, or recovers (external).
EnricherChanges ==
    /\ healthy' = ~healthy
    /\ UNCHANGED <<task, matching, context, logged, timeouts, openedAt, given, late>>

EnrichInit ==
    /\ task = [i \in Slot |-> "none"] /\ matching = {} /\ context = {} /\ given = {}
    /\ logged = [c \in Caller |-> NotLogged] /\ late = [c \in Caller |-> 0]
    /\ timeouts = 0 /\ openedAt = "zero" /\ healthy = TRUE

Post(i) == PostBegins(i) \/ PostTimesOut(i) \/ PostAnswers(i) \/ PostFails(i)

EnrichStep(c) ==
    \/ EnrichBatch(c) \/ BatchAppended(c)
    \/ \E i \in Batch(c) : EnrichStarts(i) \/ Post(i)

EnrichNext == (\E c \in Caller : EnrichStep(c)) \/ CoolDown \/ EnricherChanges

EnrichSpec == EnrichInit /\ [][EnrichNext]_enrichVars

-----------------------------------------------------------------------------
(* Properties.                                                              *)

\* Every context that the enricher gave is in the log with its event, and no
\* other: the log never gets an event that a goroutine has yet to write to.
LoggedIsSettled ==
    \A c \in Caller : logged[c] # NotLogged =>
        logged[c][1] = given \cap Batch(c) /\ logged[c][1] \subseteq matching

\* A slow enricher is not called while the circuit cools down: from the timeout
\* that opens it, a failed probe's included, only the requests already under way can
\* still time out, at most EnrichConcurrency of each caller, however the batches of
\* several callers and their goroutines overlap.
CircuitHolds ==
    openedAt = "cooling" =>
        \A c \in Caller : late[c] + Cardinality(Posting(c)) <= EnrichConcurrency

\* Enrichment never holds an event back half done nor floods a slow enricher.
EnrichmentSafe == LoggedIsSettled /\ CircuitHolds

\* Once the enricher answers in time for good and matching events keep coming,
\* the circuit closes for good: no order of checks, answers and timeouts of old
\* calls keeps it open.
CircuitRecovers ==
    (<>[]healthy /\ []<>(\E i \in matching : task[i] = "waiting")) => <>[]~CircuitOpen
=============================================================================
