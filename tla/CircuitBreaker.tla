----------------------------- MODULE CircuitBreaker -----------------------------
(****************************************************************************)
(* CircuitBreaker of api-gateway/circuit_breaker.py, called by concurrent   *)
(* tasks.  `call' has one await, the protected function: a call is a Start  *)
(* and, later, an end in whatever state the breaker is then in.  A call     *)
(* that is refused (CircuitBreakerOpen) changes nothing and is not a step.  *)
(****************************************************************************)
EXTENDS Naturals, FiniteSets

CONSTANTS
  Callers,              \* tasks that may be in `call' at the same time
  failure_threshold, half_open_max_calls,
  MaxFailures,          \* bound on failed calls
  MaxCancels            \* bound on cancelled calls

ASSUME BreakerAssumption ==
  /\ failure_threshold \in Nat \ {0} /\ half_open_max_calls \in Nat \ {0}
  /\ MaxFailures \in Nat /\ MaxCancels \in Nat

VARIABLES
  state, failure_count, half_open_calls,
  cooled,      \* recovery_timeout has elapsed since last_failure_time (or 0)
  running,     \* callers whose function is being awaited
  (* History: read by no action. *)
  probes,      \* those of them let in since the breaker became half-open
  kept,        \* slots that cancelled probes have kept since then
  strays,      \* slots that were given back since then by calls that never had one
  (* Bounds. *)
  failures, cancels

breaker == <<state, failure_count, half_open_calls>>
history == <<probes, kept, strays>>
breakerVars == <<breaker, cooled, running, history, failures, cancels>>

BreakerInit ==
  /\ state = "closed" /\ failure_count = 0 /\ half_open_calls = 0
  /\ cooled = TRUE /\ running = {} /\ probes = {} /\ kept = 0 /\ strays = 0
  /\ failures = 0 /\ cancels = 0

\* The recovery timeout elapses.
Elapse ==
  /\ ~cooled /\ cooled' = TRUE
  /\ UNCHANGED <<breaker, running, history, failures, cancels>>
----------------------------------------------------------------------------
(* call, up to the await. *)

Enter(c) == c \notin running /\ running' = running \cup {c}

StartClosed(c) ==
  /\ state = "closed"
  /\ Enter(c)
  /\ UNCHANGED <<breaker, cooled, history, failures, cancels>>

\* The first call after the recovery timeout makes the breaker half-open.
StartFirstProbe(c) ==
  /\ state = "open" /\ cooled
  /\ state' = "half_open" /\ half_open_calls' = 1
  /\ Enter(c) /\ probes' = {c} /\ kept' = 0 /\ strays' = 0
  /\ UNCHANGED <<failure_count, cooled, failures, cancels>>

\* Later calls probe while there are slots.
StartProbe(c) ==
  /\ state = "half_open" /\ half_open_calls < half_open_max_calls
  /\ half_open_calls' = half_open_calls + 1
  /\ Enter(c) /\ probes' = probes \cup {c}
  /\ UNCHANGED <<state, failure_count, cooled, kept, strays, failures, cancels>>

Start(c) == StartClosed(c) \/ StartFirstProbe(c) \/ StartProbe(c)
----------------------------------------------------------------------------
(* call, after the await. *)

Leave(c) == c \in running /\ running' = running \ {c}

\* The half-open state is over, or never was.
NoProbes == probes' = {} /\ kept' = 0 /\ strays' = 0

\* Mutant of Succeed: a success closes the breaker in whatever state it is.
Succeed_AlwaysCloses(c) ==
  /\ Leave(c)
  /\ failure_count' = 0 /\ state' = "closed" /\ NoProbes
  /\ UNCHANGED <<half_open_calls, cooled, failures, cancels>>

\* Mutant of Succeed: a half-open breaker is not closed.
Succeed_StaysHalfOpen(c) ==
  /\ Leave(c)
  /\ failure_count' = 0 /\ probes' = probes \ {c}
  /\ half_open_calls' = IF c \in probes /\ half_open_calls > 0
                          THEN half_open_calls - 1 ELSE half_open_calls
  /\ UNCHANGED <<state, cooled, kept, strays, failures, cancels>>

\* _on_success
Succeed(c) ==
  /\ Leave(c)
  /\ failure_count' = 0
  /\ state' = IF state = "half_open" THEN "closed" ELSE state
  /\ NoProbes
  /\ UNCHANGED <<half_open_calls, cooled, failures, cancels>>

Fails(c) == Leave(c) /\ failures < MaxFailures /\ failures' = failures + 1

\* A failure leaves the breaker in its state: a probe the fewer, or a stray.
Counted(c) ==
  /\ probes' = probes \ {c}
  /\ strays' = IF c \notin probes /\ half_open_calls' # half_open_calls
                 THEN strays + 1 ELSE strays
  /\ UNCHANGED <<state, kept>>

\* Mutant of Fail: > for >= in the comparison with the threshold.
Fail_OneMore(c) ==
  /\ Fails(c)
  /\ failure_count' = failure_count + 1 /\ cooled' = FALSE
  /\ half_open_calls' = IF state = "half_open" /\ half_open_calls > 0
                          THEN half_open_calls - 1 ELSE half_open_calls
  /\ IF failure_count' > failure_threshold THEN state' = "open" /\ NoProbes ELSE Counted(c)
  /\ UNCHANGED cancels

\* Mutant of Fail: a failed probe keeps its slot.
Fail_KeepsSlot(c) ==
  /\ Fails(c)
  /\ failure_count' = failure_count + 1 /\ cooled' = FALSE
  /\ UNCHANGED half_open_calls
  /\ IF failure_count' >= failure_threshold THEN state' = "open" /\ NoProbes ELSE Counted(c)
  /\ UNCHANGED cancels

\* `except Exception' and _on_failure: in the half-open state a slot is given
\* back, the caller's own or not.
Fail(c) ==
  /\ Fails(c)
  /\ failure_count' = failure_count + 1 /\ cooled' = FALSE
  /\ half_open_calls' = IF state = "half_open" /\ half_open_calls > 0
                          THEN half_open_calls - 1 ELSE half_open_calls
  /\ IF failure_count' >= failure_threshold THEN state' = "open" /\ NoProbes ELSE Counted(c)
  /\ UNCHANGED cancels

\* CancelledError is not an Exception: neither _on_success nor _on_failure runs.
Cancel(c) ==
  /\ Leave(c)
  /\ cancels < MaxCancels /\ cancels' = cancels + 1
  /\ probes' = probes \ {c} /\ kept' = IF c \in probes THEN kept + 1 ELSE kept
  /\ UNCHANGED <<breaker, cooled, strays, failures>>
----------------------------------------------------------------------------
BreakerNext == Elapse \/ \E c \in Callers : Start(c) \/ Succeed(c) \/ Fail(c) \/ Cancel(c)

BreakerSpec == BreakerInit /\ [][BreakerNext]_breakerVars

\* Time passes, every caller keeps calling, and every call ends.
FairBreakerSpec ==
  /\ BreakerSpec
  /\ WF_breakerVars(Elapse)
  /\ \A c \in Callers : WF_breakerVars(Start(c)) /\ WF_breakerVars(Succeed(c) \/ Fail(c))
----------------------------------------------------------------------------
(* Properties. *)

BreakerTypeOK ==
  /\ state \in {"closed", "open", "half_open"}
  /\ failure_count \in Nat /\ half_open_calls \in 0 .. half_open_max_calls
  /\ cooled \in BOOLEAN /\ kept \in Nat /\ strays \in Nat
  /\ running \subseteq Callers /\ probes \subseteq running
  /\ failures \in Nat /\ cancels \in Nat

\* failure_threshold failures with no success in between, of whichever calls and
\* whenever they began, leave the breaker open or half-open.
ClosedBelowThreshold == state = "closed" => failure_count < failure_threshold

\* The breaker closes only by way of half-open, and becomes half-open only from
\* open, whatever late answers arrive.
Passage ==
  [][/\ state = "open" => state' # "closed"
     /\ state = "closed" => state' # "half_open"]_state

\* The counter of slots against the probes themselves (lines 69-82).  More of them than
\* half_open_max_calls are under way only by one for each slot that a failed call gave
\* back without having had it, and those cancelled count as well; and a slot that is
\* taken is taken by a probe under way or was kept by a cancelled one, so that without
\* a cancelled call the breaker refuses nobody while it has a slot to give.
SlotsHeld ==
  state = "half_open" =>
    LET taken == Cardinality(probes) + kept
    IN  taken <= half_open_max_calls + strays /\ half_open_calls <= taken

\* The docstring: an error in HALF_OPEN leads to OPEN (lines 24-25).  Here of the test
\* calls alone.
FailedProbeOpens == [][\A c \in probes : Fail(c) => state' = "open"]_breakerVars

\* When calls stop failing, the breaker closes for good, if no call was cancelled.
Recovers == [](cancels = 0) => <>[](state = "closed")
=============================================================================
