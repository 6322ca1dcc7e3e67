--------------------------- MODULE CircuitBreakerProofs ---------------------------
(* Safety of the circuit breaker for any callers, thresholds and slots.            *)
EXTENDS CircuitBreaker, FiniteSetTheorems, TLAPS

\* CircuitBreaker: every variable keeps its type; in particular the count of slots
\* stays within half_open_max_calls, and probes are calls being awaited.
THEOREM TypeCorrect == BreakerSpec => []BreakerTypeOK
<1>1. BreakerInit => BreakerTypeOK
  <2> SUFFICES ASSUME BreakerInit PROVE BreakerTypeOK
    OBVIOUS
  <2>1. /\ half_open_calls \in 0 .. half_open_max_calls /\ failure_count \in Nat
        /\ failures \in Nat /\ cancels \in Nat
    BY BreakerAssumption DEF BreakerInit
  <2>2. /\ state \in {"closed", "open", "half_open"}
        /\ cooled \in BOOLEAN /\ kept \in Nat /\ strays \in Nat
        /\ running \subseteq Callers /\ probes \subseteq running
    BY DEF BreakerInit
  <2> QED
    BY <2>1, <2>2 DEF BreakerTypeOK
<1>2. BreakerTypeOK /\ [BreakerNext]_breakerVars => BreakerTypeOK'
  <2> SUFFICES ASSUME BreakerTypeOK, [BreakerNext]_breakerVars
               PROVE  BreakerTypeOK'
    OBVIOUS
  <2> USE BreakerAssumption DEF BreakerTypeOK
  <2>1. CASE Elapse
    BY <2>1 DEF Elapse, breaker, history
  <2>2. ASSUME NEW c \in Callers, Start(c)
        PROVE  BreakerTypeOK'
    <3>1. /\ half_open_calls' \in 0 .. half_open_max_calls
          /\ UNCHANGED <<failure_count, failures, cancels>>
      BY <2>2 DEF Start, StartClosed, StartFirstProbe, StartProbe, breaker
    <3>2. kept' \in Nat /\ strays' \in Nat
      BY <2>2 DEF Start, StartClosed, StartFirstProbe, StartProbe, history
    <3>3. /\ state' \in {"closed", "open", "half_open"} /\ cooled' = cooled
          /\ running' \subseteq Callers /\ probes' \subseteq running'
      BY <2>2 DEF Start, StartClosed, StartFirstProbe, StartProbe, Enter, breaker, history
    <3> QED
      BY <3>1, <3>2, <3>3
  <2>3. ASSUME NEW c \in Callers, Succeed(c)
        PROVE  BreakerTypeOK'
    BY <2>3 DEF Succeed, NoProbes, Leave
  <2>4. ASSUME NEW c \in Callers, Fail(c)
        PROVE  BreakerTypeOK'
    <3>1. half_open_calls' \in 0 .. half_open_max_calls
      BY <2>4 DEF Fail
    <3>2. NoProbes \/ Counted(c)
      BY <2>4 DEF Fail
    <3>3. kept' \in Nat /\ strays' \in Nat
      BY <3>2 DEF NoProbes, Counted
    <3>4. state' \in {"closed", "open", "half_open"}
      BY <2>4 DEF Fail, Counted
    <3>5. running' \subseteq Callers /\ probes' \subseteq running'
      BY <2>4, <3>2 DEF Fail, Fails, Leave, NoProbes, Counted
    <3>6. failure_count' \in Nat /\ failures' \in Nat /\ cancels' \in Nat
      <4>1. /\ failure_count' = failure_count + 1 /\ failures' = failures + 1
            /\ cancels' = cancels
        BY <2>4 DEF Fail, Fails
      <4> QED
        BY <4>1
    <3>7. cooled' \in BOOLEAN
      BY <2>4 DEF Fail
    <3> QED
      BY <3>1, <3>3, <3>4, <3>5, <3>6, <3>7
  <2>5. ASSUME NEW c \in Callers, Cancel(c)
        PROVE  BreakerTypeOK'
    BY <2>5 DEF Cancel, Leave, breaker
  <2>6. CASE UNCHANGED breakerVars
    BY <2>6 DEF breakerVars, breaker, history
  <2> QED
    BY <2>1, <2>2, <2>3, <2>4, <2>5, <2>6 DEF BreakerNext
<1> QED
  BY <1>1, <1>2, PTL DEF BreakerSpec

\* CircuitBreaker: failures with no success in between leave the closed state at
\* failure_threshold, whichever calls they are of.
THEOREM Threshold == BreakerSpec => []ClosedBelowThreshold
<1>1. BreakerInit => ClosedBelowThreshold
  BY BreakerAssumption DEF BreakerInit, ClosedBelowThreshold
<1>2. BreakerTypeOK /\ ClosedBelowThreshold /\ [BreakerNext]_breakerVars => ClosedBelowThreshold'
  <2> SUFFICES ASSUME BreakerTypeOK, ClosedBelowThreshold, [BreakerNext]_breakerVars
               PROVE  ClosedBelowThreshold'
    OBVIOUS
  <2> USE BreakerAssumption DEF BreakerTypeOK, ClosedBelowThreshold
  <2>1. CASE Elapse \/ UNCHANGED breakerVars
    BY <2>1 DEF Elapse, breaker, history, breakerVars
  <2>2. ASSUME NEW c \in Callers, Start(c) \/ Cancel(c)
        PROVE  ClosedBelowThreshold'
    BY <2>2 DEF Start, StartClosed, StartFirstProbe, StartProbe, Cancel, breaker
  <2>3. ASSUME NEW c \in Callers, Succeed(c)
        PROVE  ClosedBelowThreshold'
    BY <2>3 DEF Succeed
  <2>4. ASSUME NEW c \in Callers, Fail(c)
        PROVE  ClosedBelowThreshold'
    BY <2>4 DEF Fail
  <2> QED
    BY <2>1, <2>2, <2>3, <2>4 DEF BreakerNext
<1> QED
  BY TypeCorrect, <1>1, <1>2, PTL DEF BreakerSpec

\* CircuitBreaker: it never closes without having been half-open, nor becomes
\* half-open without having been open.
THEOREM PassageHolds == BreakerSpec => Passage
<1>1. [BreakerNext]_breakerVars =>
        [/\ state = "open" => state' # "closed"
         /\ state = "closed" => state' # "half_open"]_state
  <2> SUFFICES ASSUME [BreakerNext]_breakerVars
               PROVE  \/ state' = state
                      \/ /\ state = "open" => state' # "closed"
                         /\ state = "closed" => state' # "half_open"
    OBVIOUS
  <2>1. CASE Elapse \/ UNCHANGED breakerVars
    BY <2>1 DEF Elapse, breaker, breakerVars
  <2>2. ASSUME NEW c \in Callers, Start(c) \/ Succeed(c) \/ Fail(c) \/ Cancel(c)
        PROVE  \/ state' = state
               \/ /\ state = "open" => state' # "closed"
                  /\ state = "closed" => state' # "half_open"
    BY <2>2 DEF Start, StartClosed, StartFirstProbe, StartProbe, Succeed, Fail, Counted,
                Cancel, breaker
  <2> QED
    BY <2>1, <2>2 DEF BreakerNext
<1> QED
  BY <1>1, PTL DEF BreakerSpec, Passage

\* Of a half-open breaker, the slots taken by probes and those kept by cancelled ones
\* against the counter: it is never above them, and below them only by the strays.
Accounted ==
  /\ IsFiniteSet(probes)
  /\ state = "half_open" =>
       /\ half_open_calls <= Cardinality(probes) + kept
       /\ Cardinality(probes) + kept <= half_open_calls + strays

\* Every call that enters or leaves moves the counter and the probes alike, but for
\* those that kept and strays count.
LEMMA AccountedKept ==
  BreakerTypeOK /\ Accounted /\ [BreakerNext]_breakerVars => Accounted'
<1> SUFFICES ASSUME BreakerTypeOK, Accounted, [BreakerNext]_breakerVars
             PROVE  Accounted'
  OBVIOUS
<1>0. /\ Cardinality(probes) \in Nat /\ half_open_calls \in Nat /\ kept \in Nat
      /\ strays \in Nat /\ half_open_max_calls \in Nat
  BY FS_CardinalityType, BreakerAssumption DEF Accounted, BreakerTypeOK
<1>1. CASE Elapse \/ UNCHANGED breakerVars
  BY <1>1 DEF Elapse, breaker, history, breakerVars, Accounted
<1>2. ASSUME NEW c \in Callers, StartClosed(c)
      PROVE  Accounted'
  BY <1>2 DEF StartClosed, breaker, history, Accounted
<1>3. ASSUME NEW c \in Callers, StartFirstProbe(c)
      PROVE  Accounted'
  <2>1. IsFiniteSet(probes') /\ Cardinality(probes') = 1
    BY <1>3, FS_Singleton DEF StartFirstProbe
  <2> QED
    BY <1>3, <2>1 DEF StartFirstProbe, Accounted
<1>4. ASSUME NEW c \in Callers, StartProbe(c)
      PROVE  Accounted'
  <2>1. c \notin probes /\ probes' = probes \cup {c}
    BY <1>4 DEF StartProbe, Enter, BreakerTypeOK
  <2>2. IsFiniteSet(probes') /\ Cardinality(probes') = Cardinality(probes) + 1
    BY <2>1, FS_AddElement DEF Accounted
  <2> QED
    BY <1>0, <1>4, <2>2 DEF StartProbe, Accounted
<1>5. ASSUME NEW c \in Callers, Succeed(c)
      PROVE  Accounted'
  <2>1. IsFiniteSet(probes') /\ state' # "half_open"
    BY <1>5, FS_EmptySet DEF Succeed, NoProbes, BreakerTypeOK
  <2> QED
    BY <2>1 DEF Accounted
<1>6. ASSUME NEW c \in Callers, Fail(c)
      PROVE  Accounted'
  <2>1. CASE state' = "open" /\ NoProbes
    BY <2>1, FS_EmptySet DEF NoProbes, Accounted
  <2>2. CASE Counted(c)
    <3>1. /\ probes' = probes \ {c} /\ state' = state /\ kept' = kept
          /\ strays' = IF c \notin probes /\ half_open_calls' # half_open_calls
                         THEN strays + 1 ELSE strays
      BY <2>2 DEF Counted
    <3>2. state = "half_open" =>
            half_open_calls' = IF half_open_calls > 0 THEN half_open_calls - 1 ELSE half_open_calls
      BY <1>6 DEF Fail
    <3>3. CASE c \in probes
      <4>1. /\ IsFiniteSet(probes') /\ Cardinality(probes') = Cardinality(probes) - 1
            /\ Cardinality(probes) > 0
        BY <1>0, <3>1, <3>3, FS_RemoveElement, FS_EmptySet DEF Accounted
      <4> QED
        BY <1>0, <3>1, <3>2, <3>3, <4>1 DEF Accounted
    <3>4. CASE c \notin probes
      <4>1. probes' = probes
        BY <3>1, <3>4
      <4> QED
        BY <1>0, <3>1, <3>2, <3>4, <4>1 DEF Accounted
    <3> QED
      BY <3>3, <3>4
  <2> QED
    BY <1>6, <2>1, <2>2 DEF Fail
<1>7. ASSUME NEW c \in Callers, Cancel(c)
      PROVE  Accounted'
  <2>1. /\ probes' = probes \ {c} /\ kept' = IF c \in probes THEN kept + 1 ELSE kept
        /\ state' = state /\ half_open_calls' = half_open_calls /\ strays' = strays
    BY <1>7 DEF Cancel, breaker
  <2>2. CASE c \in probes
    <3>1. IsFiniteSet(probes') /\ Cardinality(probes') = Cardinality(probes) - 1
      BY <2>1, <2>2, FS_RemoveElement DEF Accounted
    <3> QED
      BY <1>0, <2>1, <2>2, <3>1 DEF Accounted
  <2>3. CASE c \notin probes
    <3>1. probes' = probes /\ kept' = kept
      BY <2>1, <2>3
    <3> QED
      BY <2>1, <3>1 DEF Accounted
  <2> QED
    BY <2>2, <2>3
<1> QED
  BY <1>1, <1>2, <1>3, <1>4, <1>5, <1>6, <1>7 DEF BreakerNext, Start

\* CircuitBreaker: the probes under way exceed half_open_max_calls by the strays at most,
\* and a slot that is taken is a probe's, for any callers and whatever fails or is
\* cancelled.
THEOREM SlotsAccounted == BreakerSpec => []SlotsHeld
<1>1. BreakerInit => Accounted
  BY FS_EmptySet DEF BreakerInit, Accounted
<1>2. BreakerTypeOK /\ Accounted => SlotsHeld
  <2> SUFFICES ASSUME BreakerTypeOK, Accounted, state = "half_open"
               PROVE  /\ Cardinality(probes) + kept <= half_open_max_calls + strays
                      /\ half_open_calls <= Cardinality(probes) + kept
    BY DEF SlotsHeld
  <2>1. /\ Cardinality(probes) \in Nat /\ half_open_calls \in 0 .. half_open_max_calls
        /\ kept \in Nat /\ strays \in Nat /\ half_open_max_calls \in Nat
    BY FS_CardinalityType, BreakerAssumption DEF Accounted, BreakerTypeOK
  <2> QED
    BY <2>1 DEF Accounted
<1> QED
  BY TypeCorrect, AccountedKept, <1>1, <1>2, PTL DEF BreakerSpec
===================================================================================
