------------------------------- MODULE MCServices ------------------------------
(****************************************************************************)
(* Two parts of the system that share no state, one per behaviour: the      *)
(* notifier, or callers of a circuit breaker of the gateway.  `part' is     *)
(* chosen at the start; the state of the other stands still.                *)
(****************************************************************************)
EXTENDS Notifier, CircuitBreaker

VARIABLE part

servicesVars == <<part, vars, breakerVars>>

NotifierActs(A) == part = "notifier" /\ A /\ UNCHANGED <<part, breakerVars>>
BreakerActs(A)  == part = "breaker" /\ A /\ UNCHANGED <<part, vars>>

ServicesInit ==
  /\ part \in {"notifier", "breaker"}
  /\ Init /\ BreakerInit
  /\ part = "breaker" => authorized = {}

ServicesNext == NotifierActs(Next) \/ BreakerActs(BreakerNext)

\* The fairness of FairSpec and of FairBreakerSpec.
ServicesSpec ==
  /\ ServicesInit /\ [][ServicesNext]_servicesVars
  /\ WF_servicesVars(NotifierActs(LoopStep)) /\ WF_servicesVars(NotifierActs(Boot))
  /\ WF_servicesVars(BreakerActs(Elapse))
  /\ \A c \in Callers : /\ WF_servicesVars(BreakerActs(Start(c)))
                        /\ WF_servicesVars(BreakerActs(Succeed(c) \/ Fail(c)))
====
