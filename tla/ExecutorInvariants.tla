---------------------------- MODULE ExecutorInvariants ----------------------------
(* The inductive strengthening of the safety invariants of Executor.               *)
EXTENDS Executor

\* The scanner publishes the fees of shared/config.py (at most 0.30 %) and a
\* withdrawal of at most 1 USDT (scanner/spread_calculator.py:134-140).
ASSUME FeeAssumption ==
  \A o \in Opportunity : o.buyFee <= 100 /\ o.sellFee <= 100 /\ o.withdrawal <= Usd

Published == pc \in {"save", "update", "write"}   \* entry `at' is in "trades"

\* Trades belong to entries the engine has passed, or to the one it is at; what is
\* booked, saved or dead-lettered belongs to passed entries.
PassedEntries ==
  /\ \A i \in DOMAIN trades : /\ trades[i].id <= group
                              /\ trades[i].id < at \/ (trades[i].id = at /\ Published)
                              /\ validate_opportunity(stream[trades[i].id])
  /\ \A k \in DOMAIN applied : applied[k].id < at
  /\ \A k \in DOMAIN deadLetters :
       /\ deadLetters[k] <= group /\ deadLetters[k] < at
       /\ ~validate_opportunity(stream[deadLetters[k]])
  /\ pc = "dlq" => ~validate_opportunity(Here)

\* The trade in progress is the last one of the stream "trades".
InProgress ==
  Published => \E i \in DOMAIN trades : trades[i] = [id |-> at, trade |-> trade]

\* What the trade in progress will move: within 10 % of the balance of the buyer,
\* a fee no larger than the amount, and proceeds that are not negative.
Affordable(t, usdt) ==
  10 * t.amount <= usdt /\ t.buyFee <= t.amount /\ SellerGets(t) >= 0

Sized ==
  /\ pc = "publish" \/ Published => Affordable(trade, balance[Here.buy][USDT])
  /\ pc = "write" => seen = [buy |-> balance[Here.buy], sell |-> balance[Here.sell]]

\* With the kill switch on, the trades published since it was turned on and the
\* entries of the batch not traded yet are one batch together.
Pending == CASE pc = "read" -> ReadCount
             [] Published   -> group - at
             [] OTHER       -> group + 1 - at

Bounded ==
  /\ group + 1 - at <= ReadCount
  /\ killSwitch => ordered /\ sinceKill + Pending <= ReadCount

Safety ==
  /\ PassedEntries /\ InProgress /\ Sized /\ Bounded
  /\ TradedAtMostOnce /\ BookedOnlyIfPublished /\ SolventInUsdt

\* Trading waits until start-up has funded every exchange, so a trade is never booked
\* before a balance it moves, or one that start-up would set again, exists.
AllFunded == pc # "down" \/ applied # <<>> => funded = Exchanges

\* Without a fault, the trade whose balances are about to move has its row.
SavedBeforeBooked ==
  errors = 0 /\ crashes = 0 /\ pc \in {"update", "write"} => at \in saved

Ledger ==
  /\ AllFunded /\ BalancesExplained
  /\ SavedBeforeBooked /\ CompleteWithoutFaults
===================================================================================
