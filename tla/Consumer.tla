------------------------------- MODULE Consumer -------------------------------
(****************************************************************************)
(* What every service promises of the Redis stream it reads through a       *)
(* consumer group with ">" and no XACK: each entry is taken in stream order *)
(* and once; it ends with an output of the service or without, and that is  *)
(* final, whatever fails, crashes or restarts.                              *)
(****************************************************************************)
EXTENDS Naturals

CONSTANT Entries     \* the entries 1 .. Entries that are ever published

VARIABLE fate        \* of each entry

Fates == {"waiting",   \* not delivered, or not even published
          "held",      \* in the memory of the service
          "kept",      \* the service has written its output
          "dropped"}   \* neither, and never will be

Moves == {<<"waiting", "held">>, <<"waiting", "dropped">>,
          <<"held", "kept">>, <<"held", "dropped">>}

Init == fate = [n \in 1 .. Entries |-> "waiting"]

\* Any number of entries move on, delivered from the first one on.
Next ==
  /\ fate' \in [1 .. Entries -> Fates]
  /\ \A n \in 1 .. Entries : fate'[n] = fate[n] \/ <<fate[n], fate'[n]>> \in Moves
  /\ \A m, n \in 1 .. Entries : m < n /\ fate'[m] = "waiting" => fate'[n] = "waiting"

Spec == Init /\ [][Next]_fate
===============================================================================
