----------------------------- MODULE DurableLog -----------------------------
(***************************************************************************)
(* What rustyhip promises its clients, with no container, connection, WAL  *)
(* or ETag in it: an append-only log of transactions, and the set of       *)
(* writes clients were told are committed, which the log always contains.  *)
(* A crash, a restart or a failed call is a step that promises nothing.    *)
(***************************************************************************)
EXTENDS Integers, Sequences

CONSTANT Writes

VARIABLES log,       \* the transactions that are durable
          promised   \* the writes clients hold an acknowledgement of

Logged(s) == UNION {s[i] : i \in 1..Len(s)}

Extends(s, t) == /\ Len(s) <= Len(t)
                 /\ \A i \in 1..Len(s) : s[i] = t[i]

Init == log = << >> /\ promised = {}

\* Some transactions become durable, wanted or not, and some durable writes
\* are acknowledged.
Advance ==
    /\ Extends(log, log')
    /\ \A i \in 1..Len(log') : log'[i] \subseteq Writes
    /\ promised \subseteq promised'
    /\ promised' \subseteq Logged(log')

Spec == Init /\ [][Advance]_<<log, promised>>

=============================================================================
