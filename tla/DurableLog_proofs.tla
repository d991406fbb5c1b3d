------------------------- MODULE DurableLog_proofs -------------------------
(***************************************************************************)
(* What the abstract log means to the client that holds a promise.         *)
(***************************************************************************)
EXTENDS DurableLog, TLAPS

PromisesLogged == promised \subseteq Logged(log)

LEMMA LogInvariant == Spec => []PromisesLogged
<1>1. Init => PromisesLogged
    BY DEF Init, PromisesLogged
<1>2. PromisesLogged /\ [Advance]_<<log, promised>> => PromisesLogged'
    BY DEF Advance, PromisesLogged, Logged
<1> QED BY <1>1, <1>2, PTL DEF Spec

\* A write that was acknowledged once (a response 200 of handler.rs, by the
\* refinements) is in the log at all later times.
THEOREM PromisesAreKept ==
    ASSUME NEW w
    PROVE  Spec => [](w \in promised => [](w \in Logged(log)))
<1>1. w \in promised /\ [Advance]_<<log, promised>> => (w \in promised)'
    BY DEF Advance
<1>2. PromisesLogged /\ w \in promised => w \in Logged(log)
    BY DEF PromisesLogged
<1> QED BY <1>1, <1>2, LogInvariant, PTL DEF Spec

=============================================================================
