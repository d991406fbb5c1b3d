------------------------------- MODULE MCWire -------------------------------
(***************************************************************************)
(* Wire with integers of 4 bits and doubles of two: -8..7 and 0..15 are    *)
(* the two widths, and from 4 on there is a double for every second, from  *)
(* 8 on for every fourth integer, as there is not one for every integer    *)
(* from 2^53 on.                                                           *)
(***************************************************************************)
EXTENDS Wire

Abs(n) == IF n < 0 THEN -n ELSE n

MCNumbers == -16 .. 31
MCExact == -3 .. 3
MCDoubles == MCExact \cup {s * m : s \in {-1, 1}, m \in {4, 6, 8, 12, 16, 24, 32}}

NearestTo ==
    [n \in MCNumbers |->
        CHOOSE d \in MCDoubles : \A e \in MCDoubles : Abs(d - n) <= Abs(e - n)]

MCNearest(n) == NearestTo[n]

NeighboursOf ==
    [d \in MCDoubles |->
        IF d \in MCExact THEN {d}
        ELSE {e \in MCDoubles :
             \A f \in MCDoubles : ~(d < f /\ f < e) /\ ~(e < f /\ f < d)}]

MCNeighbours(d) == NeighboursOf[d]

\* Either side of each width, what no double is, and a value of each kind.
MCJson == {Null, Text, Nested, Bool(TRUE)}
          \cup {Integer(n) : n \in {-9, 5, 7, 8, 16}}
          \cup {Real(6)}

MCComputed == {Blob, Infinity, Integer(7), Real(2)}

=============================================================================
