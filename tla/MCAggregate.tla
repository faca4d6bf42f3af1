---------------------------- MODULE MCAggregate ----------------------------
(***************************************************************************)
(* The aggregate handler on a small domain: an account that is paid into    *)
(* and drawn on, where a decision depends on the history and on its order.  *)
(***************************************************************************)
EXTENDS Aggregate

CONSTANTS h1, h2, c1, c2, pay, draw, sweep, peek

OneHome == [h \in Handlers |-> c1]
TwoHomes == [h \in Handlers |-> IF h = h1 THEN c1 ELSE c2]

Count(evs, e) == Cardinality({i \in DOMAIN evs : evs[i] = e})

\* pay adds one; draw takes one and is rejected on an empty account; sweep pays
\* and draws in one decision while the account is new, and then does nothing.
MCDecide(evs, c) ==
    CASE c = pay   -> <<"paid">>
      [] c = draw  -> IF Count(evs, "paid") > Count(evs, "drawn") THEN <<"drawn">> ELSE Rejected
      [] c = sweep -> IF evs = <<>> THEN <<"paid", "paid">> ELSE <<>>
      [] c = peek  -> <<>>
=============================================================================
