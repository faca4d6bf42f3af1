--------------------------- MODULE MCDcbPostgres ---------------------------
(* Instances of DcbPostgres for TLC: placing orders for a product against     *)
(* disabling it.                                                            *)
EXTENDS DcbPostgres, TLC

CONSTANTS place, disable, retire, import

product == [key |-> "product", value |-> "p"]
shop    == [key |-> "shop", value |-> "p"]

MCTagKeys == [t \in Types |-> Keys]
MCHash(t) == IF t.key = "shop" THEN 1 ELSE 2

Disabled == [types |-> {"disabled"}, tags |-> {product}]
Anything == [types |-> {"disabled", "placed"}, tags |-> {}]

MCQueryOf == [w \in Writers |->
    CASE w = place -> {Disabled}
      [] w = disable -> {[types |-> {"disabled"}, tags |-> {product, shop}]}
      [] w = retire -> {Disabled, [types |-> {"placed"}, tags |-> {shop}]}
      [] OTHER -> {}]

MCEventsOf == [w \in Writers |->
    CASE w = place -> <<[type |-> "placed", tags |-> {product}]>>
      [] w = disable -> <<[type |-> "disabled", tags |-> {product, shop}]>>
      [] w = retire -> <<[type |-> "placed", tags |-> {shop}],
                         [type |-> "disabled", tags |-> {product}]>>
      [] OTHER -> <<[type |-> "disabled", tags |-> {product}]>>]

\* Commands that are decided by no tag, and write events of different tags.
UntaggedQueryOf == [w \in Writers |-> {Anything}]

UntaggedEventsOf == [w \in Writers |->
    IF w = place THEN <<[type |-> "placed", tags |-> {product}]>>
    ELSE <<[type |-> "disabled", tags |-> {shop}]>>]
=============================================================================
