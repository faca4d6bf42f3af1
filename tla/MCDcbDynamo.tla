---------------------------- MODULE MCDcbDynamo ----------------------------
(* Instances of DcbDynamo for TLC: placing an order for a product against      *)
(* withdrawing the product from the shop, with imports besides.              *)
EXTENDS DcbDynamo

CONSTANTS place, withdraw, import, bulk

order1  == [key |-> "order", value |-> "1"]
product == [key |-> "product", value |-> "1"]
shop    == [key |-> "shop", value |-> "1"]

MCTagKeys == [t \in Types |-> Keys]
MCPartitionKey == [t \in Types |-> IF t = "placed" THEN "order" ELSE "product"]

placed    == [type |-> "placed", tags |-> {order1, shop}]
withdrawn == [type |-> "withdrawn", tags |-> {product, shop}]

\* An order is decided by its own events and by those of its product, a withdrawal by
\* the orders of the whole shop.
MCQueryOf == [w \in Writers |->
    CASE w = place -> {[types |-> {"placed"}, tags |-> {order1}],
                       [types |-> {"withdrawn"}, tags |-> {product}]}
      [] w = withdraw -> {[types |-> {"placed"}, tags |-> {shop}]}
      [] OTHER -> {}]

MCEventsOf == [w \in Writers |->
    CASE w = place -> <<placed>>
      [] w = withdraw -> <<withdrawn>>
      [] w = bulk -> <<placed, withdrawn, placed>>
      [] OTHER -> <<withdrawn, placed>>]

\* One entity per order and product, filed and read as a whole.
entity == [type |-> "placed", tags |-> {order1, product}]

EntityQueryOf == [w \in Writers |->
    IF w \in Conditional THEN {[types |-> Types, tags |-> {order1, product}]} ELSE {}]

EntityEventsOf == [w \in Writers |-> <<entity>>]
=============================================================================
