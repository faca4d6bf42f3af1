---------------------------- MODULE MCViewProjection ----------------------------
(* Instances of ViewProjection for TLC: views of one source with every kind of      *)
(* action, merged and not, and a view that two sources share.                      *)
EXTENDS ViewProjection

CONSTANTS s1, s2, r1, r2, name, total

full == [f \in Fields |-> 1]
empty == [f \in Fields |-> 0]

ActionsOn(id) ==
  {Create(id, empty), Set(id, full), Delete(id), Update(id, [f \in {name} |-> 1]),
   Update(id, [f \in {total} |-> 2]),
   UpdateWithDefault(id, Changed(full, [f \in {name} |-> 2]), [f \in {name} |-> 2]),
   UpdateWithDefault(id, full, [f \in {name} |-> 2])}

\* The first event may as well be about the first row.
Histories(n) ==
  {h \in [1 .. n -> UNION {ActionsOn(id) : id \in Ids}] : h[1].id = r1}

OneSource(n, m) ==
  {[log |-> [s \in Sources |-> IF s = s1 THEN h ELSE <<>>], merges |-> m,
    owns |-> [s \in Sources |-> IF s = s1 THEN Fields ELSE {}]] : h \in Histories(n)}

\* Each source fills in a field of its own, whichever comes first.
Fills(f) ==
  {<<UpdateWithDefault(r1, Changed(empty, [g \in {f} |-> 1]), [g \in {f} |-> 1]),
     Update(r1, [g \in {f} |-> 2])>>}

TwoSources ==
  {[log |-> [s \in Sources |-> IF s = s1 THEN h ELSE k], merges |-> FALSE,
    owns |-> [s \in Sources |-> {IF s = s1 THEN name ELSE total}]] :
     h \in Fills(name), k \in Fills(total)}

MCViews == OneSource(3, TRUE) \cup OneSource(3, FALSE) \cup TwoSources
Merging == OneSource(2, TRUE)
=============================================================================
