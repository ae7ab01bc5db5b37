------------------------------- MODULE MCPods -------------------------------
(* Small instances of the sources of ad pods for TLC. *)
EXTENDS PodSources

Creative(id, type, duration) ==
    [id |-> id, type |-> type, category |-> {"any"}, duration |-> duration, active |-> TRUE]

\* breaks in a row, shorter than what evict keeps
ThreeBreaks == {[start |-> 4, dur |-> 2, category |-> "any"],
                [start |-> 6, dur |-> 1, category |-> "kids"],
                [start |-> 7, dur |-> 3, category |-> "any"]}

House   == Creative(1, "house", 2)
Partner == Creative(2, "partner", 2)
Short   == Creative(3, "partner", 1)
Adults  == [Creative(4, "partner", 1) EXCEPT !.category = {"adults"}]

TwoRegistries == {<<Partner, House>>, <<Adults, Partner>>}
AnyRegistry   == {<<>>} \cup {<<c>> : c \in {House, Partner, Short, Adults}}
                 \cup {<<c, d>> : c \in {House, Partner}, d \in {Short, Adults}} \cup {<<House, Partner, Short>>}
=============================================================================
