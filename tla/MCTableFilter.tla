---------------------------- MODULE MCTableFilter ----------------------------
(* Instances of TableFilter for TLC: two rows, one on each page; the filter  *)
(* keeps the second one, or none.                                            *)
EXTENDS TableFilter, TLC

CONSTANTS name, kind, one, none, wide, old

MCMatches == (one :> {2}) @@ (none :> {})

MCFirst == [displayed |-> {name}, filtered |-> {}, value |-> [c \in {name} |-> one],
            sort |-> [c \in {name, kind} |-> "UNSORTED"], page |-> 0, compatible |-> TRUE]

MCInitial == [MCFirst EXCEPT !.displayed = {}]

\* One of the stored filters was made for an older table.
MCStored ==
    (wide :> [conf |-> [MCFirst EXCEPT !.displayed = {name, kind}, !.page = 1],
              selected |-> <<2>>]) @@
    (old :> [conf |-> [MCFirst EXCEPT !.filtered = {name}, !.value[name] = none,
                                      !.compatible = FALSE],
             selected |-> <<>>])
=============================================================================
