----------------------------- MODULE MCInstances -----------------------------
(***************************************************************************)
(* Small modules for Instances: what their constant expressions produce.   *)
(***************************************************************************)
EXTENDS Instances, TLC

Seg(mode, items) == [mode |-> mode, items |-> items]

\* An exporter with a table, and an importer of it that may fail half way.
Exporter == [imports |-> FALSE, globals |-> <<"alloc">>, tables |-> <<"alloc">>,
             elems |-> << >>, data |-> FALSE, start |-> FALSE]
Importer == [imports |-> TRUE, globals |-> <<"alloc">>, tables |-> << >>,
             elems |-> <<Seg("active", <<"func">>), Seg("passive", <<"alloc">>)>>,
             data |-> TRUE, start |-> TRUE]

Shared == [exporter |-> Exporter, importer |-> Importer]

\* Instances that share nothing.
Alone == [exporter |-> Exporter]

\* A segment with two items that allocate.
TwoItems == [items |-> [imports |-> FALSE, globals |-> << >>, tables |-> << >>,
                        elems |-> <<Seg("passive", <<"alloc", "alloc">>)>>,
                        data |-> FALSE, start |-> FALSE]]

InstanceSymmetry == Permutations(Inst) \cup Permutations(Obj)
=============================================================================
