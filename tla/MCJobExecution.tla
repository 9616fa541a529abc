--------------------------- MODULE MCJobExecution ---------------------------
(* Small instances of JobExecution for TLC *)
EXTENDS JobExecution, TLC

(* All kinds of specification: one without ZK, a ZK one in canonical form, *)
(* one that validateJobSpec brings into that form, one that it refuses.    *)
AllSpecs == {"hash", "zk", "zkRaw", "bad"}
AllZKSpecs == {"zk", "zkRaw", "bad"}
AllCanon == [s \in AllSpecs |-> CASE s = "zkRaw" -> "zk"
                                  [] s = "bad"   -> Invalid
                                  [] OTHER       -> s]

(* An earlier build left a raw ZK row or an invalid one *)
OldRows == {[state |-> st, attempt |-> 1, spec |-> s] :
              st \in {"Running", "Recovering"}, s \in {"zkRaw", "bad"}}

(* One specification, for the instances that go deeper or wider *)
OneSpec == {"zk"}
OneCanon == [s \in OneSpec |-> s]

Symmetry == Permutations(Handlers) \union Permutations(Jobs)
=============================================================================
