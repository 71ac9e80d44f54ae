--------------------------------- MODULE StorageLedger ---------------------------------
(* The artifact storage ledger (domain/storagecapacity), as one owner sees it:   *)
(* its upload's reservation, its published artifact, and the sum of all other    *)
(* entries.  One Secret holds the ledger and every operation is repeated until   *)
(* its update meets no conflict, so that an operation is one step.               *)
EXTENDS Naturals

CONSTANTS Limit,     \* capacity limit, in units; the ledger is not kept without one
          MaxOthers  \* bound on what the other owners hold

ASSUME LedgerAssumption == Limit \in Nat \ {0} /\ MaxOthers \in Nat

VARIABLE ledger    \* [upload, published, others]

LedgerTypeOK == ledger \in [upload : Nat, published : Nat, others : Nat]

EmptyLedger == [upload |-> 0, published |-> 0, others |-> 0]

InUse(l) == l.upload + l.published + l.others
Fits(l)  == InUse(l) <= Limit

(* Every byte admitted fits: uploads, publications and the other owners'         *)
(* entries together stay within the limit, whoever comes first.                  *)
WithinLimit == Fits(ledger)

Reserved(size)  == [upload |-> size, published |-> ledger.published, others |-> ledger.others]
Committed(size) == [upload |-> 0, published |-> size, others |-> ledger.others]

(* Mutant of Reserve: the reservations of the others are forgotten.              *)
ReserveAlone(size) == size + ledger.published <= Limit /\ ledger' = Reserved(size)

Reserve(size)   == Fits(Reserved(size)) /\ ledger' = Reserved(size)
Release         == ledger' = Reserved(0)
Commit(size)    == Fits(Committed(size)) /\ ledger' = Committed(size)
Credit          == ledger' = Committed(0)

(* The other owners reserve, commit and release through the same operations.     *)
OthersMove ==
  \E n \in 0 .. MaxOthers :
    LET l == [upload |-> ledger.upload, published |-> ledger.published, others |-> n] IN
    /\ n # ledger.others
    /\ n < ledger.others \/ Fits(l)
    /\ ledger' = l
=========================================================================================
