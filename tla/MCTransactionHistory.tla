----------------------- MODULE MCTransactionHistory -----------------------
(* Instances of TransactionHistory for TLC.                                *)
EXTENDS TransactionHistory

(* One page holds one transaction; the other asks for more than a batch.   *)
SomeQueries == {[size |-> 1, includeSpam |-> FALSE], [size |-> 3, includeSpam |-> TRUE]}
=============================================================================
