---------------------------- MODULE MCOrderPayment ----------------------------
(* Small instances of OrderPayment for TLC.                                  *)
EXTENDS OrderPayment, TLC

Policy(correlation, permitted, payAtCounter) ==
  [correlation |-> correlation, permitted |-> permitted,
   payAtCounter |-> payAtCounter]

\* The counter, with and without the permission it takes.
CounterOrNot ==
  {Policy(c, {"pay_at_counter"}, permission) :
     c \in Correlations, permission \in BOOLEAN}

\* One session to start from; the other references are for its successors.
OneSessionInit ==
  PaymentInit /\ Cardinality({s \in SessionRefs : Exists(s)}) = 1

OneSessionSpec == OneSessionInit /\ [][PaymentNext]_<<vars, payVars>>

Symmetry ==
  Permutations(SessionRefs) \cup Permutations(Handles)
    \cup Permutations(Confirmations) \cup Permutations(ClientRefs)
=============================================================================
