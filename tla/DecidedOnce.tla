----------------------------- MODULE DecidedOnce -----------------------------
(* What XBOS promises whoever asks it to change or cancel an order: the      *)
(* first request under a client reference is decided, for good and with its  *)
(* effect in the same step; whoever asks again under it is told that         *)
(* decision, or nothing, and nothing happens a second time.                  *)
EXTENDS Naturals

CONSTANTS
  Keys,        \* client references
  Decisions,   \* the decisions there may be under each, naming it
  Effecting,   \* those that change or cancel an order
  Undecided

VARIABLES
  decided,   \* the decision under each key
  effects,   \* how often an order was changed or canceled
  told       \* the decisions somebody was given

Init ==
  /\ decided = [k \in Keys |-> Undecided]
  /\ effects = 0
  /\ told = {}

Decide(k, d) ==
  /\ decided[k] = Undecided
  /\ decided' = [decided EXCEPT ![k] = d]
  /\ effects' = IF d \in Effecting THEN effects + 1 ELSE effects
  /\ told' \in {told, told \cup {d}}

Tell(k) ==
  /\ decided[k] # Undecided
  /\ told' = told \cup {decided[k]}
  /\ UNCHANGED <<decided, effects>>

Next == \E k \in Keys : Tell(k) \/ \E d \in Decisions[k] : Decide(k, d)

Spec == Init /\ [][Next]_<<decided, effects, told>>
=============================================================================
