----------------------------- MODULE EntryTokens -----------------------------
(* EntryContextService over its token store and XBOS's context: printed      *)
(* links are issued for a table and resolved by whoever scans them, several  *)
(* threads at a time.  A call is at the grain of the token store's lock and  *)
(* of its attestation by XBOS.  A token's text is signed, so only tokens     *)
(* that were issued get past the codec.                                      *)
EXTENDS Naturals, FiniteSets

CONSTANTS
  None,
  Threads,
  Tokens,       \* server-issued "ent_..." references
  Tables, Merchants,
  MerchantOf,   \* the merchant a table belongs to
  MaxTime,      \* bound on the clock
  MaxVersion,   \* bound on the reassignments of a table
  MaxCalls      \* bound on the calls of one thread

ReplayPolicy == {"reusable", "single_use"}

Opt(S) == S \cup {None}

\* binding is the version in context_binding_ref; every other part of the
\* context is a function of the table.
EntryTokenRecord ==
  [table : Tables, binding : Nat, expires : Nat, policy : ReplayPolicy,
   consumed : BOOLEAN]

\* since is the table's binding when the call began: no code keeps it, only
\* the property NoStaleEntry reads it.
Call ==
  [pc : {"attest_issue", "put", "get", "attest", "consume"},
   token : Opt(Tokens), table : Opt(Tables), binding : Opt(Nat),
   expires : Nat, policy : ReplayPolicy, expected : Opt(Merchants),
   epoch : Nat, since : Opt(Nat)]

ASSUME EntryAssumption ==
  /\ MerchantOf \in [Tables -> Merchants]
  /\ MaxTime \in Nat /\ MaxVersion \in Nat /\ MaxCalls \in Nat
  /\ None \notin EntryTokenRecord \cup Call \cup Tables \cup Tokens
                 \cup Merchants \cup Nat

VARIABLES
  records,          \* _records of the token store
  contextVersion,   \* XBOS: the current binding version of each table
  now,
  call,             \* what each thread is doing
  calls,            \* how many calls a thread has begun
  entered           \* how often each token was resolved

vars == <<records, contextVersion, now, call, calls, entered>>

TypeOK ==
  /\ records \in [Tokens -> Opt(EntryTokenRecord)]
  /\ contextVersion \in [Tables -> Nat]
  /\ now \in Nat
  /\ call \in [Threads -> Opt(Call)]
  /\ \A t \in Threads :
       call[t] # None =>
         /\ call[t].pc \in {"get", "attest", "consume"}
              => call[t].token # None /\ records[call[t].token] # None
         /\ call[t].pc = "consume" => records[call[t].token].policy = "single_use"
         /\ call[t].pc \in {"attest_issue", "put"} => call[t].table # None
         /\ call[t].pc = "put" => call[t].binding # None
  /\ calls \in [Threads -> Nat]
  /\ entered \in [Tokens -> Nat]

Init ==
  /\ records = [k \in Tokens |-> None]
  /\ contextVersion = [b \in Tables |-> 1]
  /\ now = 0
  /\ call = [t \in Threads |-> None]
  /\ calls = [t \in Threads |-> 0]
  /\ entered = [k \in Tokens |-> 0]

-----------------------------------------------------------------------------
Idle(t)     == call[t] = None
At(t, pc)   == call[t] # None /\ call[t].pc = pc
Return(t)   == call' = [call EXCEPT ![t] = None]
Goto(t, pc) == call' = [call EXCEPT ![t].pc = pc]
RecordOf(t) == records[call[t].token]
Single(k)   == records[k] # None /\ records[k].policy = "single_use"

Begin(t, c) ==
  /\ Idle(t) /\ calls[t] < MaxCalls
  /\ call' = [call EXCEPT ![t] = c]
  /\ calls' = [calls EXCEPT ![t] = @ + 1]
  /\ UNCHANGED <<records, contextVersion, now, entered>>

(* issue_entry: an expiry in the future, XBOS's attestation, then a fresh    *)
(* record.  The table may be reassigned before the record is stored.         *)
BeginIssue(t, table, expires, policy) ==
  /\ now < expires
  /\ Begin(t, [pc |-> "attest_issue", token |-> None, table |-> table,
               binding |-> None, expires |-> expires, policy |-> policy,
               expected |-> None, epoch |-> now, since |-> None])

BindingMissing(t) == None   \* variant: stores what nobody attested

BindingNow(t) == contextVersion[call[t].table]

AttestIssue(t) ==
  /\ At(t, "attest_issue")
  /\ call' = [call EXCEPT ![t].pc = "put", ![t].binding = BindingNow(t)]
  /\ UNCHANGED <<records, contextVersion, now, calls, entered>>

PutRecord(t, k) ==
  /\ At(t, "put") /\ records[k] = None
  /\ records' = [records EXCEPT ![k] =
       [table |-> call[t].table, binding |-> call[t].binding,
        expires |-> call[t].expires, policy |-> call[t].policy,
        consumed |-> FALSE]]
  /\ Return(t)
  /\ UNCHANGED <<contextVersion, now, calls, entered>>

(* resolve.                                                                  *)
BeginResolve(t, k, expected) ==
  /\ records[k] # None
  /\ Begin(t, [pc |-> "get", token |-> k, table |-> None, binding |-> None,
               expires |-> 0, policy |-> "reusable", expected |-> expected,
               epoch |-> now, since |-> contextVersion[records[k].table]])

\* The codec's expiry check, the record, the caller's merchant and the replay
\* policy.  All of a record but its consumption is constant.
Acceptable(t) ==
  /\ call[t].epoch < RecordOf(t).expires
  /\ call[t].expected \in {None, MerchantOf[RecordOf(t).table]}
  /\ ~(RecordOf(t).policy = "single_use" /\ RecordOf(t).consumed)

GetRecord(t) ==
  /\ At(t, "get")
  /\ IF Acceptable(t) THEN Goto(t, "attest") ELSE Return(t)
  /\ UNCHANGED <<records, contextVersion, now, calls, entered>>

Enter(t) == entered' = [entered EXCEPT ![call[t].token] = @ + 1]

AttestedAnyBinding(t) == TRUE   \* variant: takes whatever XBOS attests

Attested(t) == contextVersion[RecordOf(t).table] = RecordOf(t).binding

AttestContext(t) ==
  /\ At(t, "attest")
  /\ CASE ~Attested(t) -> Return(t) /\ UNCHANGED entered
       [] Attested(t) /\ RecordOf(t).policy = "single_use" ->
            Goto(t, "consume") /\ UNCHANGED entered
       [] Attested(t) /\ RecordOf(t).policy = "reusable" ->
            Return(t) /\ Enter(t)
  /\ UNCHANGED <<records, contextVersion, now, calls>>

\* consume_if_unconsumed, a compare-and-set under the store's lock.
UnconsumedWhenRead(t) == TRUE   \* variant: trusts the earlier look

Unconsumed(t) == ~RecordOf(t).consumed

Consume(t) ==
  /\ At(t, "consume")
  /\ IF Unconsumed(t)
     THEN /\ records' = [records EXCEPT ![call[t].token].consumed = TRUE]
          /\ Enter(t)
     ELSE UNCHANGED <<records, entered>>
  /\ Return(t)
  /\ UNCHANGED <<contextVersion, now, calls>>

(* XBOS and the clock.                                                       *)
ReassignTable(table) ==
  /\ contextVersion[table] < MaxVersion
  /\ contextVersion' = [contextVersion EXCEPT ![table] = @ + 1]
  /\ UNCHANGED <<records, now, call, calls, entered>>

Tick ==
  /\ now < MaxTime
  /\ now' = now + 1
  /\ UNCHANGED <<records, contextVersion, call, calls, entered>>

Step(t) ==
  \/ AttestIssue(t) \/ GetRecord(t) \/ AttestContext(t) \/ Consume(t)
  \/ \E k \in Tokens : PutRecord(t, k)

Begins(t) ==
  \/ \E table \in Tables, expires \in 1..MaxTime, policy \in ReplayPolicy :
       BeginIssue(t, table, expires, policy)
  \/ \E k \in Tokens, expected \in Opt(Merchants) : BeginResolve(t, k, expected)

Next ==
  \/ \E t \in Threads : Step(t) \/ Begins(t)
  \/ \E table \in Tables : ReassignTable(table)
  \/ Tick

Spec == Init /\ [][Next]_vars
-----------------------------------------------------------------------------
(* Properties.                                                               *)

\* A single-use token lets exactly one caller in, and is spent exactly when it
\* did: no race lets two in, no rejected call spends it.  A reusable token is
\* never spent (resolve).
SingleUse ==
  \A k \in Tokens :
    records[k] # None =>
      IF Single(k) THEN entered[k] = IF records[k].consumed THEN 1 ELSE 0
                   ELSE ~records[k].consumed

\* A token whose table was reassigned before the call began lets nobody in,
\* whatever is reassigned, issued or consumed while the call runs.
NoStaleEntry ==
  [][\A t \in Threads :
       call[t] # None /\ call[t].token # None
         /\ entered'[call[t].token] > entered[call[t].token]
         /\ call'[t] = None
       => RecordOf(t).binding = call[t].since]_vars
=============================================================================
