-------------------------- MODULE EntryTokens_proofs --------------------------
(* EntryTokens for any number of threads, tokens, tables and calls: one      *)
(* entry per single-use token, and none for a table reassigned before the    *)
(* call began.                                                               *)
EXTENDS EntryTokens, TLAPS

(* What a token in use was issued for is no newer than what the table was    *)
(* when the call began, and that no newer than what it is now; a call past   *)
(* its attestation was attested what the token was issued for.               *)
Bindings ==
  /\ \A k \in Tokens :
       records[k] # None => records[k].binding <= contextVersion[records[k].table]
  /\ \A t \in Threads :
       call[t] # None =>
         /\ call[t].pc = "put" => call[t].binding <= contextVersion[call[t].table]
         /\ call[t].pc \in {"get", "attest", "consume"} =>
              /\ call[t].since \in Nat
              /\ RecordOf(t).binding <= call[t].since
              /\ call[t].since <= contextVersion[RecordOf(t).table]
         /\ call[t].pc = "consume" => RecordOf(t).binding = call[t].since

Unissued == \A k \in Tokens : records[k] = None => entered[k] = 0

LEMMA RecordFields ==
  ASSUME NEW k \in Tokens, TypeOK, records[k] # None
  PROVE  /\ records[k] \in EntryTokenRecord
         /\ records[k].table \in Tables
         /\ records[k].binding \in Nat
         /\ records[k].policy \in ReplayPolicy
         /\ records[k].consumed \in BOOLEAN
  <1>1. records[k] \in EntryTokenRecord
    BY DEF TypeOK, Opt
  <1> QED BY <1>1 DEF EntryTokenRecord

LEMMA CallFields ==
  ASSUME NEW t \in Threads, TypeOK, call[t] # None
  PROVE  /\ call[t] \in Call
         /\ call[t].token # None => call[t].token \in Tokens
         /\ call[t].table # None => call[t].table \in Tables
         /\ call[t].binding # None => call[t].binding \in Nat
         /\ call[t].since # None => call[t].since \in Nat
  <1>1. call[t] \in Call
    BY DEF TypeOK, Opt
  <1> QED BY <1>1 DEF Call, Opt

-----------------------------------------------------------------------------
LEMMA InitType == Init => TypeOK
  BY EntryAssumption DEF Init, TypeOK, Opt

\* A call that changes no record keeps every other call's type: one obligation
\* for the calls and one for the rest of the state.
LEMMA TypeStep ==
  ASSUME TypeOK, [Next]_vars
  PROVE  TypeOK'
<1>1. CASE UNCHANGED vars
  BY <1>1 DEF TypeOK, vars, RecordOf
<1>2. ASSUME NEW t \in Threads, NEW table \in Tables, NEW expires \in 1..MaxTime,
             NEW policy \in ReplayPolicy, BeginIssue(t, table, expires, policy)
      PROVE  TypeOK'
  <2> DEFINE c == [pc |-> "attest_issue", token |-> None, table |-> table,
                   binding |-> None, expires |-> expires, policy |-> policy,
                   expected |-> None, epoch |-> now, since |-> None]
  <2>1. c \in Call
    BY EntryAssumption, <1>2 DEF Call, Opt, TypeOK
  <2>2. call' = [call EXCEPT ![t] = c] /\ calls' = [calls EXCEPT ![t] = @ + 1]
        /\ UNCHANGED <<records, contextVersion, now, entered>>
    BY <1>2 DEF BeginIssue, Begin
  <2>3. c.pc = "attest_issue" /\ c.table # None
    BY EntryAssumption
  <2> HIDE DEF c
  <2> QED BY <2>1, <2>2, <2>3 DEF TypeOK, Opt
<1>3. ASSUME NEW t \in Threads, NEW k \in Tokens, NEW expected \in Opt(Merchants),
             BeginResolve(t, k, expected)
      PROVE  TypeOK'
  <2> DEFINE c == [pc |-> "get", token |-> k, table |-> None, binding |-> None,
                   expires |-> 0, policy |-> "reusable", expected |-> expected,
                   epoch |-> now, since |-> contextVersion[records[k].table]]
  <2>1. records[k] # None /\ records[k].table \in Tables
    BY <1>3, RecordFields DEF BeginResolve
  <2>2. contextVersion[records[k].table] \in Nat
    BY <2>1 DEF TypeOK
  <2>3. c \in Call
    BY <2>2 DEF Call, Opt, TypeOK, ReplayPolicy
  <2>4. call' = [call EXCEPT ![t] = c] /\ calls' = [calls EXCEPT ![t] = @ + 1]
        /\ UNCHANGED <<records, contextVersion, now, entered>>
    BY <1>3 DEF BeginResolve, Begin
  <2>5. c.pc = "get" /\ c.token = k /\ c.token # None
    BY EntryAssumption
  <2> HIDE DEF c
  <2> QED BY <2>1, <2>3, <2>4, <2>5 DEF TypeOK, Opt
<1>4. ASSUME NEW t \in Threads, AttestIssue(t)
      PROVE  TypeOK'
  <2>1. call[t] # None /\ call[t].pc = "attest_issue" /\ call[t].table \in Tables
    BY <1>4, CallFields DEF AttestIssue, At, TypeOK
  <2> DEFINE d == [call[t] EXCEPT !.pc = "put", !.binding = BindingNow(t)]
  <2>2. BindingNow(t) \in Nat /\ BindingNow(t) # None
    BY <2>1, EntryAssumption DEF TypeOK, BindingNow
  <2>3. d \in Call /\ d.pc = "put" /\ d.table = call[t].table /\ d.binding # None
    BY <2>1, <2>2, CallFields DEF Call, Opt
  <2>4. call' = [call EXCEPT ![t] = d]
        /\ UNCHANGED <<records, contextVersion, now, calls, entered>>
    BY <1>4 DEF AttestIssue
  <2> HIDE DEF d
  <2> QED BY <2>1, <2>3, <2>4 DEF TypeOK, Opt
<1>5. ASSUME NEW t \in Threads, NEW k \in Tokens, PutRecord(t, k)
      PROVE  TypeOK'
  <2> DEFINE r == [table |-> call[t].table, binding |-> call[t].binding,
                   expires |-> call[t].expires, policy |-> call[t].policy,
                   consumed |-> FALSE]
  <2>1. call[t] \in Call /\ call[t].table \in Tables /\ call[t].binding \in Nat
    BY <1>5, CallFields DEF PutRecord, At, TypeOK
  <2>2. r \in EntryTokenRecord
    BY <2>1 DEF EntryTokenRecord, Call
  <2>3. records[k] = None /\ records' = [records EXCEPT ![k] = r]
        /\ call' = [call EXCEPT ![t] = None]
        /\ UNCHANGED <<contextVersion, now, calls, entered>>
    BY <1>5 DEF PutRecord, Return
  <2>4. r # None
    BY <2>2, EntryAssumption
  <2> HIDE DEF r
  <2> QED BY <2>2, <2>3, <2>4 DEF TypeOK, Opt
<1>6. ASSUME NEW t \in Threads, NEW pc \in {"attest", "consume"},
             call[t] # None, call[t].token # None, records[call[t].token] # None,
             pc = "consume" => records[call[t].token].policy = "single_use",
             Goto(t, pc), UNCHANGED <<records, contextVersion, now, calls>>,
             entered' \in [Tokens -> Nat]
      PROVE  TypeOK'
  <2> DEFINE d == [call[t] EXCEPT !.pc = pc]
  <2>1. d \in Call /\ d.pc = pc /\ d.token = call[t].token
    BY <1>6, CallFields DEF Call
  <2>2. call' = [call EXCEPT ![t] = d]
    BY <1>6 DEF Goto
  <2> HIDE DEF d
  <2> QED BY <1>6, <2>1, <2>2 DEF TypeOK, Opt
<1>7. ASSUME NEW t \in Threads, Return(t),
             records' = records, UNCHANGED <<contextVersion, now, calls>>,
             entered' \in [Tokens -> Nat]
      PROVE  TypeOK'
  BY <1>7 DEF TypeOK, Opt, Return
<1>8. ASSUME NEW t \in Threads, GetRecord(t)
      PROVE  TypeOK'
  BY <1>8, <1>6, <1>7 DEF GetRecord, At, TypeOK
<1>9. ASSUME NEW t \in Threads, call[t] # None, call[t].token \in Tokens, Enter(t)
      PROVE  entered' \in [Tokens -> Nat]
  BY <1>9 DEF Enter, TypeOK
<1>10. ASSUME NEW t \in Threads, AttestContext(t)
       PROVE  TypeOK'
  <2>1. call[t] # None /\ call[t].pc = "attest" /\ call[t].token # None
        /\ call[t].token \in Tokens /\ records[call[t].token] # None
    BY <1>10, CallFields DEF AttestContext, At, TypeOK
  <2>2. RecordOf(t).policy \in ReplayPolicy
    BY <2>1, RecordFields DEF RecordOf
  <2>3. CASE ~Attested(t)
    BY <1>10, <2>3, <1>7 DEF AttestContext, TypeOK
  <2>4. CASE Attested(t) /\ RecordOf(t).policy = "single_use"
    BY <1>10, <2>1, <2>4, <1>6 DEF AttestContext, TypeOK, RecordOf
  <2>5. CASE Attested(t) /\ RecordOf(t).policy = "reusable"
    BY <1>10, <2>1, <2>5, <1>7, <1>9 DEF AttestContext, TypeOK
  <2> QED BY <2>2, <2>3, <2>4, <2>5 DEF ReplayPolicy
<1>11. ASSUME NEW t \in Threads, Consume(t)
       PROVE  TypeOK'
  <2>1. call[t] # None /\ call[t].token \in Tokens /\ records[call[t].token] # None
    BY <1>11, CallFields DEF Consume, At, TypeOK
  <2>2. CASE ~Unconsumed(t)
    BY <1>11, <2>2, <1>7 DEF Consume, TypeOK
  <2>3. CASE Unconsumed(t)
    <3> DEFINE k == call[t].token
               r == [records[k] EXCEPT !.consumed = TRUE]
    <3>1. records' = [records EXCEPT ![k] = r] /\ Enter(t) /\ Return(t)
          /\ UNCHANGED <<contextVersion, now, calls>>
      BY <1>11, <2>3 DEF Consume
    <3>2. r \in EntryTokenRecord /\ r.policy = records[k].policy
      BY <2>1, RecordFields DEF EntryTokenRecord
    <3>3. entered' \in [Tokens -> Nat]
      BY <3>1, <2>1, <1>9
    <3>4. r # None
      BY <3>2, EntryAssumption
    <3>5. k \in Tokens
      BY <2>1
    <3> HIDE DEF k, r
    <3>6. records' \in [Tokens -> Opt(EntryTokenRecord)]
          /\ \A j \in Tokens : records[j] # None =>
               records'[j] # None /\ records'[j].policy = records[j].policy
      BY <3>1, <3>2, <3>4, <3>5 DEF TypeOK, Opt
    <3>7. call' \in [Threads -> Opt(Call)]
          /\ \A u \in Threads : call'[u] = IF u = t THEN None ELSE call[u]
      BY <3>1 DEF TypeOK, Return, Opt
    <3>8. ASSUME NEW u \in Threads, call[u] # None, call[u].token # None
          PROVE  call[u].token \in Tokens
      BY <3>8, CallFields
    <3> QED BY <3>1, <3>3, <3>6, <3>7, <3>8 DEF TypeOK
  <2> QED BY <2>2, <2>3
<1>12. ASSUME NEW table \in Tables, ReassignTable(table)
       PROVE  TypeOK'
  BY <1>12 DEF ReassignTable, TypeOK
<1>13. CASE Tick
  BY <1>13 DEF Tick, TypeOK
<1> QED
  BY <1>1, <1>2, <1>3, <1>4, <1>5, <1>8, <1>10, <1>11, <1>12, <1>13
     DEF Next, Step, Begins

\* Every reachable state is typed: a call in flight holds the record it needs
\* (issue_entry, resolve).
THEOREM TypeCorrect == Spec => []TypeOK
<1>1. TypeOK /\ [Next]_vars => TypeOK'
  BY TypeStep
<1> QED BY InitType, <1>1, PTL DEF Spec

-----------------------------------------------------------------------------
IInv == TypeOK /\ Unissued /\ SingleUse /\ Bindings

LEMMA InitInvariant == Init => IInv
<1>1. Init => Unissued /\ SingleUse /\ Bindings
  BY DEF Init, Unissued, SingleUse, Bindings
<1> QED BY <1>1, InitType DEF IInv

\* The entries counted for a token agree with its consumption after any step.
LEMMA EntryStep ==
  ASSUME TypeOK, Unissued, SingleUse, [Next]_vars
  PROVE  Unissued' /\ SingleUse'
<1>1. ASSUME UNCHANGED <<records, entered>>
      PROVE  Unissued' /\ SingleUse'
  BY <1>1 DEF Unissued, SingleUse, Single
<1>2. ASSUME NEW t \in Threads, NEW k \in Tokens, PutRecord(t, k)
      PROVE  Unissued' /\ SingleUse'
  <2>1. entered[k] = 0 /\ k \in DOMAIN records
    BY <1>2 DEF PutRecord, Unissued, TypeOK
  <2>2. entered' = entered
    BY <1>2 DEF PutRecord
  <2>3. ASSUME NEW j \in Tokens, j # k
        PROVE  records'[j] = records[j]
    BY <1>2, <2>3 DEF PutRecord, TypeOK
  <2>4. records'[k].consumed = FALSE /\ records'[k] # None
    <3> DEFINE r == [table |-> call[t].table, binding |-> call[t].binding,
                     expires |-> call[t].expires, policy |-> call[t].policy,
                     consumed |-> FALSE]
    <3>1. records'[k] = r
      BY <1>2, <2>1 DEF PutRecord
    <3>2. r.consumed = FALSE
      OBVIOUS
    <3>3. r \in EntryTokenRecord
      <4>1. call[t] \in Call /\ call[t].table \in Tables /\ call[t].binding \in Nat
        BY <1>2, CallFields DEF PutRecord, At, TypeOK
      <4> QED BY <4>1 DEF EntryTokenRecord, Call
    <3>4. r # None
      BY <3>3, EntryAssumption
    <3> HIDE DEF r
    <3> QED BY <3>1, <3>2, <3>4
  <2> QED BY <2>1, <2>2, <2>3, <2>4 DEF Unissued, SingleUse, Single
<1>3. ASSUME NEW t \in Threads, AttestContext(t)
      PROVE  Unissued' /\ SingleUse'
  <2>1. call[t] # None /\ call[t].token \in Tokens /\ records[call[t].token] # None
    BY <1>3, CallFields DEF AttestContext, At, TypeOK
  <2>2. records' = records
    BY <1>3 DEF AttestContext
  <2>3. RecordOf(t).policy \in ReplayPolicy
    BY <2>1, RecordFields DEF RecordOf
  <2>4. CASE entered' = entered
    BY <2>2, <2>4, <1>1
  <2>5. CASE Enter(t) /\ RecordOf(t).policy = "reusable"
    BY <2>1, <2>2, <2>5 DEF Enter, RecordOf, Unissued, SingleUse, Single, TypeOK
  <2> QED BY <1>3, <2>3, <2>4, <2>5 DEF AttestContext, ReplayPolicy
<1>4. ASSUME NEW t \in Threads, Consume(t)
      PROVE  Unissued' /\ SingleUse'
  <2>1. call[t] # None /\ call[t].token \in Tokens /\ records[call[t].token] # None
        /\ records[call[t].token].policy = "single_use"
    BY <1>4, CallFields DEF Consume, At, TypeOK
  <2>2. CASE ~Unconsumed(t)
    BY <1>4, <2>2, <1>1 DEF Consume
  <2>3. CASE Unconsumed(t)
    <3> DEFINE k == call[t].token
               r == [records[k] EXCEPT !.consumed = TRUE]
    <3>1. records' = [records EXCEPT ![k] = r]
          /\ entered' = [entered EXCEPT ![k] = @ + 1]
      BY <1>4, <2>3 DEF Consume, Enter
    <3>2. r.policy = "single_use" /\ r.consumed = TRUE
      BY <2>1, RecordFields DEF EntryTokenRecord
    <3>3. entered[k] = 0
      BY <2>1, <2>3 DEF Unconsumed, RecordOf, SingleUse, Single
    <3>4. r # None
      <4>1. r \in EntryTokenRecord
        BY <2>1, RecordFields DEF EntryTokenRecord
      <4> QED BY <4>1, EntryAssumption
    <3>5. k \in Tokens /\ records[k] # None
      BY <2>1
    <3> HIDE DEF k, r
    <3>6. \A j \in Tokens :
            /\ records'[j] = IF j = k THEN r ELSE records[j]
            /\ entered'[j] = IF j = k THEN 1 ELSE entered[j]
      BY <3>1, <3>3, <3>5 DEF TypeOK
    <3> QED BY <3>2, <3>4, <3>5, <3>6 DEF Unissued, SingleUse, Single
  <2> QED BY <2>2, <2>3
<1>5. CASE UNCHANGED vars
  BY <1>5, <1>1 DEF vars
<1>6. ASSUME NEW t \in Threads, Step(t)
      PROVE  Unissued' /\ SingleUse'
  BY <1>6, <1>1, <1>2, <1>3, <1>4 DEF Step, AttestIssue, GetRecord
<1>7. ASSUME NEW t \in Threads, Begins(t)
      PROVE  UNCHANGED <<records, entered>>
  BY <1>7 DEF Begins, BeginIssue, BeginResolve, Begin
<1>8. ASSUME (\E table \in Tables : ReassignTable(table)) \/ Tick
      PROVE  UNCHANGED <<records, entered>>
  BY <1>8 DEF ReassignTable, Tick
<1> QED BY <1>1, <1>5, <1>6, <1>7, <1>8 DEF Next

\* A single-use token lets one caller in, whatever the number of threads that
\* resolve it at once, and is spent exactly when it did (resolve).
THEOREM EntersOnce == Spec => []SingleUse
<1>1. Init => TypeOK /\ Unissued /\ SingleUse
  BY InitInvariant DEF IInv
<1>2. TypeOK /\ Unissued /\ SingleUse /\ [Next]_vars
        => TypeOK' /\ Unissued' /\ SingleUse'
  BY TypeStep, EntryStep
<1> QED BY <1>1, <1>2, PTL DEF Spec

-----------------------------------------------------------------------------
LEMMA BindingStep ==
  ASSUME TypeOK, Bindings, [Next]_vars
  PROVE  Bindings'
<1>1. TypeOK'
  BY TypeStep
<1>2. ASSUME NEW t \in Threads, Return(t), UNCHANGED contextVersion,
             \A k \in Tokens : records[k] # None =>
                /\ records'[k] # None
                /\ records'[k].table = records[k].table
                /\ records'[k].binding = records[k].binding,
             \A k \in Tokens : records'[k] # None => records[k] # None
      PROVE  Bindings'
  <2>1. \A u \in Threads : call'[u] = IF u = t THEN None ELSE call[u]
    BY <1>2 DEF Return, TypeOK
  <2>2. ASSUME NEW u \in Threads, call[u] # None,
               call[u].pc \in {"get", "attest", "consume"}
        PROVE  call[u].token \in Tokens /\ records[call[u].token] # None
    BY <2>2, CallFields DEF TypeOK
  <2> QED BY <1>2, <2>1, <2>2 DEF Bindings, RecordOf
<1>3. ASSUME NEW t \in Threads, NEW table \in Tables, NEW expires \in 1..MaxTime,
             NEW policy \in ReplayPolicy, BeginIssue(t, table, expires, policy)
      PROVE  Bindings'
  <2> DEFINE c == [pc |-> "attest_issue", token |-> None, table |-> table,
                   binding |-> None, expires |-> expires, policy |-> policy,
                   expected |-> None, epoch |-> now, since |-> None]
  <2>1. call' = [call EXCEPT ![t] = c] /\ UNCHANGED <<records, contextVersion>>
        /\ c.pc = "attest_issue"
    BY <1>3 DEF BeginIssue, Begin
  <2> HIDE DEF c
  <2> QED BY <2>1 DEF Bindings, RecordOf, TypeOK
<1>4. ASSUME NEW t \in Threads, NEW k \in Tokens, NEW expected \in Opt(Merchants),
             BeginResolve(t, k, expected)
      PROVE  Bindings'
  <2> DEFINE c == [pc |-> "get", token |-> k, table |-> None, binding |-> None,
                   expires |-> 0, policy |-> "reusable", expected |-> expected,
                   epoch |-> now, since |-> contextVersion[records[k].table]]
  <2>1. call' = [call EXCEPT ![t] = c] /\ UNCHANGED <<records, contextVersion>>
        /\ c.pc = "get" /\ c.token = k /\ c.since = contextVersion[records[k].table]
        /\ records[k] # None
    BY <1>4 DEF BeginResolve, Begin
  <2>2. records[k].table \in Tables
    BY <2>1, RecordFields
  <2>3. contextVersion[records[k].table] \in Nat
    BY <2>2 DEF TypeOK
  <2> HIDE DEF c
  <2> QED BY <2>1, <2>3 DEF Bindings, RecordOf, TypeOK
<1>5. ASSUME NEW t \in Threads, AttestIssue(t)
      PROVE  Bindings'
  <2>1. call[t] # None /\ call[t].pc = "attest_issue" /\ call[t].table \in Tables
    BY <1>5, CallFields DEF AttestIssue, At, TypeOK
  <2> DEFINE d == [call[t] EXCEPT !.pc = "put", !.binding = BindingNow(t)]
  <2>2. d.pc = "put" /\ d.binding = contextVersion[call[t].table]
        /\ d.table = call[t].table
    BY <2>1, CallFields DEF Call, BindingNow
  <2>3. call' = [call EXCEPT ![t] = d] /\ UNCHANGED <<records, contextVersion>>
    BY <1>5 DEF AttestIssue
  <2>4. contextVersion[call[t].table] \in Nat
    BY <2>1 DEF TypeOK
  <2> HIDE DEF d
  <2> QED BY <2>2, <2>3, <2>4 DEF Bindings, RecordOf, TypeOK
<1>6. ASSUME NEW t \in Threads, NEW k \in Tokens, PutRecord(t, k)
      PROVE  Bindings'
  <2> DEFINE r == [table |-> call[t].table, binding |-> call[t].binding,
                   expires |-> call[t].expires, policy |-> call[t].policy,
                   consumed |-> FALSE]
  <2>1. records[k] = None /\ records' = [records EXCEPT ![k] = r]
        /\ call' = [call EXCEPT ![t] = None] /\ UNCHANGED contextVersion
    BY <1>6 DEF PutRecord, Return
  <2>2. r.table = call[t].table /\ r.binding = call[t].binding
    OBVIOUS
  <2>3. call[t] # None /\ call[t].pc = "put"
        /\ call[t].binding <= contextVersion[call[t].table]
    BY <1>6 DEF PutRecord, At, Bindings
  <2> HIDE DEF r
  <2>4. ASSUME NEW j \in Tokens
        PROVE  records'[j] = IF j = k THEN r ELSE records[j]
    BY <2>1 DEF TypeOK
  <2>5. ASSUME NEW u \in Threads
        PROVE  call'[u] = IF u = t THEN None ELSE call[u]
    BY <2>1 DEF TypeOK
  <2>6. ASSUME NEW u \in Threads, call[u] # None,
               call[u].pc \in {"get", "attest", "consume"}
        PROVE  call[u].token \in Tokens /\ call[u].token # k
    BY <2>1, <2>6, CallFields DEF TypeOK
  <2> QED BY <2>1, <2>2, <2>3, <2>4, <2>5, <2>6 DEF Bindings, RecordOf
<1>7. ASSUME NEW t \in Threads, GetRecord(t)
      PROVE  Bindings'
  <2>1. call[t] # None /\ call[t].pc = "get" /\ UNCHANGED <<records, contextVersion>>
    BY <1>7 DEF GetRecord, At
  <2>2. CASE Return(t)
    BY <2>1, <2>2, <1>2
  <2>3. CASE Goto(t, "attest")
    <3> DEFINE d == [call[t] EXCEPT !.pc = "attest"]
    <3>1. d.pc = "attest" /\ d.token = call[t].token /\ d.since = call[t].since
      BY <2>1, CallFields DEF Call
    <3>2. call' = [call EXCEPT ![t] = d]
      BY <2>3 DEF Goto
    <3> HIDE DEF d
    <3> QED BY <2>1, <3>1, <3>2 DEF Bindings, RecordOf, TypeOK
  <2> QED BY <1>7, <2>2, <2>3 DEF GetRecord
<1>8. ASSUME NEW t \in Threads, AttestContext(t)
      PROVE  Bindings'
  <2>1. call[t] # None /\ call[t].pc = "attest" /\ UNCHANGED <<records, contextVersion>>
        /\ call[t].token \in Tokens /\ records[call[t].token] # None
    BY <1>8, CallFields DEF AttestContext, At, TypeOK
  <2>2. CASE Return(t)
    BY <2>1, <2>2, <1>2
  <2>3. CASE Goto(t, "consume") /\ Attested(t)
    <3> DEFINE d == [call[t] EXCEPT !.pc = "consume"]
    <3>1. d.pc = "consume" /\ d.token = call[t].token /\ d.since = call[t].since
      BY <2>1, CallFields DEF Call
    <3>2. call' = [call EXCEPT ![t] = d]
      BY <2>3 DEF Goto
    <3>3. RecordOf(t).binding \in Nat /\ RecordOf(t).binding = call[t].since
          /\ call[t].since \in Nat
      BY <2>1, <2>3, RecordFields DEF Attested, Bindings, RecordOf
    <3> HIDE DEF d
    <3> QED BY <2>1, <3>1, <3>2, <3>3 DEF Bindings, RecordOf, TypeOK
  <2>4. RecordOf(t).policy \in ReplayPolicy
    BY <2>1, RecordFields DEF RecordOf
  <2> QED BY <1>8, <2>2, <2>3, <2>4 DEF AttestContext, ReplayPolicy
<1>9. ASSUME NEW t \in Threads, Consume(t)
      PROVE  Bindings'
  <2>1. call[t] # None /\ call[t].token \in Tokens /\ records[call[t].token] # None
    BY <1>9, CallFields DEF Consume, At, TypeOK
  <2>2. CASE ~Unconsumed(t)
    BY <1>9, <2>2, <1>2 DEF Consume
  <2>3. CASE Unconsumed(t)
    <3> DEFINE k == call[t].token
               r == [records[k] EXCEPT !.consumed = TRUE]
    <3>1. records' = [records EXCEPT ![k] = r] /\ Return(t) /\ UNCHANGED contextVersion
      BY <1>9, <2>3 DEF Consume
    <3>2. r.table = records[k].table /\ r.binding = records[k].binding /\ r # None
      <4>1. r \in EntryTokenRecord
        BY <2>1, RecordFields DEF EntryTokenRecord
      <4> QED BY <2>1, <4>1, RecordFields, EntryAssumption DEF EntryTokenRecord
    <3>3. k \in Tokens /\ records[k] # None
      BY <2>1
    <3> HIDE DEF k, r
    <3>4. ASSUME NEW j \in Tokens
          PROVE  records'[j] = IF j = k THEN r ELSE records[j]
      BY <3>1 DEF TypeOK
    <3> QED BY <3>1, <3>2, <3>3, <3>4, <1>2
  <2> QED BY <2>2, <2>3
<1>10. ASSUME NEW table \in Tables, ReassignTable(table)
       PROVE  Bindings'
  <2>1. \A b \in Tables : contextVersion[b] \in Nat /\ contextVersion'[b] \in Nat
                          /\ contextVersion[b] <= contextVersion'[b]
    BY <1>10 DEF ReassignTable, TypeOK
  <2>2. UNCHANGED <<records, call>>
    BY <1>10 DEF ReassignTable
  <2>3. ASSUME NEW k \in Tokens, records[k] # None
        PROVE  records[k].table \in Tables /\ records[k].binding \in Nat
    BY <2>3, RecordFields
  <2>4. ASSUME NEW t \in Threads, call[t] # None, call[t].pc = "put"
        PROVE  call[t].table \in Tables /\ call[t].binding \in Nat
    BY <2>4, CallFields DEF TypeOK
  <2>5. ASSUME NEW t \in Threads, call[t] # None,
               call[t].pc \in {"get", "attest", "consume"}
        PROVE  call[t].token \in Tokens /\ records[call[t].token] # None
    BY <2>5, CallFields DEF TypeOK
  <2>6. \A k \in Tokens :
          records'[k] # None => records'[k].binding <= contextVersion'[records'[k].table]
    BY <2>1, <2>2, <2>3 DEF Bindings
  <2>7. \A t \in Threads :
          call'[t] # None /\ call'[t].pc = "put"
            => call'[t].binding <= contextVersion'[call'[t].table]
    BY <2>1, <2>2, <2>4 DEF Bindings
  <2>8. ASSUME NEW t \in Threads, call'[t] # None,
               call'[t].pc \in {"get", "attest", "consume"}
        PROVE  /\ call'[t].since \in Nat
               /\ RecordOf(t)'.binding <= call'[t].since
               /\ call'[t].since <= contextVersion'[RecordOf(t)'.table]
               /\ call'[t].pc = "consume" => RecordOf(t)'.binding = call'[t].since
    <3>1. call[t].since \in Nat /\ call[t].since <= contextVersion[RecordOf(t).table]
          /\ RecordOf(t).binding <= call[t].since
          /\ (call[t].pc = "consume" => RecordOf(t).binding = call[t].since)
      BY <2>2, <2>8 DEF Bindings
    <3>2. RecordOf(t).table \in Tables
      BY <2>2, <2>3, <2>5, <2>8 DEF RecordOf
    <3> QED BY <2>1, <2>2, <3>1, <3>2 DEF RecordOf
  <2> QED BY <2>6, <2>7, <2>8 DEF Bindings
<1>11. CASE Tick \/ UNCHANGED vars
  BY <1>11 DEF Tick, vars, Bindings, RecordOf
<1> QED
  BY <1>3, <1>4, <1>5, <1>6, <1>7, <1>8, <1>9, <1>10, <1>11
     DEF Next, Step, Begins

LEMMA InvariantStep == IInv /\ [Next]_vars => IInv'
  BY TypeStep, EntryStep, BindingStep DEF IInv

\* Only the call that returns can have counted an entry, and its token's table
\* still is what it was when the call began (resolve).
LEMMA NoStaleStep ==
  ASSUME TypeOK, Bindings, [Next]_vars, NEW t \in Threads,
         call[t] # None, call[t].token # None,
         entered'[call[t].token] > entered[call[t].token], call'[t] = None
  PROVE  RecordOf(t).binding = call[t].since
<1>1. call[t].token \in Tokens /\ entered[call[t].token] \in Nat
  BY CallFields DEF TypeOK
<1>2. entered' # entered
  BY <1>1
<1>3. ASSUME NEW u \in Threads, u # t, AttestContext(u) \/ Consume(u)
      PROVE  call'[t] = call[t]
  <2>1. Return(u) \/ Goto(u, "consume") => call'[t] = call[t]
    BY <1>3 DEF Goto, Return, TypeOK
  <2>2. CASE Consume(u)
    BY <2>1, <2>2 DEF Consume
  <2>3. CASE AttestContext(u)
    <3>1. call[u] # None /\ call[u].token \in Tokens /\ records[call[u].token] # None
      BY <2>3, CallFields DEF AttestContext, At, TypeOK
    <3>2. RecordOf(u).policy \in ReplayPolicy
      BY <3>1, RecordFields DEF RecordOf
    <3> QED BY <2>1, <2>3, <3>2 DEF AttestContext, ReplayPolicy
  <2> QED BY <1>3, <2>2, <2>3
<1>4. AttestContext(t) \/ Consume(t)
  BY <1>2, <1>3 DEF Next, Step, Begins, vars, AttestIssue, GetRecord, PutRecord,
       BeginIssue, BeginResolve, Begin, ReassignTable, Tick
<1>5. CASE Consume(t)
  BY <1>5 DEF Consume, At, Bindings
<1>6. CASE AttestContext(t)
  <2>1. call[t].pc = "attest" /\ Attested(t) /\ records[call[t].token] # None
    BY <1>2, <1>6 DEF AttestContext, At, TypeOK
  <2>2. RecordOf(t).binding \in Nat
    BY <1>1, <2>1, RecordFields DEF RecordOf
  <2> QED BY <2>1, <2>2 DEF Bindings, Attested
<1> QED BY <1>4, <1>5, <1>6

\* A token whose table was reassigned before a call began lets that call's
\* caller in under no interleaving with reassignments, issues and other
\* resolutions (resolve).
THEOREM NobodyEntersStale == Spec => NoStaleEntry
<1> DEFINE Held == \A t \in Threads :
             call[t] # None /\ call[t].token # None
               /\ entered'[call[t].token] > entered[call[t].token]
               /\ call'[t] = None
             => RecordOf(t).binding = call[t].since
<1>1. IInv /\ [Next]_vars => [Held]_vars
  BY NoStaleStep DEF IInv
<1>2. IInv /\ [Next]_vars => IInv'
  BY InvariantStep
<1>3. Init => IInv
  BY InitInvariant
<1>4. Spec => [][Held]_vars
  <2> HIDE DEF Held
  <2> QED BY <1>1, <1>2, <1>3, PTL DEF Spec
<1> QED BY <1>4 DEF NoStaleEntry
=============================================================================
