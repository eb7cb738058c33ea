------------------------ MODULE SessionThreads_proofs -------------------------
(* SessionThreads for any number of threads, references and calls: whatever  *)
(* overlaps, sessions stay sessions, and one loses something only to a call  *)
(* that read it before another call wrote it; and without such a late put    *)
(* each session is rotated once.                                             *)
EXTENDS SessionThreads, TLAPS

-----------------------------------------------------------------------------
(* The inductive invariants.                                                 *)

\* A call about to write knows a session that is there: none is ever removed.
\* (create has no call of its own, it is done in one acquisition.)
Knows(c) ==
  /\ Held(c) /\ c.op # "create"
  /\ c.pc \in {"put", "rotate"} => Issued(c.session)

ThreadsInv ==
  /\ StoreOK
  /\ \A t \in Threads : call[t] # None => Knows(call[t])

\* A call not overtaken is about to write back what is stored.
UpToDate(c) == c.pc \in {"put", "rotate"} => c.seen = sessions[c.session]

ReadsInv ==
  /\ ThreadsInv
  /\ \A t \in Threads : call[t] # None /\ t \notin late => UpToDate(call[t])

\* A predecessor names the successor that names it.
Chained ==
  \A x \in SessionRefs :
    Issued(x) /\ sessions[x].predecessor # None =>
      /\ Issued(sessions[x].predecessor)
      /\ sessions[sessions[x].predecessor].rotatedTo = x

ChainInv == ReadsInv /\ Chained

\* No call writes a session back that another call has written since it read
\* it: what a version compared in the store's put would give.
NoLatePut == [][\A t \in late : ~Put(t)]_vars

-----------------------------------------------------------------------------
(* Types, whatever overlaps.                                                 *)
LEMMA CallFields ==
  ASSUME ThreadsInv, NEW t \in Threads, call[t] # None
  PROVE  /\ call[t] \in Call /\ Knows(call[t])
         /\ call[t].session \in SessionRefs
         /\ call[t].pc \in {"put", "rotate"} =>
              call[t].seen \in Snapshot /\ sessions[call[t].session] \in Snapshot
  BY DEF ThreadsInv, StoreOK, Knows, Held, Call, Issued

\* A step of one call, whatever else it changes on the way.
LEMMA CallSteps ==
  ASSUME ThreadsInv, NEW t \in Threads, NEW d \in Call \cup {None},
         call' = [call EXCEPT ![t] = d],
         d # None => Knows(d)',
         sessions' \in [SessionRefs -> Snapshot \cup {None}],
         idempotent' \in [SessionRefs -> SUBSET Keys],
         calls' \in [Threads -> Nat], late' \in SUBSET Threads,
         \A s \in SessionRefs : Issued(s) => Issued(s)'
  PROVE  ThreadsInv'
<1>1. \A u \in Threads : call'[u] = IF u = t THEN d ELSE call[u]
  BY DEF ThreadsInv, StoreOK
<1>2. StoreOK'
  BY DEF ThreadsInv, StoreOK
<1>3. ASSUME NEW u \in Threads, NEW c, c = call'[u], c # None
      PROVE  Knows(c)'
  <2>1. CASE u = t
    BY <1>1, <1>3, <2>1
  <2>2. CASE u # t
    <3>1. c = call[u]
      BY <1>1, <1>3, <2>2
    <3>2. c \in Call /\ Knows(c)
      BY <1>3, <3>1, CallFields
    <3>3. c.session \in SessionRefs
      BY <3>2 DEF Call
    <3> QED BY <3>2, <3>3 DEF Knows, Held
  <2> QED BY <2>1, <2>2
<1>5. \A u \in Threads : (call[u] # None => Knows(call[u]))'
  BY <1>3 DEF Knows, Held, Issued
<1> QED BY <1>2, <1>5 DEF ThreadsInv

LEMMA IdleSteps ==
  ASSUME ThreadsInv, UNCHANGED vars
  PROVE  ThreadsInv'
  BY DEF vars, ThreadsInv, StoreOK, Knows, Held, Issued

\* A call that ends.
LEMMA ReturnSteps ==
  ASSUME ThreadsInv, NEW t \in Threads, Return(t), UNCHANGED calls,
         late' \in SUBSET Threads,
         sessions' \in [SessionRefs -> Snapshot \cup {None}],
         idempotent' \in [SessionRefs -> SUBSET Keys],
         \A s \in SessionRefs : Issued(s) => Issued(s)'
  PROVE  ThreadsInv'
<1> PICK d : d = None
  OBVIOUS
<1>1. call' = [call EXCEPT ![t] = d] /\ d \in Call \cup {None}
      /\ calls' \in [Threads -> Nat]
  BY DEF Return, ThreadsInv, StoreOK
<1> QED BY <1>1, CallSteps

\* A call that goes on with nothing read or written.
LEMMA LookupStep ==
  ASSUME ThreadsInv, NEW t \in Threads, Lookup(t)
  PROVE  /\ ThreadsInv'
         /\ Return(t) \/ call' = [call EXCEPT ![t] = [call[t] EXCEPT !.pc = "get"]]
<1>1. call[t] # None /\ call[t].pc = "lookup" /\ UNCHANGED <<shared, calls, late>>
  BY DEF Lookup, At
<1>2. /\ sessions' \in [SessionRefs -> Snapshot \cup {None}]
      /\ idempotent' \in [SessionRefs -> SUBSET Keys]
      /\ late' \in SUBSET Threads
      /\ calls' \in [Threads -> Nat] /\ UNCHANGED calls
      /\ \A s \in SessionRefs : Issued(s) => Issued(s)'
  BY <1>1 DEF shared, ThreadsInv, StoreOK, Issued
<1>3. CASE Return(t)
  BY <1>2, <1>3, ReturnSteps
<1>4. CASE Goto(t, "get")
  <2> PICK d : d = [call[t] EXCEPT !.pc = "get"]
    OBVIOUS
  <2>1. call[t] \in Call /\ Knows(call[t])
    BY <1>1, CallFields
  <2>2. d \in Call /\ d.op = call[t].op /\ d.pc = "get" /\ d.key = call[t].key
        /\ d.target = call[t].target
    BY <2>1 DEF Call
  <2>3. Knows(d)'
    BY <2>1, <2>2 DEF Knows, Held
  <2>4. call' = [call EXCEPT ![t] = d]
    BY <1>4 DEF Goto
  <2> QED BY <1>1, <1>2, <2>2, <2>3, <2>4, CallSteps
<1> QED BY <1>3, <1>4 DEF Lookup

\* What a call holds of the session it has read, before it writes.
LEMMA HoldSteps ==
  ASSUME ThreadsInv, NEW t \in Threads, At(t, "get"), NEW pc \in {"put", "rotate"},
         NEW c, c = sessions[call[t].session], c # None, Hold(t, pc, c),
         UNCHANGED <<shared, calls, late>>,
         pc = "rotate" => call[t].op = "resume" /\ c.rotatedTo = None,
         pc = "put" => call[t].op \in {"attach", "transition"},
         call[t].op = "transition" => MayMove(t, c)
  PROVE  /\ ThreadsInv'
         /\ \E d \in Call : /\ call' = [call EXCEPT ![t] = d] /\ d.pc = pc
                            /\ d.session = call[t].session /\ d.seen = c
                            /\ d.op = call[t].op
<1>1. call[t] # None /\ call[t] \in Call /\ Knows(call[t])
  BY CallFields DEF At
<1>2. c \in Snapshot
  BY <1>1 DEF ThreadsInv, StoreOK, Call
<1> PICK e : e = [call[t] EXCEPT !.pc = pc]
  OBVIOUS
<1>3. e \in Call /\ e.op = call[t].op /\ e.pc = pc /\ e.key = call[t].key
      /\ e.target = call[t].target /\ e.session = call[t].session
  BY <1>1 DEF Call
<1> PICK d : d = [e EXCEPT !.seen = c]
  OBVIOUS
<1>4. d \in Call /\ d.op = call[t].op /\ d.pc = pc /\ d.key = call[t].key
      /\ d.target = call[t].target /\ d.session = call[t].session /\ d.seen = c
  BY <1>2, <1>3 DEF Call
<1>5. call' = [call EXCEPT ![t] = d]
  BY DEF Hold
<1>6. /\ sessions' \in [SessionRefs -> Snapshot \cup {None}]
      /\ idempotent' \in [SessionRefs -> SUBSET Keys]
      /\ late' \in SUBSET Threads
      /\ calls' \in [Threads -> Nat] /\ sessions' = sessions
      /\ \A s \in SessionRefs : Issued(s) => Issued(s)'
  BY DEF shared, ThreadsInv, StoreOK, Issued
<1>7. Knows(d)'
  BY <1>1, <1>4, <1>6, NoneAssumption DEF Knows, Held, Issued, MayMove, Rotated
<1>8. ThreadsInv'
  BY <1>1, <1>4, <1>5, <1>6, <1>7, CallSteps
<1> QED BY <1>4, <1>5, <1>8

LEMMA GetStep ==
  ASSUME ThreadsInv, NEW t \in Threads, Get(t)
  PROVE  /\ ThreadsInv'
         /\ \/ Return(t)
            \/ \E d \in Call :
                 /\ call' = [call EXCEPT ![t] = d]
                 /\ d.session = call[t].session /\ d.op = call[t].op
                 /\ d.seen = sessions[d.session] /\ d.seen # None
                 /\ \/ d.pc = "put"
                    \/ d.pc = "rotate" /\ d.seen.rotatedTo = None
<1> PICK c : c = sessions[call[t].session]
  OBVIOUS
<1>1. At(t, "get") /\ UNCHANGED <<shared, calls, late>>
  BY DEF Get
<1>2. /\ sessions' \in [SessionRefs -> Snapshot \cup {None}]
      /\ idempotent' \in [SessionRefs -> SUBSET Keys] /\ UNCHANGED calls
      /\ late' \in SUBSET Threads
      /\ \A s \in SessionRefs : Issued(s) => Issued(s)'
  BY <1>1 DEF shared, ThreadsInv, StoreOK, Issued
<1>3. CASE Return(t)
  BY <1>2, <1>3, ReturnSteps
<1>4. CASE c # None /\ call[t].op = "attach" /\ Hold(t, "put", c)
  BY <1>1, <1>4, HoldSteps
<1>5. CASE c # None /\ call[t].op = "resume" /\ ~Rotated(c) /\ Hold(t, "rotate", c)
  BY <1>1, <1>5, HoldSteps DEF Rotated
<1>6. CASE c # None /\ call[t].op = "transition" /\ MayMove(t, c) /\ Hold(t, "put", c)
  BY <1>1, <1>6, HoldSteps
<1>7. call[t].op \in {"attach", "resume", "transition"}
  BY <1>1, CallFields DEF At, Knows, Call, AllOps
<1>8. CASE c = None
  BY <1>3, <1>8 DEF Get
<1>9. CASE c # None /\ call[t].op = "attach"
  BY <1>4, <1>9 DEF Get
<1>10. CASE c # None /\ call[t].op = "resume"
  BY <1>3, <1>5, <1>10 DEF Get
<1>11. CASE c # None /\ call[t].op = "transition"
  BY <1>3, <1>6, <1>11 DEF Get
<1> QED BY <1>7, <1>8, <1>9, <1>10, <1>11

LEMMA UpdatedType ==
  ASSUME ThreadsInv, NEW t \in Threads, At(t, "put")
  PROVE  /\ Updated(t) \in Snapshot
         /\ Updated(t).predecessor = call[t].seen.predecessor
         /\ Updated(t).rotatedTo = call[t].seen.rotatedTo
         /\ \/ Updated(t).state = call[t].seen.state
            \/ Updated(t).state \in Transitions[call[t].seen.state]
         /\ Updated(t).count >= call[t].seen.count
         /\ \/ Updated(t).cart = call[t].seen.cart
            \/ call[t].op = "attach" /\ call[t].cart = Updated(t).cart
<1> PICK c : c = call[t].seen
  OBVIOUS
<1>1. call[t] # None /\ call[t] \in Call /\ Held(call[t]) /\ c \in Snapshot
      /\ call[t].op \in {"attach", "transition"}
  BY CallFields DEF At, Knows, Held
<1>2. CASE call[t].op = "attach"
  <2> PICK k : k = IF call[t].cart = None THEN c.cart ELSE call[t].cart
    OBVIOUS
  <2>1. k \in CartRefs \cup {None}
    BY <1>1 DEF Call, Snapshot
  <2>2. Updated(t) = [c EXCEPT !.cart = k]
    BY <1>2 DEF Updated
  <2>3. [c EXCEPT !.cart = k] \in Snapshot
        /\ [c EXCEPT !.cart = k].predecessor = c.predecessor
        /\ [c EXCEPT !.cart = k].rotatedTo = c.rotatedTo
        /\ [c EXCEPT !.cart = k].state = c.state
        /\ [c EXCEPT !.cart = k].cart = k
        /\ [c EXCEPT !.cart = k].count = c.count /\ c.count \in Nat
    BY <1>1, <2>1 DEF Snapshot
  <2> QED BY <1>2, <2>2, <2>3
<1>3. CASE call[t].op = "transition"
  <2> PICK l : l = call[t].target
    OBVIOUS
  <2> PICK n : n = c.count + 1
    OBVIOUS
  <2>1. l \in ChannelState /\ n \in Nat
    BY <1>1, <1>3 DEF Call, Held, Snapshot
  <2>4. l \in Transitions[c.state]
    BY <1>1, <1>3 DEF Held, At
  <2>2. Updated(t) = [c EXCEPT !.state = l, !.count = n]
    BY <1>3 DEF Updated
  <2>3. [c EXCEPT !.state = l, !.count = n] \in Snapshot
        /\ [c EXCEPT !.state = l, !.count = n].predecessor = c.predecessor
        /\ [c EXCEPT !.state = l, !.count = n].rotatedTo = c.rotatedTo
        /\ [c EXCEPT !.state = l, !.count = n].state = l
        /\ [c EXCEPT !.state = l, !.count = n].cart = c.cart
        /\ [c EXCEPT !.state = l, !.count = n].count = n /\ c.count \in Nat
    BY <1>1, <2>1 DEF Snapshot
  <2> QED BY <2>2, <2>3, <2>4
<1> QED BY <1>1, <1>2, <1>3

LEMMA PutStep ==
  ASSUME ThreadsInv, NEW t \in Threads, Put(t)
  PROVE  ThreadsInv'
<1>1. call[t] # None /\ call[t] \in Call /\ Held(call[t]) /\ call[t].pc = "put"
      /\ call[t].session \in SessionRefs /\ call[t].op \in {"attach", "transition"}
  BY CallFields DEF Put, At, Knows, Held
<1> PICK d : d = Updated(t)
  OBVIOUS
<1>2. d \in Snapshot /\ d # None
  BY UpdatedType, NoneAssumption DEF Put
<1>3. /\ sessions' = [sessions EXCEPT ![call[t].session] = d]
      /\ UNCHANGED <<idempotent, calls>>
  BY DEF Put
<1>4. /\ sessions' \in [SessionRefs -> Snapshot \cup {None}]
      /\ idempotent' \in [SessionRefs -> SUBSET Keys]
      /\ late' \in SUBSET Threads
      /\ calls' \in [Threads -> Nat] /\ UNCHANGED calls
      /\ \A s \in SessionRefs : Issued(s) => Issued(s)'
  BY <1>1, <1>2, <1>3 DEF ThreadsInv, StoreOK, Issued, Put, Overtaken
<1>5. CASE Return(t)
  BY <1>4, <1>5, ReturnSteps
<1>6. CASE call[t].op = "transition" /\ Goto(t, "record")
  <2> PICK e : e = [call[t] EXCEPT !.pc = "record"]
    OBVIOUS
  <2>1. e \in Call /\ e.op = call[t].op /\ e.pc = "record" /\ e.key = call[t].key
        /\ e.target = call[t].target
    BY <1>1 DEF Call
  <2>2. Knows(e)'
    BY <1>1, <1>6, <2>1 DEF Knows, Held
  <2>3. call' = [call EXCEPT ![t] = e]
    BY <1>6 DEF Goto
  <2> QED BY <1>1, <1>4, <2>1, <2>2, <2>3, CallSteps
<1> QED BY <1>1, <1>5, <1>6 DEF Put

LEMMA RecordStep ==
  ASSUME ThreadsInv, NEW t \in Threads, RecordResult(t)
  PROVE  ThreadsInv'
<1>1. call[t] # None /\ call[t] \in Call /\ Held(call[t]) /\ call[t].pc = "record"
      /\ call[t].session \in SessionRefs
  BY CallFields DEF RecordResult, At, Knows
<1>2. ThreadsInv /\ Return(t) /\ UNCHANGED <<sessions, calls, late>>
      /\ idempotent' = [idempotent EXCEPT
                          ![call[t].session] = @ \cup {call[t].key}]
  BY DEF RecordResult
<1>3. CASE call[t].key \in Keys
  <2>1. /\ sessions' \in [SessionRefs -> Snapshot \cup {None}]
        /\ idempotent' \in [SessionRefs -> SUBSET Keys] /\ UNCHANGED calls
      /\ late' \in SUBSET Threads
        /\ \A s \in SessionRefs : Issued(s) => Issued(s)'
    BY <1>1, <1>2, <1>3 DEF ThreadsInv, StoreOK, Issued
  <2> QED BY <1>2, <2>1, ReturnSteps
<1>4. call[t].key \in Keys
  BY <1>1 DEF Held, Call
<1> QED BY <1>3, <1>4

\* A rotation writes the predecessor back with its successor, and its copy.
LEMMA RotateFrame ==
  ASSUME ThreadsInv, NEW t \in Threads, NEW fresh \in SessionRefs,
         RotateIfActive(t, fresh)
  PROVE  \E s \in SessionRefs, old, new, c \in Snapshot :
           /\ s = call[t].session /\ sessions[s] \in Snapshot /\ Issued(s)
           /\ ~Issued(fresh) /\ sessions[s].rotatedTo = None /\ s # fresh
           /\ sessions' = [sessions EXCEPT ![s] = old, ![fresh] = new]
           /\ old = [sessions[s] EXCEPT !.rotatedTo = fresh]
           /\ old.rotatedTo = fresh /\ old.predecessor = sessions[s].predecessor
           /\ c = call[t].seen /\ new.predecessor = s /\ new.rotatedTo = None
           /\ new.state = c.state /\ new.cart = c.cart /\ new.count = c.count
<1> PICK s : s = call[t].session
  OBVIOUS
<1> PICK c : c = call[t].seen
  OBVIOUS
<1> PICK was : was = sessions[s]
  OBVIOUS
<1>1. s \in SessionRefs /\ c \in Snapshot /\ was \in Snapshot /\ Issued(s)
  BY CallFields DEF RotateIfActive, At, Knows
<1>2. ~Issued(fresh) /\ was.rotatedTo = None /\ s # fresh
  BY <1>1 DEF RotateIfActive, Rotatable, Rotated
<1> PICK old : old = [was EXCEPT !.rotatedTo = fresh]
  OBVIOUS
<1> PICK n : n = c.generation + 1
  OBVIOUS
<1> PICK new : new = [c EXCEPT !.predecessor = s, !.rotatedTo = None, !.generation = n]
  OBVIOUS
<1>3. n \in Nat
  BY <1>1 DEF Snapshot
<1>4. old \in Snapshot /\ old.rotatedTo = fresh /\ old.predecessor = was.predecessor
  BY <1>1 DEF Snapshot
<1>5. new \in Snapshot /\ new.predecessor = s /\ new.rotatedTo = None
      /\ new.state = c.state /\ new.cart = c.cart /\ new.count = c.count
  BY <1>1, <1>3 DEF Snapshot
<1>6. new = Replacement(t)
  BY DEF Replacement
<1>7. sessions' = [sessions EXCEPT ![s] = old, ![fresh] = new]
  BY <1>6 DEF RotateIfActive
<1>8. /\ s = call[t].session /\ sessions[s] \in Snapshot /\ Issued(s)
      /\ ~Issued(fresh) /\ sessions[s].rotatedTo = None /\ s # fresh
      /\ sessions' = [sessions EXCEPT ![s] = old, ![fresh] = new]
      /\ old = [sessions[s] EXCEPT !.rotatedTo = fresh]
      /\ old.rotatedTo = fresh /\ old.predecessor = sessions[s].predecessor
      /\ c = call[t].seen /\ new.predecessor = s /\ new.rotatedTo = None
      /\ new.state = c.state /\ new.cart = c.cart /\ new.count = c.count
  BY <1>1, <1>2, <1>4, <1>5, <1>7
<1>9. s \in SessionRefs /\ old \in Snapshot /\ new \in Snapshot /\ c \in Snapshot
  BY <1>1, <1>4, <1>5
<1> QED BY ONLY <1>8, <1>9

LEMMA RotateStep ==
  ASSUME ThreadsInv, NEW t \in Threads, NEW fresh \in SessionRefs,
         RotateIfActive(t, fresh)
  PROVE  ThreadsInv'
<1>1. PICK s \in SessionRefs, old \in Snapshot, new \in Snapshot :
        sessions' = [sessions EXCEPT ![s] = old, ![fresh] = new]
  BY RotateFrame
<1>2. Return(t) /\ UNCHANGED <<idempotent, calls>> /\ old # None /\ new # None
  BY NoneAssumption DEF RotateIfActive
<1>3. /\ sessions' \in [SessionRefs -> Snapshot \cup {None}]
      /\ \A x \in SessionRefs : Issued(x) => Issued(x)'
  BY <1>1, <1>2 DEF ThreadsInv, StoreOK, Issued
<1>4. idempotent' \in [SessionRefs -> SUBSET Keys] /\ UNCHANGED calls
      /\ late' \in SUBSET Threads
  BY <1>2 DEF ThreadsInv, StoreOK, RotateIfActive, Overtaken
<1> QED BY <1>2, <1>3, <1>4, ReturnSteps

LEMMA RefusedStep ==
  ASSUME ThreadsInv, NEW t \in Threads, RotateRefused(t)
  PROVE  ThreadsInv'
<1>1. /\ Return(t) /\ UNCHANGED <<shared, calls>>
      /\ late' \in SUBSET Threads
  BY DEF RotateRefused, ThreadsInv, StoreOK
<1>2. /\ sessions' \in [SessionRefs -> Snapshot \cup {None}]
      /\ idempotent' \in [SessionRefs -> SUBSET Keys] /\ UNCHANGED calls
      /\ late' \in SUBSET Threads
      /\ \A s \in SessionRefs : Issued(s) => Issued(s)'
  BY <1>1 DEF shared, ThreadsInv, StoreOK, Issued
<1> QED BY <1>1, <1>2, ReturnSteps

\* A session as create_session puts it.
LEMMA CreateFrame ==
  ASSUME ThreadsInv, NEW t \in Threads, NEW s \in SessionRefs, CreateSession(t, s)
  PROVE  \E d \in Snapshot :
           /\ ~Issued(s) /\ sessions' = [sessions EXCEPT ![s] = d]
           /\ d.predecessor = None /\ d.rotatedTo = None
           /\ UNCHANGED call
<1> PICK d : d = [state |-> "start", cart |-> None, count |-> 0, generation |-> 0,
                  predecessor |-> None, rotatedTo |-> None]
  OBVIOUS
<1>1. "start" \in ChannelState
  BY DEF ChannelState
<1>2. d \in Snapshot /\ d.predecessor = None /\ d.rotatedTo = None
  BY <1>1 DEF Snapshot
<1> QED BY <1>2 DEF CreateSession

LEMMA CreateStep ==
  ASSUME ThreadsInv, NEW t \in Threads, NEW s \in SessionRefs, CreateSession(t, s)
  PROVE  ThreadsInv'
<1>1. PICK d \in Snapshot : /\ sessions' = [sessions EXCEPT ![s] = d]
                            /\ UNCHANGED call
  BY CreateFrame
<1> PICK e : e = call[t]
  OBVIOUS
<1>2. e = None /\ e \in Call \cup {None} /\ call' = [call EXCEPT ![t] = e]
  BY <1>1 DEF CreateSession, MayBegin, Idle, ThreadsInv, StoreOK
<1>3. /\ sessions' \in [SessionRefs -> Snapshot \cup {None}]
      /\ idempotent' \in [SessionRefs -> SUBSET Keys]
      /\ late' \in SUBSET Threads
      /\ calls' \in [Threads -> Nat]
      /\ \A x \in SessionRefs : Issued(x) => Issued(x)'
  BY <1>1, NoneAssumption DEF CreateSession, ThreadsInv, StoreOK, Issued
<1> QED BY <1>2, <1>3, CallSteps

LEMMA BeginStep ==
  ASSUME ThreadsInv, NEW t \in Threads, NEW s \in SessionRefs,
         NEW op \in {"resume", "attach", "transition"}, NEW pc \in {"lookup", "get"},
         NEW target \in ChannelState \cup {None}, NEW key \in Keys \cup {None},
         NEW cart \in CartRefs \cup {None},
         op = "transition" => key # None /\ target # None,
         Begin(t, op, pc, s, target, key, cart)
  PROVE  /\ ThreadsInv'
         /\ \E d \in Call : /\ call' = [call EXCEPT ![t] = d]
                            /\ d.pc \in {"lookup", "get"}
<1> PICK d : d = [pc |-> pc, op |-> op, session |-> s, target |-> target,
                  key |-> key, cart |-> cart, seen |-> None]
  OBVIOUS
<1>1. d \in Call /\ d.pc = pc /\ d.op = op /\ d.key = key /\ d.target = target
  BY DEF Call, AllOps
<1>2. call[t] = None /\ call' = [call EXCEPT ![t] = d] /\ UNCHANGED <<shared, late>>
  BY DEF Begin, MayBegin, Idle
<1>3. Knows(d)'
  BY <1>1 DEF Knows, Held
<1>4. /\ sessions' \in [SessionRefs -> Snapshot \cup {None}]
      /\ idempotent' \in [SessionRefs -> SUBSET Keys]
      /\ late' \in SUBSET Threads
      /\ calls' \in [Threads -> Nat]
      /\ \A x \in SessionRefs : Issued(x) => Issued(x)'
  BY <1>2 DEF Begin, shared, ThreadsInv, StoreOK, Issued
<1>5. ThreadsInv'
  BY <1>1, <1>2, <1>3, <1>4, CallSteps
<1> QED BY <1>1, <1>2, <1>5

LEMMA EnterStep ==
  ASSUME ThreadsInv, NEW t \in Threads, NEW s \in SessionRefs, Enter(t, s)
  PROVE  /\ ThreadsInv'
         /\ \/ CreateSession(t, s)
            \/ /\ UNCHANGED <<shared, late>>
               /\ \E d \in Call : /\ call' = [call EXCEPT ![t] = d]
                                  /\ d.pc \in {"lookup", "get"}
<1>1. CASE CreateSession(t, s)
  BY <1>1, CreateStep
<1>2. CASE BeginResume(t, s)
  BY <1>2, BeginStep DEF BeginResume, Begin
<1>3. ASSUME NEW cart \in CartRefs, BeginAttach(t, s, cart)
      PROVE  /\ ThreadsInv' /\ UNCHANGED <<shared, late>>
             /\ \E d \in Call : /\ call' = [call EXCEPT ![t] = d]
                                /\ d.pc \in {"lookup", "get"}
  BY <1>3, BeginStep DEF BeginAttach, Begin
<1>4. ASSUME NEW target \in Targets, NEW key \in Keys, BeginTransition(t, s, target, key)
      PROVE  /\ ThreadsInv' /\ UNCHANGED <<shared, late>>
             /\ \E d \in Call : /\ call' = [call EXCEPT ![t] = d]
                                /\ d.pc \in {"lookup", "get"}
  <2>1. target \in ChannelState /\ target # None /\ key # None
    BY ThreadsAssumption, NoneAssumption
  <2> QED BY <1>4, <2>1, BeginStep DEF BeginTransition, Begin
<1> QED BY <1>1, <1>2, <1>3, <1>4 DEF Enter

LEMMA ThreadsInit == Init => ThreadsInv
  BY DEF Init, ThreadsInv, StoreOK

LEMMA ThreadsStep == ThreadsInv /\ [Next]_vars => ThreadsInv'
<1>1. ASSUME ThreadsInv, NEW t \in Threads, Step(t) PROVE ThreadsInv'
  BY <1>1, LookupStep, GetStep, PutStep, RecordStep, RefusedStep, RotateStep DEF Step
<1> QED BY <1>1, EnterStep, IdleSteps DEF Next

LEMMA ThreadsInvariant == Spec => []ThreadsInv
  BY ThreadsInit, ThreadsStep, PTL DEF Spec

\* Whatever overlaps, the store holds sessions, and a call writes only to a
\* session there is, what the matrix allowed for the snapshot it read.
THEOREM TypeCorrect == Spec => []TypeOK
<1>1. ThreadsInv => TypeOK
  BY DEF ThreadsInv, TypeOK, Knows
<1> QED BY <1>1, ThreadsInvariant, PTL

-----------------------------------------------------------------------------
(* What a call that was not overtaken writes back is what is stored.         *)

\* A step of one call that leaves the sessions as they are.
LEMMA QuietSteps ==
  ASSUME ReadsInv, ThreadsInv', NEW t \in Threads, NEW d,
         call' = [call EXCEPT ![t] = d], sessions' = sessions,
         late' = late \/ (late' = late \ {t} /\ d = None),
         d # None => UpToDate(d)
  PROVE  ReadsInv'
<1>1. \A u \in Threads : call'[u] = IF u = t THEN d ELSE call[u]
  BY DEF ReadsInv, ThreadsInv, StoreOK
<1>2. ASSUME NEW u \in Threads, NEW c, c = call'[u], c # None, u \notin late'
      PROVE  UpToDate(c)'
  BY <1>1, <1>2 DEF ReadsInv, UpToDate
<1>3. \A u \in Threads : (call[u] # None /\ u \notin late => UpToDate(call[u]))'
  BY <1>2 DEF UpToDate
<1> QED BY <1>3 DEF ReadsInv

\* A call that writes one session, and perhaps issues another, overtakes those
\* that hold a snapshot of it.
LEMMA WriteSteps ==
  ASSUME ReadsInv, ThreadsInv', NEW t \in Threads, NEW d,
         call' = [call EXCEPT ![t] = d],
         d # None => d.pc \notin {"put", "rotate"},
         late' = (late \cup Overtaken(t)) \ {t},
         \A s \in SessionRefs :
           Issued(s) /\ s # call[t].session => sessions'[s] = sessions[s]
  PROVE  ReadsInv'
<1>1. \A u \in Threads : call'[u] = IF u = t THEN d ELSE call[u]
  BY DEF ReadsInv, ThreadsInv, StoreOK
<1>2. ASSUME NEW u \in Threads, NEW c, c = call'[u], c # None, u \notin late'
      PROVE  UpToDate(c)'
  <2>1. CASE u = t
    BY <1>1, <1>2, <2>1 DEF UpToDate
  <2>2. CASE u # t
    <3>1. c = call[u] /\ u \notin late /\ u \notin Overtaken(t)
      BY <1>1, <1>2, <2>2
    <3>2. /\ UpToDate(c) /\ c.session \in SessionRefs
          /\ c.pc \in {"put", "rotate"} => Issued(c.session)
      BY <1>2, <3>1, CallFields DEF ReadsInv, Knows
    <3>3. c.pc \in {"put", "rotate"} => c.session # call[t].session
      BY <1>2, <3>1 DEF Overtaken, At
    <3> QED BY <3>2, <3>3 DEF UpToDate
  <2> QED BY <2>1, <2>2
<1>3. \A u \in Threads : (call[u] # None /\ u \notin late => UpToDate(call[u]))'
  BY <1>2 DEF UpToDate
<1> QED BY <1>3 DEF ReadsInv

LEMMA ReadsPut ==
  ASSUME ReadsInv, NEW t \in Threads, Put(t)
  PROVE  ReadsInv'
<1>1. ThreadsInv /\ ThreadsInv' /\ call[t] # None
      /\ late' = (late \cup Overtaken(t)) \ {t}
  BY PutStep DEF ReadsInv, Put, At
<1>2. \A s \in SessionRefs : s # call[t].session => sessions'[s] = sessions[s]
  BY <1>1 DEF Put, ThreadsInv, StoreOK
<1>3. CASE Return(t)
  BY <1>1, <1>2, <1>3, WriteSteps DEF Return
<1>4. CASE Goto(t, "record")
  <2> PICK d : d = [call[t] EXCEPT !.pc = "record"]
    OBVIOUS
  <2>1. call[t] \in Call
    BY <1>1, CallFields
  <2>2. d.pc \notin {"put", "rotate"} /\ call' = [call EXCEPT ![t] = d]
    BY <1>4, <2>1 DEF Call, Goto
  <2> QED BY <1>1, <1>2, <2>2, WriteSteps
<1> QED BY <1>3, <1>4 DEF Put

LEMMA ReadsRotate ==
  ASSUME ReadsInv, NEW t \in Threads, NEW fresh \in SessionRefs,
         RotateIfActive(t, fresh)
  PROVE  ReadsInv'
<1>1. ThreadsInv /\ ThreadsInv' /\ Return(t)
      /\ late' = (late \cup Overtaken(t)) \ {t}
  BY RotateStep DEF ReadsInv, RotateIfActive
<1>2. PICK s \in SessionRefs, old \in Snapshot, new \in Snapshot :
        /\ s = call[t].session /\ ~Issued(fresh)
        /\ sessions' = [sessions EXCEPT ![s] = old, ![fresh] = new]
  BY <1>1, RotateFrame
<1>3. \A x \in SessionRefs : Issued(x) /\ x # call[t].session => sessions'[x] = sessions[x]
  BY <1>1, <1>2 DEF ThreadsInv, StoreOK
<1> QED BY <1>1, <1>3, WriteSteps DEF Return

LEMMA ReadsCreate ==
  ASSUME ReadsInv, NEW t \in Threads, NEW s \in SessionRefs, CreateSession(t, s)
  PROVE  ReadsInv'
<1>1. ThreadsInv /\ ThreadsInv' /\ late' = late
  BY CreateStep DEF ReadsInv, CreateSession
<1>2. PICK d \in Snapshot :
        ~Issued(s) /\ sessions' = [sessions EXCEPT ![s] = d] /\ UNCHANGED call
  BY <1>1, CreateFrame
<1>3. ASSUME NEW u \in Threads, NEW c, c = call[u], c # None, u \notin late
      PROVE  UpToDate(c)'
  <2>1. UpToDate(c) /\ c.session \in SessionRefs
        /\ (c.pc \in {"put", "rotate"} => Issued(c.session))
    BY <1>1, <1>3, CallFields DEF ReadsInv, Knows
  <2> QED BY <1>1, <1>2, <2>1 DEF UpToDate, ThreadsInv, StoreOK
<1>4. \A u \in Threads : (call[u] # None /\ u \notin late => UpToDate(call[u]))'
  BY <1>1, <1>2, <1>3 DEF UpToDate
<1> QED BY <1>1, <1>4 DEF ReadsInv

\* What a call read under the lock is what is stored.
LEMMA ReadsGet ==
  ASSUME ReadsInv, NEW t \in Threads, Get(t)
  PROVE  ReadsInv'
<1>1. ThreadsInv /\ ThreadsInv' /\ sessions' = sessions /\ late' = late
  BY GetStep DEF ReadsInv, Get, shared
<1>2. CASE Return(t)
  BY <1>1, <1>2, QuietSteps DEF Return
<1>3. ASSUME NEW d \in Call, call' = [call EXCEPT ![t] = d],
             d.seen = sessions[d.session]
      PROVE  ReadsInv'
  <2>1. UpToDate(d)
    BY <1>3 DEF UpToDate
  <2> QED BY <1>1, <1>3, <2>1, QuietSteps
<1> QED BY <1>1, <1>2, <1>3, GetStep

LEMMA ReadsLookup ==
  ASSUME ReadsInv, NEW t \in Threads, Lookup(t)
  PROVE  ReadsInv'
<1>1. ThreadsInv /\ ThreadsInv' /\ sessions' = sessions /\ late' = late
  BY LookupStep DEF ReadsInv, Lookup, shared
<1>2. CASE Return(t)
  BY <1>1, <1>2, QuietSteps DEF Return
<1>3. CASE call' = [call EXCEPT ![t] = [call[t] EXCEPT !.pc = "get"]]
  <2> PICK d : d = [call[t] EXCEPT !.pc = "get"]
    OBVIOUS
  <2>1. call[t] \in Call
    BY <1>1, CallFields DEF Lookup, At
  <2>2. d.pc = "get"
    BY <2>1 DEF Call
  <2>3. UpToDate(d)
    BY <2>2 DEF UpToDate
  <2> QED BY <1>1, <1>3, <2>3, QuietSteps
<1> QED BY <1>1, <1>2, <1>3, LookupStep

LEMMA ReadsEnds ==
  ASSUME ReadsInv, NEW t \in Threads, RecordResult(t) \/ RotateRefused(t)
  PROVE  ReadsInv'
<1>1. ThreadsInv' /\ sessions' = sessions /\ Return(t)
      /\ (late' = late \/ late' = late \ {t})
  BY RecordStep, RefusedStep DEF ReadsInv, RecordResult, RotateRefused, shared
<1> QED BY <1>1, QuietSteps DEF Return

LEMMA ReadsEnter ==
  ASSUME ReadsInv, NEW t \in Threads, NEW s \in SessionRefs, Enter(t, s)
  PROVE  ReadsInv'
<1>1. ThreadsInv /\ ThreadsInv'
  BY EnterStep DEF ReadsInv
<1>2. ASSUME NEW d \in Call, call' = [call EXCEPT ![t] = d],
             d.pc \in {"lookup", "get"}, UNCHANGED <<shared, late>>
      PROVE  ReadsInv'
  <2>1. UpToDate(d) /\ sessions' = sessions /\ late' = late
    BY <1>2 DEF UpToDate, shared
  <2> QED BY <1>1, <1>2, <2>1, QuietSteps
<1> QED BY <1>1, <1>2, EnterStep, ReadsCreate

LEMMA ReadsIdle == ASSUME ReadsInv, UNCHANGED vars PROVE ReadsInv'
<1>1. ThreadsInv'
  BY IdleSteps DEF ReadsInv
<1> QED BY <1>1 DEF ReadsInv, vars, UpToDate

LEMMA ReadsStep == ReadsInv /\ [Next]_vars => ReadsInv'
<1>1. ASSUME ReadsInv, NEW t \in Threads, Step(t) PROVE ReadsInv'
  BY <1>1, ReadsLookup, ReadsGet, ReadsPut, ReadsEnds, ReadsRotate DEF Step
<1> QED BY <1>1, ReadsEnter, ReadsIdle DEF Next

LEMMA ReadsInvariant == Spec => []ReadsInv
<1>1. Init => ReadsInv
  BY ThreadsInit DEF Init, ReadsInv
<1>2. ReadsInv /\ [Next]_vars => ReadsInv'
  BY ReadsStep
<1> QED BY <1>1, <1>2, PTL DEF Spec

\* A call puts a session, rotates one, issues one, or leaves them all.
LEMMA StepKinds ==
  ASSUME ThreadsInv, Next
  PROVE  \/ sessions' = sessions
         \/ \E t \in Threads : Put(t)
         \/ \E t \in Threads, fresh \in SessionRefs : RotateIfActive(t, fresh)
         \/ \E t \in Threads, s \in SessionRefs : CreateSession(t, s)
<1>1. ASSUME NEW t \in Threads, Lookup(t) \/ Get(t) \/ RecordResult(t) \/ RotateRefused(t)
      PROVE  sessions' = sessions
  BY <1>1 DEF Lookup, Get, RecordResult, RotateRefused, shared
<1>2. ASSUME NEW t \in Threads, NEW s \in SessionRefs, Enter(t, s), ~CreateSession(t, s)
      PROVE  sessions' = sessions
  BY <1>2, EnterStep DEF shared
<1> QED BY <1>1, <1>2 DEF Next, Step

-----------------------------------------------------------------------------
(* What a session loses, and to whom.                                        *)

\* A put by a call that was not overtaken changes what the call is for.
LEMMA FreshPut ==
  ASSUME ReadsInv, NEW t \in Threads, Put(t), t \notin late
  PROVE  \E s \in SessionRefs, d \in Snapshot :
           /\ s = call[t].session /\ sessions[s] \in Snapshot /\ Issued(s)
           /\ sessions' = [sessions EXCEPT ![s] = d]
           /\ d.predecessor = sessions[s].predecessor
           /\ d.rotatedTo = sessions[s].rotatedTo
           /\ d.state = sessions[s].state \/ d.state \in Transitions[sessions[s].state]
           /\ d.count >= sessions[s].count
           /\ d.cart = sessions[s].cart \/ (call[t].op = "attach" /\ call[t].cart = d.cart)
<1>1. ThreadsInv /\ At(t, "put") /\ call[t] # None /\ call[t].pc = "put"
  BY DEF ReadsInv, Put, At
<1> PICK s : s = call[t].session
  OBVIOUS
<1> PICK d : d = Updated(t)
  OBVIOUS
<1>2. s \in SessionRefs /\ sessions[s] \in Snapshot /\ Issued(s)
      /\ sessions[s] = call[t].seen
  BY <1>1, CallFields DEF ReadsInv, UpToDate, Knows
<1>3. /\ d \in Snapshot /\ d.predecessor = sessions[s].predecessor
      /\ d.rotatedTo = sessions[s].rotatedTo
      /\ d.state = sessions[s].state \/ d.state \in Transitions[sessions[s].state]
      /\ d.count >= sessions[s].count
      /\ d.cart = sessions[s].cart \/ (call[t].op = "attach" /\ call[t].cart = d.cart)
  BY <1>1, <1>2, UpdatedType
<1>4. sessions' = [sessions EXCEPT ![s] = d]
  BY DEF Put
<1> QED BY <1>2, <1>3, <1>4

LEMMA PutLoses ==
  ASSUME ReadsInv, NEW t \in Threads, Put(t), NEW x \in SessionRefs, Issued(x)
  PROVE  StepKeeps(x) \/ \E u \in late : call[u].session = x /\ call'[u] # call[u]
<1>1. ThreadsInv /\ call[t] # None /\ call[t] \in Call /\ call[t].pc = "put"
      /\ DOMAIN sessions = SessionRefs /\ sessions[x] \in Snapshot
  BY CallFields DEF ReadsInv, Put, At, ThreadsInv, StoreOK, Issued
<1>2. call'[t] # call[t]
  <2>1. CASE Return(t)
    BY <1>1, <2>1 DEF Return, ThreadsInv, StoreOK
  <2>2. CASE Goto(t, "record")
    <3>1. [call[t] EXCEPT !.pc = "record"].pc = "record"
      BY <1>1 DEF Call
    <3>2. call'[t] = [call[t] EXCEPT !.pc = "record"]
      BY <1>1, <2>2 DEF Goto, ThreadsInv, StoreOK
    <3> QED BY <1>1, <3>1, <3>2
  <2> QED BY <2>1, <2>2 DEF Put
<1>3. CASE x # call[t].session
  <2>1. sessions'[x] = sessions[x]
    BY <1>1, <1>3 DEF Put
  <2> QED BY <1>1, <2>1 DEF StepKeeps, Snapshot, Rotated
<1>4. CASE t \in late /\ x = call[t].session
  BY <1>2, <1>4
<1>5. CASE t \notin late /\ x = call[t].session
  <2>1. PICK d \in Snapshot :
          /\ sessions' = [sessions EXCEPT ![x] = d]
          /\ d.rotatedTo = sessions[x].rotatedTo
          /\ d.state = sessions[x].state \/ d.state \in Transitions[sessions[x].state]
          /\ d.count >= sessions[x].count
          /\ d.cart = sessions[x].cart \/ (call[t].op = "attach" /\ call[t].cart = d.cart)
    BY <1>5, FreshPut
  <2>2. sessions'[x] = d
    BY <1>1, <2>1
  <2> QED BY <1>2, <2>1, <2>2 DEF StepKeeps, Rotated
<1> QED BY <1>3, <1>4, <1>5

LEMMA RotateLoses ==
  ASSUME ReadsInv, NEW t \in Threads, NEW fresh \in SessionRefs,
         RotateIfActive(t, fresh), NEW x \in SessionRefs, Issued(x)
  PROVE  StepKeeps(x) \/ \E u \in late : call[u].session = x /\ call'[u] # call[u]
<1>1. ThreadsInv /\ call[t] # None /\ call[t].pc = "rotate"
      /\ DOMAIN sessions = SessionRefs /\ sessions[x] \in Snapshot
      /\ call'[t] = None
  BY DEF ReadsInv, RotateIfActive, At, ThreadsInv, StoreOK, Issued, Return
<1>2. PICK s \in SessionRefs, old \in Snapshot, new \in Snapshot, c \in Snapshot :
        /\ s = call[t].session /\ sessions[s] \in Snapshot
        /\ ~Issued(fresh) /\ sessions[s].rotatedTo = None /\ s # fresh
        /\ sessions' = [sessions EXCEPT ![s] = old, ![fresh] = new]
        /\ old = [sessions[s] EXCEPT !.rotatedTo = fresh]
        /\ old.rotatedTo = fresh /\ c = call[t].seen
        /\ new.state = c.state /\ new.cart = c.cart /\ new.count = c.count
  BY <1>1, RotateFrame
<1>3. CASE x # s
  <2>1. sessions'[x] = sessions[x]
    BY <1>1, <1>2, <1>3
  <2> QED BY <1>1, <2>1 DEF StepKeeps, Snapshot, Rotated
<1>4. CASE t \in late /\ x = s
  BY <1>1, <1>2, <1>4
<1>5. CASE t \notin late /\ x = s
  <2>1. c = sessions[x]
    BY <1>1, <1>2, <1>5 DEF ReadsInv, UpToDate
  <2>2. sessions'[x] = old /\ sessions'[fresh] = new
    BY <1>1, <1>2, <1>5
  <2>3. old.state = sessions[x].state /\ old.cart = sessions[x].cart
        /\ old.count = sessions[x].count /\ sessions[x].count \in Nat
    BY <1>1, <1>2, <1>5 DEF Snapshot
  <2>4. old.count >= sessions[x].count
    BY <2>3
  <2>5. old.rotatedTo = fresh /\ sessions[x].rotatedTo = None
    BY <1>2, <1>5
  <2>6. new.state = sessions[x].state /\ new.cart = sessions[x].cart
        /\ new.count = sessions[x].count
    BY <1>2, <2>1
  <2>7. sessions'[sessions'[x].rotatedTo] = new
    BY <2>2, <2>5
  <2> QED BY <2>2, <2>3, <2>4, <2>5, <2>6, <2>7 DEF StepKeeps, Rotated
<1> QED BY <1>3, <1>4, <1>5

\* However calls overlap, a session loses a label, a cart, a count, a rotation
\* or what its successor should have only to a call that read it before
\* another call wrote it (transition, attach_interaction_refs, resume_session).
THEOREM LossesAreLate == Spec => OnlyLateCallsLose
<1> DEFINE Kept ==
      \A s \in SessionRefs :
        Issued(s) =>
          StepKeeps(s) \/ \E t \in late : call[t].session = s /\ call'[t] # call[t]
<1>1. ReadsInv /\ [Next]_vars => [Kept]_vars
  <2> SUFFICES ASSUME ReadsInv, Next, NEW x \in SessionRefs, Issued(x)
               PROVE  StepKeeps(x) \/ \E t \in late : call[t].session = x
                                                      /\ call'[t] # call[t]
    BY DEF Kept
  <2>1. ThreadsInv /\ sessions[x] \in Snapshot /\ DOMAIN sessions = SessionRefs
    BY DEF ReadsInv, ThreadsInv, StoreOK, Issued
  <2>2. CASE sessions'[x] = sessions[x]
    BY <2>1, <2>2 DEF StepKeeps, Snapshot, Rotated
  <2>3. ASSUME NEW t \in Threads, NEW s \in SessionRefs, CreateSession(t, s)
        PROVE  sessions'[x] = sessions[x]
    <3>1. PICK d \in Snapshot :
            ~Issued(s) /\ sessions' = [sessions EXCEPT ![s] = d]
      BY <2>1, <2>3, CreateFrame
    <3> QED BY <2>1, <3>1
  <2> QED BY <2>1, <2>2, <2>3, StepKinds, PutLoses, RotateLoses
<1>2. Spec => [][Kept]_vars
  <2> HIDE DEF Kept
  <2> QED BY <1>1, ReadsInvariant, PTL DEF Spec
<1> QED BY <1>2 DEF OnlyLateCallsLose

-----------------------------------------------------------------------------
(* Rotations.                                                                *)
LEMMA RotationStep ==
  ASSUME ReadsInv, Next
  PROVE  Rotation!Next \/ Lineage' = Lineage \/ \E t \in late : Put(t)
<1>1. CASE sessions' = sessions
  BY <1>1 DEF Lineage
<1>2. ASSUME NEW t \in Threads, Put(t), t \notin late PROVE Lineage' = Lineage
  <2>1. PICK s \in SessionRefs, d \in Snapshot :
          /\ Issued(s) /\ sessions' = [sessions EXCEPT ![s] = d]
          /\ d.rotatedTo = sessions[s].rotatedTo
    BY <1>2, FreshPut
  <2>2. d # None /\ DOMAIN sessions = SessionRefs
    BY NoneAssumption DEF ReadsInv, ThreadsInv, StoreOK
  <2> QED BY <2>1, <2>2 DEF Lineage, Issued
<1>3. ASSUME NEW t \in Threads, NEW fresh \in SessionRefs, RotateIfActive(t, fresh)
      PROVE  Rotation!Next
  <2>1. PICK s \in SessionRefs, old \in Snapshot, new \in Snapshot :
          /\ Issued(s) /\ ~Issued(fresh) /\ sessions[s].rotatedTo = None /\ s # fresh
          /\ sessions' = [sessions EXCEPT ![s] = old, ![fresh] = new]
          /\ old.rotatedTo = fresh /\ new.rotatedTo = None
    BY <1>3, RotateFrame DEF ReadsInv
  <2>2. old # None /\ new # None /\ fresh # None /\ DOMAIN sessions = SessionRefs
    BY NoneAssumption, ThreadsAssumption DEF ReadsInv, ThreadsInv, StoreOK
  <2>3. Lineage[s] = "active" /\ Lineage[fresh] = "unissued"
    BY <2>1 DEF Lineage, Issued
  <2>4. Lineage' = [Lineage EXCEPT ![s] = fresh, ![fresh] = "active"]
    BY <2>1, <2>2 DEF Lineage
  <2> QED BY <2>3, <2>4 DEF Rotation!Next, Rotation!Rotate
<1>4. ASSUME NEW t \in Threads, NEW s \in SessionRefs, CreateSession(t, s)
      PROVE  Rotation!Next
  <2>1. PICK d \in Snapshot :
          ~Issued(s) /\ sessions' = [sessions EXCEPT ![s] = d] /\ d.rotatedTo = None
    BY <1>4, CreateFrame DEF ReadsInv
  <2>2. d # None /\ DOMAIN sessions = SessionRefs
    BY NoneAssumption DEF ReadsInv, ThreadsInv, StoreOK
  <2>3. Lineage[s] = "unissued" /\ Lineage' = [Lineage EXCEPT ![s] = "active"]
    BY <2>1, <2>2 DEF Lineage, Issued
  <2> QED BY <2>3 DEF Rotation!Next, Rotation!Issue
<1> QED BY <1>1, <1>2, <1>3, <1>4, StepKinds DEF ReadsInv

\* However calls overlap, a step that is not a late put is one the abstract
\* rotation promises (resume_session with rotate_if_active).
THEOREM RotationsAreSafe == Spec => RotationUnlessLate
<1> DEFINE Safe == Rotation!Next \/ UNCHANGED Lineage \/ \E t \in late : Put(t)
<1>1. ReadsInv /\ [Next]_vars => [Safe]_vars
  BY RotationStep
<1>2. Spec => [][Safe]_vars
  <2> HIDE DEF Safe
  <2> QED BY <1>1, ReadsInvariant, PTL DEF Spec
<1> QED BY <1>2 DEF RotationUnlessLate

\* References behave as SessionRotation promises as long as no put is late
\* (resume_session with rotate_if_active).
THEOREM RotationIsImplemented == Spec /\ NoLatePut => ImplementsRotation
<1> DEFINE Calm == \A t \in late : ~Put(t)
<1>1. Init => Rotation!Init
  BY DEF Init, Rotation!Init, Lineage
<1>2. ReadsInv /\ [Next]_vars /\ [Calm]_vars => [Rotation!Next]_Lineage
  <2>1. CASE UNCHANGED vars
    BY <2>1 DEF vars, Lineage
  <2>2. CASE ReadsInv /\ Next /\ Calm
    BY <2>2, RotationStep
  <2> QED BY <2>1, <2>2
<1>3. Spec /\ [][Calm]_vars => Rotation!Spec
  <2> HIDE DEF Calm
  <2> QED BY <1>1, <1>2, ReadsInvariant, PTL DEF Spec, Rotation!Spec
<1> QED BY <1>3 DEF NoLatePut, ImplementsRotation

\* A put that is not late keeps the links of the session it writes.
LEMMA ChainPut ==
  ASSUME ChainInv, NEW t \in Threads, Put(t), t \notin late
  PROVE  Chained'
<1>1. ReadsInv /\ ThreadsInv
  BY DEF ChainInv, ReadsInv
<1>2. PICK s \in SessionRefs, d \in Snapshot :
        /\ sessions[s] \in Snapshot /\ Issued(s)
        /\ sessions' = [sessions EXCEPT ![s] = d]
        /\ d.predecessor = sessions[s].predecessor
        /\ d.rotatedTo = sessions[s].rotatedTo
  BY <1>1, FreshPut
<1>3. d # None
  BY NoneAssumption
<1>4. \A r \in SessionRefs : sessions'[r] = IF r = s THEN d ELSE sessions[r]
  BY <1>1, <1>2 DEF ThreadsInv, StoreOK
<1> SUFFICES ASSUME NEW x \in SessionRefs, NEW e, e = sessions'[x], e # None,
                    e.predecessor # None
             PROVE  /\ sessions'[e.predecessor] # None
                    /\ sessions'[e.predecessor].rotatedTo = x
  BY DEF Chained, Issued
<1>5. /\ sessions[x] # None /\ e.predecessor = sessions[x].predecessor
      /\ e.predecessor \in SessionRefs
  BY <1>1, <1>2, <1>3, <1>4 DEF Issued, ThreadsInv, StoreOK, Snapshot
<1>6. sessions[e.predecessor] # None /\ sessions[e.predecessor].rotatedTo = x
  BY <1>5 DEF ChainInv, Chained, Issued
<1> QED BY <1>2, <1>3, <1>4, <1>5, <1>6

LEMMA ChainRotate ==
  ASSUME ChainInv, NEW t \in Threads, NEW fresh \in SessionRefs,
         RotateIfActive(t, fresh)
  PROVE  Chained'
<1>1. ThreadsInv
  BY DEF ChainInv, ReadsInv
<1>2. PICK s \in SessionRefs, old \in Snapshot, new \in Snapshot :
        /\ sessions[s] \in Snapshot /\ Issued(s)
        /\ ~Issued(fresh) /\ sessions[s].rotatedTo = None /\ s # fresh
        /\ sessions' = [sessions EXCEPT ![s] = old, ![fresh] = new]
        /\ old.rotatedTo = fresh /\ old.predecessor = sessions[s].predecessor
        /\ new.predecessor = s /\ new.rotatedTo = None
  BY <1>1, RotateFrame
<1>3. \A r \in SessionRefs :
        sessions'[r] = IF r = fresh THEN new ELSE IF r = s THEN old ELSE sessions[r]
  BY <1>1, <1>2 DEF ThreadsInv, StoreOK
<1>4. old # None /\ new # None
  BY NoneAssumption
<1> SUFFICES ASSUME NEW x \in SessionRefs, NEW e, e = sessions'[x], e # None,
                    e.predecessor # None
             PROVE  /\ sessions'[e.predecessor] # None
                    /\ sessions'[e.predecessor].rotatedTo = x
  BY DEF Chained, Issued
<1>5. CASE x = fresh
  <2>1. e.predecessor = s
    BY <1>2, <1>3, <1>5
  <2>2. sessions'[s] = old
    BY <1>2, <1>3
  <2> QED BY <1>2, <1>4, <1>5, <2>1, <2>2
<1>6. CASE x # fresh
  <2>1. /\ sessions[x] # None /\ e.predecessor = sessions[x].predecessor
        /\ e.predecessor \in SessionRefs
    BY <1>1, <1>2, <1>3, <1>6 DEF Issued, ThreadsInv, StoreOK, Snapshot
  <2>2. sessions[e.predecessor] # None /\ sessions[e.predecessor].rotatedTo = x
    BY <2>1 DEF ChainInv, Chained, Issued
  <2>3. e.predecessor # s /\ e.predecessor # fresh
    BY <1>2, <2>2, ThreadsAssumption DEF Issued
  <2> QED BY <1>3, <2>1, <2>2, <2>3
<1> QED BY <1>5, <1>6

LEMMA ChainCreate ==
  ASSUME ChainInv, NEW t \in Threads, NEW s \in SessionRefs, CreateSession(t, s)
  PROVE  Chained'
<1>1. ThreadsInv
  BY DEF ChainInv, ReadsInv
<1>2. PICK d \in Snapshot :
        /\ ~Issued(s) /\ sessions' = [sessions EXCEPT ![s] = d]
        /\ d.predecessor = None /\ d.rotatedTo = None
  BY <1>1, CreateFrame
<1>3. \A r \in SessionRefs : sessions'[r] = IF r = s THEN d ELSE sessions[r]
  BY <1>1, <1>2 DEF ThreadsInv, StoreOK
<1> SUFFICES ASSUME NEW x \in SessionRefs, NEW e, e = sessions'[x], e # None,
                    e.predecessor # None
             PROVE  /\ sessions'[e.predecessor] # None
                    /\ sessions'[e.predecessor].rotatedTo = x
  BY DEF Chained, Issued
<1>4. /\ sessions[x] # None /\ e.predecessor = sessions[x].predecessor
      /\ e.predecessor \in SessionRefs
  BY <1>1, <1>2, <1>3 DEF Issued, ThreadsInv, StoreOK, Snapshot
<1>5. sessions[e.predecessor] # None /\ sessions[e.predecessor].rotatedTo = x
  BY <1>4 DEF ChainInv, Chained, Issued
<1> QED BY <1>2, <1>3, <1>4, <1>5 DEF Issued

LEMMA ChainStep ==
  ASSUME ChainInv, [Next]_vars, [\A t \in late : ~Put(t)]_vars
  PROVE  ChainInv'
<1>1. ReadsInv /\ ReadsInv' /\ ThreadsInv
  BY ReadsStep DEF ChainInv, ReadsInv
<1>2. CASE sessions' = sessions
  BY <1>1, <1>2 DEF ChainInv, Chained, Issued
<1>3. CASE UNCHANGED vars
  BY <1>2, <1>3 DEF vars
<1>4. CASE Next /\ \A t \in late : ~Put(t)
  <2>1. Chained' \/ sessions' = sessions
    BY <1>1, <1>4, StepKinds, ChainPut, ChainRotate, ChainCreate
  <2> QED BY <1>1, <1>2, <2>1 DEF ChainInv
<1> QED BY <1>3, <1>4

\* "Exactly one caller may rotate an active predecessor", as long as no put is
\* late (rotate_if_active).
THEOREM RotatedOnce == Spec /\ NoLatePut => []SingleRotation
<1> DEFINE Calm == \A t \in late : ~Put(t)
<1>1. Init => ChainInv
  BY ThreadsInit DEF Init, ChainInv, ReadsInv, Chained, Issued
<1>2. ChainInv /\ [Next]_vars /\ [Calm]_vars => ChainInv'
  BY ChainStep
<1>3. ChainInv => SingleRotation
  <2> SUFFICES ASSUME ChainInv, NEW s \in SessionRefs, NEW x \in SessionRefs,
                      NEW y \in SessionRefs, Issued(x), Issued(y),
                      sessions[x].predecessor = s, sessions[y].predecessor = s
               PROVE  x = y
    BY DEF SingleRotation
  <2>1. s # None
    BY ThreadsAssumption
  <2>2. sessions[s].rotatedTo = x /\ sessions[s].rotatedTo = y
    BY <2>1 DEF ChainInv, Chained
  <2> QED BY <2>2
<1>4. Spec /\ [][Calm]_vars => []SingleRotation
  <2> HIDE DEF Calm
  <2> QED BY <1>1, <1>2, <1>3, PTL DEF Spec
<1> QED BY <1>4 DEF NoLatePut

-----------------------------------------------------------------------------
(* Keys, whatever else overlaps.                                             *)

\* No two calls under one key for one session are under way together: a client
\* that sends a call again only when it has given the first one up.
RetriesWait ==
  \A t, u \in Threads :
    /\ call[t] # None /\ call[u] # None
    /\ call[t].op = "transition" /\ call[u].op = "transition"
    /\ call[t].session = call[u].session /\ call[t].key = call[u].key
    => t = u

\* A transition past its lookup holds a key that was not recorded.
KeyIsNew(c) ==
  c.op = "transition" /\ c.pc # "lookup" => c.key \notin idempotent[c.session]

KeysInv ==
  /\ ThreadsInv
  /\ \A t \in Threads : call[t] # None => KeyIsNew(call[t])

\* A session is never moved under a key that has moved it before (transition's
\* lookup and record, which are two acquisitions of the lock apart).
MovedOncePerKey ==
  [][\A t \in Threads :
       Put(t) /\ call[t].op = "transition" =>
         call[t].key \notin idempotent[call[t].session]]_vars

\* A step of one call that records nothing.
LEMMA KeySteps ==
  ASSUME KeysInv, ThreadsInv', NEW t \in Threads, NEW d,
         call' = [call EXCEPT ![t] = d], idempotent' = idempotent,
         d # None => KeyIsNew(d)
  PROVE  KeysInv'
<1>1. \A u \in Threads : call'[u] = IF u = t THEN d ELSE call[u]
  BY DEF KeysInv, ThreadsInv, StoreOK
<1>2. ASSUME NEW u \in Threads, NEW c, c = call'[u], c # None
      PROVE  KeyIsNew(c)'
  BY <1>1, <1>2 DEF KeysInv, KeyIsNew
<1>3. \A u \in Threads : (call[u] # None => KeyIsNew(call[u]))'
  BY <1>2 DEF KeyIsNew
<1> QED BY <1>3 DEF KeysInv

LEMMA KeyLookup ==
  ASSUME KeysInv, NEW t \in Threads, Lookup(t)
  PROVE  KeysInv'
<1> PICK c : c = call[t]
  OBVIOUS
<1>1. ThreadsInv /\ ThreadsInv' /\ idempotent' = idempotent
  BY LookupStep DEF KeysInv, Lookup, shared
<1>2. CASE c.key \in idempotent[c.session]
  BY <1>1, <1>2, KeySteps DEF Lookup, Return
<1>3. CASE c.key \notin idempotent[c.session]
  <2> PICK d : d = [c EXCEPT !.pc = "get"]
    OBVIOUS
  <2>1. c \in Call
    BY <1>1, CallFields DEF Lookup, At
  <2>2. d.key = c.key /\ d.session = c.session
    BY <2>1 DEF Call
  <2>3. KeyIsNew(d) /\ call' = [call EXCEPT ![t] = d]
    BY <1>3, <2>2 DEF KeyIsNew, Lookup, Goto
  <2> QED BY <1>1, <2>3, KeySteps
<1> QED BY <1>2, <1>3

LEMMA KeyGet ==
  ASSUME KeysInv, NEW t \in Threads, Get(t)
  PROVE  KeysInv'
<1>1. ThreadsInv /\ ThreadsInv' /\ idempotent' = idempotent /\ At(t, "get")
  BY GetStep DEF KeysInv, Get, shared
<1>2. CASE Return(t)
  BY <1>1, <1>2, KeySteps DEF Return
<1>3. ASSUME NEW pc, NEW s, Hold(t, pc, s)
      PROVE  KeysInv'
  <2> PICK c : c = call[t]
    OBVIOUS
  <2> PICK d : d = [c EXCEPT !.pc = pc, !.seen = s]
    OBVIOUS
  <2>1. c \in Call /\ KeyIsNew(c) /\ c.pc = "get"
    BY <1>1, CallFields DEF KeysInv, At
  <2>2. d.key = c.key /\ d.session = c.session /\ d.op = c.op
    BY <2>1 DEF Call
  <2>3. KeyIsNew(d) /\ call' = [call EXCEPT ![t] = d]
    BY <1>3, <2>1, <2>2 DEF KeyIsNew, Hold
  <2> QED BY <1>1, <2>3, KeySteps
<1>4. Return(t) \/ \E pc, s : Hold(t, pc, s)
  <2>1. call[t].op \in {"attach", "resume", "transition"}
    BY <1>1, CallFields DEF At, Knows, Call, AllOps
  <2> QED BY <2>1 DEF Get
<1> QED BY <1>2, <1>3, <1>4

LEMMA KeyPut ==
  ASSUME KeysInv, NEW t \in Threads, Put(t)
  PROVE  KeysInv'
<1> PICK c : c = call[t]
  OBVIOUS
<1>1. ThreadsInv /\ ThreadsInv' /\ idempotent' = idempotent
  BY PutStep DEF KeysInv, Put
<1>2. c \in Call /\ KeyIsNew(c) /\ c.pc = "put"
  BY <1>1, CallFields DEF KeysInv, Put, At
<1>3. CASE Return(t)
  BY <1>1, <1>3, KeySteps DEF Return
<1>4. CASE Goto(t, "record")
  <2> PICK d : d = [c EXCEPT !.pc = "record"]
    OBVIOUS
  <2>1. d.key = c.key /\ d.session = c.session /\ d.op = c.op
    BY <1>2 DEF Call
  <2>2. KeyIsNew(d) /\ call' = [call EXCEPT ![t] = d]
    BY <1>2, <1>4, <2>1 DEF KeyIsNew, Goto
  <2> QED BY <1>1, <2>2, KeySteps
<1> QED BY <1>3, <1>4 DEF Put

LEMMA KeyRecord ==
  ASSUME RetriesWait, KeysInv, NEW t \in Threads, RecordResult(t)
  PROVE  KeysInv'
<1> PICK c : c = call[t]
  OBVIOUS
<1>1. ThreadsInv /\ ThreadsInv'
  BY RecordStep DEF KeysInv
<1>2. c # None /\ c \in Call /\ c.op = "transition" /\ c.session \in SessionRefs
  BY <1>1, CallFields DEF RecordResult, At, Knows, Held
<1>3. \A s \in SessionRefs :
        idempotent'[s] = IF s = c.session THEN idempotent[s] \cup {c.key}
                         ELSE idempotent[s]
  BY <1>1, <1>2 DEF RecordResult, ThreadsInv, StoreOK
<1>4. ASSUME NEW u \in Threads, NEW e, e = call'[u], e # None
      PROVE  KeyIsNew(e)'
  <2>1. u # t /\ e = call[u]
    BY <1>1, <1>4 DEF RecordResult, Return, ThreadsInv, StoreOK
  <2>2. KeyIsNew(e) /\ e.session \in SessionRefs
    BY <1>1, <1>4, <2>1, CallFields DEF KeysInv
  <2>3. e.op = "transition" /\ e.session = c.session => e.key # c.key
    BY <1>2, <1>4, <2>1 DEF RetriesWait
  <2> QED BY <1>3, <2>2, <2>3 DEF KeyIsNew
<1>5. \A u \in Threads : (call[u] # None => KeyIsNew(call[u]))'
  BY <1>4 DEF KeyIsNew
<1> QED BY <1>1, <1>5 DEF KeysInv

LEMMA KeyRotate ==
  ASSUME KeysInv, NEW t \in Threads,
         RotateRefused(t) \/ \E fresh \in SessionRefs : RotateIfActive(t, fresh)
  PROVE  KeysInv'
<1>1. ThreadsInv' /\ idempotent' = idempotent /\ Return(t)
  BY RefusedStep, RotateStep DEF KeysInv, RotateRefused, RotateIfActive, shared
<1> QED BY <1>1, KeySteps DEF Return

LEMMA KeyEnter ==
  ASSUME KeysInv, NEW t \in Threads, NEW s \in SessionRefs, Enter(t, s)
  PROVE  KeysInv'
<1>1. ThreadsInv /\ ThreadsInv'
  BY EnterStep DEF KeysInv
<1>2. CASE CreateSession(t, s)
  BY <1>1, <1>2 DEF CreateSession, KeysInv, KeyIsNew
<1>3. ASSUME NEW op, NEW pc, NEW target, NEW key, NEW cart,
             Begin(t, op, pc, s, target, key, cart), op = "transition" => pc = "lookup"
      PROVE  KeysInv'
  <2> PICK d : d = [pc |-> pc, op |-> op, session |-> s, target |-> target,
                    key |-> key, cart |-> cart, seen |-> None]
    OBVIOUS
  <2>1. KeyIsNew(d) /\ call' = [call EXCEPT ![t] = d] /\ idempotent' = idempotent
    BY <1>3 DEF KeyIsNew, Begin, shared
  <2> QED BY <1>1, <2>1, KeySteps
<1>4. CASE BeginResume(t, s)
  BY <1>3, <1>4 DEF BeginResume
<1>5. ASSUME NEW cart \in CartRefs, BeginAttach(t, s, cart) PROVE KeysInv'
  BY <1>3, <1>5 DEF BeginAttach
<1>6. ASSUME NEW target \in Targets, NEW key \in Keys, BeginTransition(t, s, target, key)
      PROVE  KeysInv'
  BY <1>3, <1>6 DEF BeginTransition
<1> QED BY <1>2, <1>4, <1>5, <1>6 DEF Enter

LEMMA KeyIdle == ASSUME KeysInv, UNCHANGED vars PROVE KeysInv'
<1>1. ThreadsInv'
  BY IdleSteps DEF KeysInv
<1> QED BY <1>1 DEF KeysInv, vars, KeyIsNew

LEMMA KeysStep == RetriesWait /\ KeysInv /\ [Next]_vars => KeysInv'
<1>1. ASSUME RetriesWait, KeysInv, NEW t \in Threads, Step(t) PROVE KeysInv'
  BY <1>1, KeyLookup, KeyGet, KeyPut, KeyRecord, KeyRotate DEF Step
<1> QED BY <1>1, KeyEnter, KeyIdle DEF Next

\* A retry under a key returns what was recorded: a key moves a session once,
\* however calls under other keys, resumes and attaches overlap with it, as
\* long as a call is sent again only after the first (transition).
THEOREM KeyMovesOnce == Spec /\ []RetriesWait => MovedOncePerKey
<1> DEFINE Once ==
      \A t \in Threads :
        Put(t) /\ call[t].op = "transition" =>
          call[t].key \notin idempotent[call[t].session]
<1>1. Init => KeysInv
  BY ThreadsInit DEF Init, KeysInv
<1>2. RetriesWait /\ KeysInv /\ [Next]_vars => KeysInv'
  BY KeysStep
<1>3. KeysInv /\ [Next]_vars => [Once]_vars
  BY DEF KeysInv, KeyIsNew, Put, At
<1>4. Spec /\ []RetriesWait => [][Once]_vars
  <2> HIDE DEF Once
  <2> QED BY <1>1, <1>2, <1>3, PTL DEF Spec
<1> QED BY <1>4 DEF MovedOncePerKey
=============================================================================
