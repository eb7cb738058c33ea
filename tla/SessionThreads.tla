--------------------------- MODULE SessionThreads ----------------------------
(* Calls of CustomerSessionService from several threads, at the grain of the *)
(* store's lock: between two acquisitions any other thread may run.  The     *)
(* store is InMemoryCustomerSessionStore.  All sessions here are secure and  *)
(* of one customer in one current context (CustomerSessions covers the       *)
(* checks on those); a snapshot keeps what calls overwrite: the label, the   *)
(* cart, the count and the rotation links.  Targets are labels that need no  *)
(* evidence, so resolving evidence never comes between get and put; reenter, *)
(* which writes a whole snapshot back as transition does, changes nothing    *)
(* for sessions with such labels.  Nothing keeps calls apart: the service    *)
(* serialises none, and any may overlap with any other.                      *)
EXTENDS Naturals, FiniteSets, ChannelStates

CONSTANTS
  SessionRefs,
  Threads,
  Targets,    \* labels transition may be asked for
  Keys,       \* idempotency keys
  CartRefs,
  MaxCalls    \* bound on the calls of one thread

AllOps == {"create", "resume", "transition", "attach"}

ASSUME ThreadsAssumption ==
  /\ Targets \subseteq ChannelState \ EvidenceGated
  /\ MaxCalls \in Nat
  /\ None \notin SessionRefs
  /\ {"unissued", "active"} \cap SessionRefs = {}

Snapshot ==
  [state : ChannelState, cart : CartRefs \cup {None}, count : Nat,
   generation : Nat, predecessor : SessionRefs \cup {None},
   rotatedTo : SessionRefs \cup {None}]

\* A call and the snapshot it holds; pc names the lock acquisition that comes
\* next.
Call ==
  [pc : {"idle", "lookup", "get", "put", "record", "rotate"},
   op : AllOps, session : SessionRefs, target : ChannelState \cup {None},
   key : Keys \cup {None}, cart : CartRefs \cup {None},
   seen : Snapshot \cup {None}]

ASSUME NoneAssumption == None \notin Snapshot \cup Call \cup Keys \cup ChannelState

VARIABLES
  sessions,     \* _sessions
  idempotent,   \* _idempotent_results: the keys recorded for a session
  call,         \* what each thread is doing and the snapshot it holds
  calls,        \* how many calls a thread has begun
  late          \* history: the calls whose session another call has written
                \* since they read it; no step depends on it

shared == <<sessions, idempotent>>
vars   == <<sessions, idempotent, call, calls, late>>

StoreOK ==
  /\ sessions \in [SessionRefs -> Snapshot \cup {None}]
  /\ idempotent \in [SessionRefs -> SUBSET Keys]
  /\ call \in [Threads -> Call \cup {None}]
  /\ calls \in [Threads -> Nat]
  /\ late \in SUBSET Threads

\* What a call knows of the snapshot it holds.
Held(c) ==
  /\ c.pc \in {"put", "rotate"} => c.seen # None
  /\ c.pc = "rotate" => c.op = "resume" /\ c.seen.rotatedTo = None
  /\ c.pc = "put" => c.op \in {"attach", "transition"}
  /\ c.pc = "record" => c.op = "transition"
  /\ c.op = "transition" =>
       /\ c.key # None /\ c.target # None
       /\ c.pc = "put" => c.seen.rotatedTo = None
                           /\ c.target \in Transitions[c.seen.state]

TypeOK ==
  /\ StoreOK
  /\ \A t \in Threads : call[t] # None => Held(call[t])

-----------------------------------------------------------------------------
Issued(s)  == sessions[s] # None
Rotated(c) == c.rotatedTo # None
Idle(t)    == call[t] = None
At(t, pc)  == call[t] # None /\ call[t].pc = pc

Init ==
  /\ sessions = [s \in SessionRefs |-> None]
  /\ idempotent = [s \in SessionRefs |-> {}]
  /\ call = [t \in Threads |-> None]
  /\ calls = [t \in Threads |-> 0]
  /\ late = {}

Goto(t, pc)   == call' = [call EXCEPT ![t].pc = pc]
Hold(t, pc, c) == call' = [call EXCEPT ![t].pc = pc, ![t].seen = c]
Return(t)     == call' = [call EXCEPT ![t] = None]

MayBegin(t) == Idle(t) /\ calls[t] < MaxCalls

(* create_session ends in one put of a snapshot under a fresh reference.     *)
CreateSession(t, s) ==
  /\ MayBegin(t) /\ ~Issued(s)
  /\ sessions' = [sessions EXCEPT ![s] =
       [state |-> "start", cart |-> None, count |-> 0, generation |-> 0,
        predecessor |-> None, rotatedTo |-> None]]
  /\ calls' = [calls EXCEPT ![t] = @ + 1]
  /\ UNCHANGED <<idempotent, call, late>>

Begin(t, op, first, s, target, key, cart) ==
  /\ MayBegin(t)
  /\ call' = [call EXCEPT ![t] =
       [pc |-> first, op |-> op, session |-> s, target |-> target,
        key |-> key, cart |-> cart, seen |-> None]]
  /\ calls' = [calls EXCEPT ![t] = @ + 1]
  /\ UNCHANGED <<shared, late>>

BeginResume(t, s)       == Begin(t, "resume", "get", s, None, None, None)
BeginAttach(t, s, cart) == Begin(t, "attach", "get", s, None, None, cart)
BeginTransition(t, s, target, key) ==
  Begin(t, "transition", "lookup", s, target, key, None)

\* transition, first acquisition: a recorded key ends the call.
Lookup(t) ==
  /\ At(t, "lookup")
  /\ IF call[t].key \in idempotent[call[t].session]
     THEN Return(t)
     ELSE Goto(t, "get")
  /\ UNCHANGED <<shared, calls, late>>

\* The snapshot is read under the lock and judged after its release.
MayMoveAnywhere(t, c) == ~Rotated(c)   \* variant: ignores the matrix

MayMove(t, c) == ~Rotated(c) /\ call[t].target \in Transitions[c.state]

Get(t) ==
  LET c == sessions[call[t].session] IN
  /\ At(t, "get")
  /\ CASE c = None -> Return(t)
       [] c # None /\ call[t].op = "attach" -> Hold(t, "put", c)
       [] c # None /\ call[t].op = "resume" ->
            IF Rotated(c) THEN Return(t) ELSE Hold(t, "rotate", c)
       [] c # None /\ call[t].op = "transition" ->
            IF MayMove(t, c) THEN Hold(t, "put", c) ELSE Return(t)
  /\ UNCHANGED <<shared, calls, late>>

\* History only: the calls that hold a snapshot of the session t now writes.
Overtaken(t) ==
  {u \in Threads : (At(u, "put") \/ At(u, "rotate"))
                    /\ call[u].session = call[t].session}

\* put overwrites whatever is stored now with the snapshot read then, updated.
Updated(t) ==
  LET c == call[t].seen IN
  IF call[t].op = "attach"
  THEN [c EXCEPT !.cart = IF call[t].cart = None THEN @ ELSE call[t].cart]
  ELSE [c EXCEPT !.state = call[t].target, !.count = @ + 1]

Put(t) ==
  /\ At(t, "put")
  /\ sessions' = [sessions EXCEPT ![call[t].session] = Updated(t)]
  /\ IF call[t].op = "attach" THEN Return(t) ELSE Goto(t, "record")
  /\ late' = (late \cup Overtaken(t)) \ {t}
  /\ UNCHANGED <<idempotent, calls>>

RecordResult(t) ==
  /\ At(t, "record")
  /\ idempotent' = [idempotent EXCEPT ![call[t].session] = @ \cup {call[t].key}]
  /\ Return(t)
  /\ UNCHANGED <<sessions, calls, late>>

(* rotate_if_active: under one acquisition the stored predecessor is         *)
(* examined again, invalidated and replaced by a copy of the snapshot that   *)
(* was read earlier.                                                         *)
RotatableAsSeen(t) == ~Rotated(call[t].seen)   \* variant: trusts the snapshot

Rotatable(t) == ~Rotated(sessions[call[t].session])

ReplacementReset(t) ==   \* variant: a successor starts without its cart
  [call[t].seen EXCEPT !.predecessor = call[t].session, !.rotatedTo = None,
                       !.cart = None, !.generation = @ + 1]

Replacement(t) ==
  [call[t].seen EXCEPT !.predecessor = call[t].session, !.rotatedTo = None,
                       !.generation = @ + 1]

RotateIfActive(t, fresh) ==
  LET s == call[t].session IN
  /\ At(t, "rotate") /\ ~Issued(fresh)
  /\ Rotatable(t)
  /\ sessions' = [sessions EXCEPT
       ![s].rotatedTo = fresh,
       ![fresh] = Replacement(t)]
  /\ Return(t)
  /\ late' = (late \cup Overtaken(t)) \ {t}
  /\ UNCHANGED <<idempotent, calls>>

RotateRefused(t) ==
  /\ At(t, "rotate")
  /\ ~Rotatable(t)
  /\ Return(t)
  /\ late' = late \ {t}
  /\ UNCHANGED <<shared, calls>>

Step(t) ==
  \/ Lookup(t) \/ Get(t) \/ Put(t) \/ RecordResult(t) \/ RotateRefused(t)
  \/ \E fresh \in SessionRefs : RotateIfActive(t, fresh)

Enter(t, s) ==
  \/ CreateSession(t, s)
  \/ BeginResume(t, s)
  \/ \E cart \in CartRefs : BeginAttach(t, s, cart)
  \/ \E target \in Targets, key \in Keys : BeginTransition(t, s, target, key)

Next == \E t \in Threads : Step(t) \/ \E s \in SessionRefs : Enter(t, s)

Spec == Init /\ [][Next]_vars
-----------------------------------------------------------------------------
(* Properties.                                                               *)

\* "Exactly one caller may rotate an active predecessor": no two sessions name
\* the same predecessor (rotate_if_active).
SingleRotation ==
  \A s, x, y \in SessionRefs :
    Issued(x) /\ Issued(y) /\ sessions[x].predecessor = s
      /\ sessions[y].predecessor = s => x = y

\* A step leaves a session what it had, but for a label the matrix lets follow
\* and a cart an attach brings; a rotation hands all of it to the successor.
StepKeeps(s) ==
  LET a == sessions[s]
      b == sessions'[s]
  IN
  /\ b.state \in {a.state} \cup Transitions[a.state]
  /\ \/ b.cart = a.cart
     \/ \E t \in Threads : call'[t] # call[t] /\ call[t].op = "attach"
                           /\ call[t].cart = b.cart
  /\ b.count >= a.count
  /\ Rotated(a) => b.rotatedTo = a.rotatedTo
  /\ ~Rotated(a) /\ Rotated(b) =>
       LET c == sessions'[b.rotatedTo] IN
       c.state = a.state /\ c.cart = a.cart /\ c.count = a.count

\* However calls overlap, a session loses something (a label the matrix puts
\* after the stored one, a cart, a count, its rotation, or what a successor
\* should take over) only to a call that read the session before another call
\* wrote it: the whole-snapshot writes of transition and attach_interaction_refs
\* and the copy resume_session makes lose nothing else.
OnlyLateCallsLose ==
  [][\A s \in SessionRefs :
       Issued(s) =>
         StepKeeps(s) \/ \E t \in late : call[t].session = s /\ call'[t] # call[t]]_vars

Lineage ==
  [s \in SessionRefs |->
     IF sessions[s] = None THEN "unissued"
     ELSE IF sessions[s].rotatedTo = None THEN "active"
     ELSE sessions[s].rotatedTo]

Rotation ==
  INSTANCE SessionRotation WITH
    Unissued <- "unissued", Active <- "active", lineage <- Lineage

\* The references behave as the abstract rotation promises.
ImplementsRotation == Rotation!Spec

\* However resumes of one session overlap with each other and with everything
\* else, every step is one the abstract rotation promises or leaves all
\* references as they are, but for a late put, which writes an old link back:
\* two resumes that read one active session cannot both replace it
\* (resume_session with rotate_if_active).
RotationUnlessLate ==
  [][Rotation!Next \/ UNCHANGED Lineage \/ \E t \in late : Put(t)]_vars
=============================================================================
