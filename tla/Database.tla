------------------------------- MODULE Database --------------------------------
(***************************************************************************)
(* The database handle (database.cpp, database.h): several threads share   *)
(* one MySQL session behind a recursive lock.  A statement is sent again   *)
(* until the server answers; the client library opens a new session when   *)
(* the old one was lost, and a transaction of the old one is then gone.    *)
(* DBTransaction holds the lock from begin() to commit() or its            *)
(* destructor.                                                             *)
(*                                                                         *)
(* A statement is one of Writes, a read or BEGIN.  The session commits     *)
(* each write by itself unless a transaction is open.                      *)
(***************************************************************************)
EXTENDS Naturals

CONSTANTS
  Threads,
  Writes,     \* every INSERT, UPDATE and DELETE that is ever executed
  MaxLosses,  \* bound on the losses of the session
  None

ASSUME DatabaseAssumption ==
  /\ None \notin Threads
  /\ {"BEGIN", "READ", "none"} \cap Writes = {}
  /\ MaxLosses \in Nat

VARIABLES
  owner,        \* the thread that holds m_databaseLock, or None
  depth,        \* how often it holds it
  pc,           \* pc[t]: where t is in executeQuery or beginTransaction
  statement,    \* statement[t]: what t executes
  state,        \* state[t]: DBTransaction::m_state of its transaction
  inTransaction,\* the session has a transaction
  tentative,    \* tentative[w]: effects of w in that transaction
  durable,      \* durable[w]: effects of w that are committed
  losses,       \* losses of the session so far
  used,         \* writes that were given to executeQuery
  mine,         \* history: mine[t]: writes t was told are executed in its
                \*   transaction
  answered,     \* history: writes reported done, by executeQuery outside of
                \*   a transaction or by commit()
  undone,       \* history: writes of a transaction that a lost session ended
  caught,       \* history: writes executed in the transaction of another
  unheard       \* history: writes executed by a session that was then lost

lockVars == <<owner, depth>>
sessionVars == <<inTransaction, tentative, durable, losses, undone, unheard>>
historyVars == <<mine, answered, caught>>
vars == <<lockVars, pc, statement, state, sessionVars, used, historyVars>>

Nothing == [w \in Writes |-> 0]

Init ==
  /\ owner = None
  /\ depth = 0
  /\ pc = [t \in Threads |-> "idle"]
  /\ statement = [t \in Threads |-> "none"]
  /\ state = [t \in Threads |-> "NO_START"]
  /\ inTransaction = FALSE
  /\ tentative = Nothing
  /\ durable = Nothing
  /\ losses = 0
  /\ used = {}
  /\ mine = [t \in Threads |-> {}]
  /\ answered = {}
  /\ undone = {}
  /\ caught = {}
  /\ unheard = {}

-------------------------------------------------------------------------------
(* m_databaseLock *)

MayAcquire(t) == owner \in {None, t}
Acquire(t) ==
  /\ MayAcquire(t)
  /\ owner' = t
  /\ depth' = depth + 1

Release(t) ==
  /\ depth' = depth - 1
  /\ owner' = IF depth = 1 THEN None ELSE t

-------------------------------------------------------------------------------
(* The session.  One that was lost is replaced at the next statement, by   *)
(* one without a transaction.                                              *)

Plus(f, g) == [w \in Writes |-> f[w] + g[w]]

(* What the server does with a statement.  A BEGIN commits the transaction *)
(* that is open.                                                           *)
Effect(s) ==
  /\ inTransaction' = (inTransaction \/ s = "BEGIN")
  /\ \/ s = "READ" /\ UNCHANGED <<tentative, durable>>
     \/ s = "BEGIN" /\ tentative' = Nothing /\ durable' = Plus(durable, tentative)
     \/ /\ s \in Writes /\ inTransaction
        /\ tentative' = [tentative EXCEPT ![s] = @ + 1]
        /\ UNCHANGED durable
     \/ /\ s \in Writes /\ ~inTransaction
        /\ durable' = [durable EXCEPT ![s] = @ + 1]
        /\ UNCHANGED tentative

(* The transaction of the session ends.                                    *)
EndTransaction ==
  /\ inTransaction' = FALSE
  /\ tentative' = Nothing

(* The session ends; the server rolls its transaction back.                *)
Lose ==
  /\ losses < MaxLosses
  /\ losses' = losses + 1
  /\ undone' = undone \cup {w \in Writes : tentative[w] > 0}
  /\ EndTransaction

-------------------------------------------------------------------------------
(* executeQuery and storeQuery *)

Call(t, s) ==
  /\ statement' = [statement EXCEPT ![t] = s]
  /\ pc' = [pc EXCEPT ![t] = "lock"]

Execute(t, w) ==
  /\ pc[t] = "idle"
  /\ w \notin used
  /\ used' = used \cup {w}
  /\ Call(t, w)
  /\ UNCHANGED <<lockVars, state, sessionVars, historyVars>>

Store(t) ==
  /\ pc[t] = "idle"
  /\ Call(t, "READ")
  /\ UNCHANGED <<lockVars, state, sessionVars, used, historyVars>>

Lock(t) ==
  /\ pc[t] = "lock"
  /\ Acquire(t)
  /\ pc' = [pc EXCEPT ![t] = "query"]
  /\ UNCHANGED <<statement, state, sessionVars, used, historyVars>>

QuerySucceeds(t) ==
  /\ pc[t] = "query"
  /\ Effect(statement[t])
  /\ pc' = [pc EXCEPT ![t] = "succeeded"]
  /\ caught' = IF inTransaction /\ state[t] # "START"
               THEN caught \cup ({statement[t]} \cap Writes) ELSE caught
  /\ UNCHANGED <<lockVars, statement, state, losses, undone, unheard, used,
                 mine, answered>>

(* An error that is not a loss of the session ends the loop.  Bound: BEGIN *)
(* is never refused.                                                       *)
QueryRefused(t) ==
  /\ pc[t] = "query"
  /\ statement[t] # "BEGIN"
  /\ pc' = [pc EXCEPT ![t] = "failed"]
  /\ UNCHANGED <<lockVars, statement, state, sessionVars, used, historyVars>>

(* The session is lost before the server executes the statement, or after  *)
(* it did and before the answer arrives; the loop goes on in either case.  *)
SessionLost(t) ==
  /\ pc[t] = "query"
  /\ Lose
  /\ \/ UNCHANGED <<durable, unheard>>
     \/ /\ statement[t] \in Writes /\ ~inTransaction
        /\ durable' = [durable EXCEPT ![statement[t]] = @ + 1]
        /\ unheard' = unheard \cup {statement[t]}
     \/ /\ statement[t] = "BEGIN"
        /\ durable' = Plus(durable, tentative)
        /\ UNCHANGED unheard
  /\ UNCHANGED <<lockVars, pc, statement, state, used, historyVars>>

(* executeQuery unlocks and returns; beginTransaction then takes the lock  *)
(* again.                                                                  *)
ReportedDespiteError(t) == {statement[t]} \cap Writes
Reported(t) == IF pc[t] = "succeeded" THEN {statement[t]} \cap Writes ELSE {}
Return(t) ==
  /\ pc[t] \in {"succeeded", "failed"}
  /\ Release(t)
  /\ pc' = [pc EXCEPT ![t] = IF statement[t] = "BEGIN" THEN "relock" ELSE "idle"]
  /\ IF state[t] = "START"
     THEN /\ mine' = [mine EXCEPT ![t] = @ \cup Reported(t)]
          /\ UNCHANGED answered
     ELSE /\ answered' = answered \cup Reported(t)
          /\ UNCHANGED mine
  /\ UNCHANGED <<statement, state, sessionVars, used, caught>>

-------------------------------------------------------------------------------
(* DBTransaction *)

Begin(t) ==
  /\ pc[t] = "idle"
  /\ state[t] = "NO_START"
  /\ state' = [state EXCEPT ![t] = "START"]
  /\ Call(t, "BEGIN")
  /\ UNCHANGED <<lockVars, sessionVars, used, historyVars>>

Relock(t) ==
  /\ pc[t] = "relock"
  /\ Acquire(t)
  /\ pc' = [pc EXCEPT ![t] = "idle"]
  /\ UNCHANGED <<statement, state, sessionVars, used, historyVars>>

(* COMMIT is not sent again when the session is lost, before or after the  *)
(* server has obeyed; the lock is given up in either case.                 *)
KeepLock(t) == UNCHANGED lockVars
UnlockAfterError(t) == Release(t)
Commit(t) ==
  /\ pc[t] = "idle"
  /\ state[t] = "START"
  /\ state' = [state EXCEPT ![t] = "COMMIT"]
  /\ \/ /\ durable' = Plus(durable, tentative)
        /\ Release(t)
        /\ EndTransaction
        /\ answered' = answered \cup mine[t]
        /\ UNCHANGED <<losses, undone>>
     \/ /\ Lose
        /\ UnlockAfterError(t)
        /\ durable' \in {durable, Plus(durable, tentative)}
        /\ UNCHANGED answered
  /\ UNCHANGED <<pc, statement, unheard, used, mine, caught>>

(* The destructor rolls a started transaction back; afterwards the thread  *)
(* may make a new one.                                                     *)
Destroy(t) ==
  /\ pc[t] = "idle"
  /\ state[t] # "NO_START"
  /\ state' = [state EXCEPT ![t] = "NO_START"]
  /\ mine' = [mine EXCEPT ![t] = {}]
  /\ \/ /\ state[t] = "COMMIT"
        /\ UNCHANGED <<lockVars, inTransaction, tentative, losses, undone>>
     \/ /\ state[t] = "START"
        /\ Release(t)
        /\ \/ EndTransaction /\ UNCHANGED <<losses, undone>>
           \/ Lose
  /\ UNCHANGED <<pc, statement, durable, unheard, used, answered, caught>>

(* The steps of a statement that has begun; one at a time is enabled.      *)
Proceed(t) ==
  \/ Lock(t)
  \/ QuerySucceeds(t)
  \/ QueryRefused(t)
  \/ Return(t)
  \/ Relock(t)

Next ==
  \E t \in Threads :
    \/ \E w \in Writes : Execute(t, w)
    \/ Store(t)
    \/ Proceed(t)
    \/ SessionLost(t)
    \/ Begin(t)
    \/ Commit(t)
    \/ Destroy(t)

Spec == Init /\ [][Next]_vars

(* A statement that is sent is answered in the end (the losses are         *)
(* bounded), the lock is not withheld from one thread for ever, and a      *)
(* transaction, an object of some scope, ends.                             *)
Fairness == \A t \in Threads : SF_vars(Proceed(t)) /\ SF_vars(Destroy(t))
FairSpec == Spec /\ Fairness

-------------------------------------------------------------------------------
(* Properties *)

Holds(t) ==
  \/ pc[t] \in {"query", "succeeded", "failed"}
  \/ state[t] = "START" /\ statement[t] # "BEGIN"
  \/ state[t] = "START" /\ pc[t] = "idle"

(* Each variable stays in its type, and the lock is held by who is in a    *)
(* query or between a successful begin() and the end of its transaction,   *)
(* as often as it has taken it.                                            *)
TypeOK ==
  /\ owner \in Threads \cup {None}
  /\ depth \in 0..2
  /\ owner = None <=> depth = 0
  /\ pc \in [Threads -> {"idle", "lock", "query", "succeeded", "failed", "relock"}]
  /\ statement \in [Threads -> Writes \cup {"BEGIN", "READ", "none"}]
  /\ state \in [Threads -> {"NO_START", "START", "COMMIT"}]
  /\ inTransaction \in BOOLEAN
  /\ tentative \in [Writes -> 0..1]
  /\ durable \in [Writes -> 0..(1 + MaxLosses)]
  /\ losses \in 0..MaxLosses
  /\ mine \in [Threads -> SUBSET used]
  /\ {used, answered, undone, caught, unheard} \subseteq SUBSET Writes
  /\ \A t \in Threads : Holds(t) <=> owner = t

(* What the program was told is done has been done and stays done, once,   *)
(* unless the session was lost in its transaction, or in front of its      *)
(* answer, or it fell into the transaction of another thread.              *)
AnswerIsKept ==
  /\ TypeOK
  /\ \A w \in answered \ (undone \cup caught) : durable[w] >= 1
  /\ \A w \in Writes \ unheard : durable[w] <= 1

(* Every statement is answered in the end: no thread keeps the lock for    *)
(* ever, and none waits for itself.                                        *)
QueriesReturn ==
  \A t \in Threads : pc[t] = "lock" ~> pc[t] = "idle"
===============================================================================
