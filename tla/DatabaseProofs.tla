---------------------------- MODULE DatabaseProofs ----------------------------
(***************************************************************************)
(* Proofs about Database for any threads, any writes and any number of     *)
(* losses of the session, and about Inserts for rows of any lengths.       *)
(***************************************************************************)
EXTENDS Database, Inserts, TLAPS

(* The thread is inside of executeQuery or storeQuery, with the lock.      *)
InQuery(t) == pc[t] \in {"query", "succeeded", "failed"}

(* The thread is between a begin() that has returned and the end of its    *)
(* transaction.                                                            *)
InTransaction(t) ==
  state[t] = "START" /\ (statement[t] # "BEGIN" \/ pc[t] = "idle")

(* How often the thread has taken the lock.                                *)
Taken(t) ==
  (IF InQuery(t) THEN 1 ELSE 0) + (IF InTransaction(t) THEN 1 ELSE 0)

PlaceTypes ==
  /\ pc \in [Threads -> {"idle", "lock", "query", "succeeded", "failed", "relock"}]
  /\ statement \in [Threads -> Writes \cup {"BEGIN", "READ", "none"}]
  /\ state \in [Threads -> {"NO_START", "START", "COMMIT"}]

Types ==
  /\ owner \in Threads \cup {None}
  /\ depth \in Nat
  /\ PlaceTypes
  /\ inTransaction \in BOOLEAN
  /\ tentative \in [Writes -> Nat]
  /\ durable \in [Writes -> Nat]
  /\ losses \in 0..MaxLosses
  /\ mine \in [Threads -> SUBSET used]
  /\ used \subseteq Writes
  /\ answered \cup undone \cup caught \cup unheard \subseteq Writes

(* What t is doing agrees with the state of its transaction.               *)
Sensible(t) ==
  /\ pc[t] = "relock" => statement[t] = "BEGIN"
  /\ pc[t] = "failed" => statement[t] # "BEGIN"
  /\ pc[t] # "idle" /\ statement[t] = "BEGIN" => state[t] = "START"
  /\ state[t] = "START" => statement[t] # "none"

Locking ==
  /\ \A t \in Threads : Sensible(t)
  /\ \A t \in Threads :
       /\ Taken(t) > 0 <=> owner = t
       /\ owner = t => depth = Taken(t)
  /\ owner = None => depth = 0

(* A write is given to one call of executeQuery.                           *)
GivenOnce ==
  \A t \in Threads :
    statement[t] \in Writes =>
      /\ statement[t] \in used
      /\ \A u \in Threads : statement[u] = statement[t] => u = t

(* How often a write has had an effect: not before its execution, and more *)
(* than once only if the answer was lost.                                  *)
Counted(w, n) ==
  /\ tentative[w] <= n
  /\ durable[w] + tentative[w] <= n + losses
  /\ w \notin unheard => durable[w] + tentative[w] <= n

Effects ==
  /\ \A w \in Writes : Counted(w, IF w \in used THEN 1 ELSE 0)
  /\ \A w \in Writes \ used : durable[w] + tentative[w] = 0
  /\ \A t \in Threads :
       pc[t] \in {"lock", "query"} /\ statement[t] \in Writes =>
         Counted(statement[t], 0)
  /\ ~inTransaction => tentative = Nothing

(* A write that was executed has an effect, if it is not one of those that *)
(* are known to have lost it: in the transaction, for one in a transaction.*)
Kept(w) == durable[w] > 0 \/ w \in undone \cup caught
KeptByNow(w) == Kept(w) \/ tentative[w] > 0

Answers ==
  /\ \A w \in answered : Kept(w)
  /\ \A t \in Threads :
       /\ pc[t] = "succeeded" /\ statement[t] \in Writes =>
            IF state[t] = "START" THEN KeptByNow(statement[t])
            ELSE Kept(statement[t])
       /\ state[t] = "START" => \A w \in mine[t] : KeptByNow(w)
       /\ mine[t] # {} => InTransaction(t) \/ state[t] = "COMMIT"

DatabaseInv == Types /\ Locking /\ GivenOnce /\ Effects /\ Answers

-------------------------------------------------------------------------------
(* The lock *)

(* A step of one thread leaves the places of the others alone.             *)
OnlyMoves(t) ==
  \A u \in Threads \ {t} :
    /\ pc'[u] = pc[u] /\ statement'[u] = statement[u]
    /\ state'[u] = state[u] /\ mine'[u] = mine[u]

(* How often a thread has taken the lock is zero, one or two.              *)
LEMMA TakenRange ==
  ASSUME NEW t \in Threads
  PROVE  Taken(t) \in 0..2 /\ Taken(t)' \in 0..2
BY DEF Taken

(* A step keeps the lock, takes it once more or gives it back once, and    *)
(* the thread's place says so.                                             *)
MovesLock(t) ==
  /\ PlaceTypes' /\ OnlyMoves(t) /\ Sensible(t)'
  /\ \/ UNCHANGED lockVars /\ Taken(t)' = Taken(t)
     \/ Acquire(t) /\ Taken(t)' = Taken(t) + 1
     \/ Release(t) /\ Taken(t) > 0 /\ Taken(t)' = Taken(t) - 1

(* Then the lock stays in order.                                           *)
LEMMA LockStep ==
  ASSUME Types, Locking, NEW t \in Threads, MovesLock(t)
  PROVE  Locking' /\ owner' \in Threads \cup {None} /\ depth' \in Nat
<1>0. /\ OnlyMoves(t) /\ Sensible(t)'
      /\ \/ UNCHANGED lockVars /\ Taken(t)' = Taken(t)
         \/ Acquire(t) /\ Taken(t)' = Taken(t) + 1
         \/ Release(t) /\ Taken(t) > 0 /\ Taken(t)' = Taken(t) - 1
  BY DEF MovesLock
<1>1. \A u \in Threads \ {t} : /\ Sensible(u)' <=> Sensible(u)
                               /\ Taken(u)' = Taken(u)
  BY <1>0 DEF OnlyMoves, Sensible, Taken, InQuery, InTransaction
<1>2. /\ \A u \in Threads : Sensible(u)
      /\ \A u \in Threads :
           /\ Taken(u) > 0 <=> owner = u
           /\ owner = u => depth = Taken(u)
      /\ owner = None => depth = 0
      /\ None \notin Threads /\ owner \in Threads \cup {None}
  BY DatabaseAssumption DEF Locking, Types
<1>3. \A u \in Threads : Sensible(u)'
  BY <1>0, <1>1, <1>2
<1> DEFINE n == Taken(t)
           m == Taken(t)'
<1>4. n \in 0..2 /\ m \in 0..2
  BY TakenRange
<1>5. \A u \in Threads \ {t} : Taken(u)' > 0 <=> owner = u
  BY <1>1, <1>2
<1>6. n > 0 <=> owner = t
  BY <1>2
<1>7. owner = t => depth = n
  BY <1>2
<1>8. CASE UNCHANGED lockVars /\ m = n
  <2>1. owner' = owner /\ depth' = depth
    BY <1>8 DEF lockVars
  <2>2. Taken(t)' = Taken(t)
    BY <1>8
  <2>3. \A u \in Threads : Taken(u)' = Taken(u)
    BY <1>1, <2>2
  <2>4. \A u \in Threads :
          /\ Taken(u)' > 0 <=> owner' = u
          /\ owner' = u => depth' = Taken(u)'
    BY <1>2, <2>1, <2>3
  <2>5. depth' \in Nat
    BY <2>1 DEF Types
  <2> QED
    BY <1>2, <1>3, <2>1, <2>4, <2>5 DEF Locking
<1>9. CASE Acquire(t) /\ m = n + 1
  <2>1. owner \in {None, t} /\ owner' = t /\ depth' = depth + 1
    BY <1>9 DEF Acquire, MayAcquire
  <2>2. depth = n
    <3>1. CASE owner = t
      BY <1>7, <3>1
    <3>2. CASE owner = None
      BY <1>2, <1>4, <1>6, <3>2
    <3> QED
      BY <2>1, <3>1, <3>2
  <2>3. m > 0 /\ depth' = m
    BY <1>4, <1>9, <2>1, <2>2
  <2> HIDE DEF n
  <2>4. \A u \in Threads \ {t} : Taken(u)' > 0 <=> owner' = u
    BY <1>2, <1>5, <2>1
  <2>5. owner' # None
    BY <1>2, <2>1
  <2> QED
    BY <1>3, <1>4, <2>1, <2>3, <2>4, <2>5 DEF Locking
<1>10. CASE Release(t) /\ n > 0 /\ m = n - 1
  <2>1. owner = t /\ depth = n
    BY <1>6, <1>7, <1>10
  <2>2. depth' = m /\ owner' = (IF m = 0 THEN None ELSE t)
    <3>1. depth' = depth - 1 /\ owner' = IF depth = 1 THEN None ELSE t
      BY <1>10 DEF Release
    <3> HIDE DEF n, m
    <3>2. depth = 1 <=> m = 0
      BY <1>4, <1>10, <2>1
    <3> QED
      BY <1>10, <2>1, <3>1, <3>2
  <2>3. \A u \in Threads \ {t} : Taken(u)' > 0 <=> owner' = u
    BY <1>2, <1>5, <2>1, <2>2
  <2>4. m > 0 <=> owner' = t
    BY <1>2, <1>4, <2>2
  <2>5. (owner' = None => depth' = 0) /\ (owner' = t => depth' = m)
    BY <1>2, <2>2
  <2>6. owner' \in {None, t} /\ depth' \in Nat
    BY <1>4, <2>2
  <2> HIDE DEF n, m
  <2>7. \A u \in Threads \ {t} : owner' # u
    BY <1>2, <2>6
  <2> QED
    BY <1>2, <1>3, <2>3, <2>4, <2>5, <2>6, <2>7 DEF Locking, m
<1> QED
  BY <1>0, <1>8, <1>9, <1>10


(* A call of executeQuery or storeQuery begins; for BEGIN it is begin().   *)
LEMMA CallMoves ==
  ASSUME Types, Locking, NEW t \in Threads, pc[t] = "idle",
         NEW s \in Writes \cup {"BEGIN", "READ"}, Call(t, s),
         IF s = "BEGIN" THEN /\ state[t] = "NO_START"
                             /\ state' = [state EXCEPT ![t] = "START"]
                        ELSE UNCHANGED state,
         UNCHANGED <<lockVars, mine>>
  PROVE  MovesLock(t)
<1>1. /\ PlaceTypes /\ mine \in [Threads -> SUBSET used] /\ Sensible(t)
      /\ {"BEGIN", "READ", "none"} \cap Writes = {}
  BY DatabaseAssumption DEF Types, Locking
<1> USE DEF PlaceTypes, OnlyMoves, Sensible, Taken, InQuery, InTransaction
<1>2. /\ pc' = [pc EXCEPT ![t] = "lock"] /\ statement' = [statement EXCEPT ![t] = s]
      /\ state' = [state EXCEPT ![t] = IF s = "BEGIN" THEN "START" ELSE @]
  BY <1>1 DEF Call
<1>3. PlaceTypes' /\ OnlyMoves(t)
  BY <1>1, <1>2
<1>4. Sensible(t)'
  BY <1>1, <1>2
<1>5. Taken(t)' = Taken(t)
  BY <1>1, <1>2
<1> QED
  BY <1>3, <1>4, <1>5 DEF MovesLock

(* The other steps of a statement and of a transaction.                    *)
LEMMA PlaceMoves ==
  ASSUME Types, Locking, NEW t \in Threads,
         Proceed(t) \/ SessionLost(t) \/ Commit(t) \/ Destroy(t)
  PROVE  MovesLock(t)
<1>1. /\ PlaceTypes /\ mine \in [Threads -> SUBSET used] /\ Sensible(t)
      /\ {"BEGIN", "READ", "none"} \cap Writes = {}
  BY DatabaseAssumption DEF Types, Locking
<1> USE DEF PlaceTypes, OnlyMoves, Sensible, Taken, InQuery, InTransaction
<1>2. CASE Lock(t)
  BY <1>1, <1>2 DEF Lock, MovesLock, historyVars
<1>3. CASE QuerySucceeds(t)
  BY <1>1, <1>3 DEF QuerySucceeds, MovesLock
<1>4. CASE QueryRefused(t)
  BY <1>1, <1>4 DEF QueryRefused, MovesLock, historyVars
<1>5. CASE Return(t)
  BY <1>1, <1>5 DEF Return, MovesLock
<1>6. CASE Relock(t)
  BY <1>1, <1>6 DEF Relock, MovesLock, historyVars
<1>7. CASE SessionLost(t)
  BY <1>1, <1>7 DEF SessionLost, MovesLock, historyVars
<1>8. CASE Commit(t)
  BY <1>1, <1>8 DEF Commit, MovesLock, UnlockAfterError
<1>9. CASE Destroy(t)
  BY <1>1, <1>9 DEF Destroy, MovesLock
<1> QED
  BY <1>2, <1>3, <1>4, <1>5, <1>6, <1>7, <1>8, <1>9 DEF Proceed

(* What a thread may do.                                                   *)
Moves(t) ==
  \/ \E w \in Writes : Execute(t, w)
  \/ Store(t)
  \/ Proceed(t)
  \/ SessionLost(t)
  \/ Begin(t)
  \/ Commit(t)
  \/ Destroy(t)

(* Every step of a thread moves the lock as its place says.                *)
LEMMA MovesMoveLock ==
  ASSUME Types, Locking, NEW t \in Threads, Moves(t)
  PROVE  MovesLock(t)
<1>1. {"BEGIN", "READ", "none"} \cap Writes = {}
  BY DatabaseAssumption
<1>2. ASSUME NEW w \in Writes, Execute(t, w) PROVE MovesLock(t)
  <2>1. /\ Call(t, w) /\ pc[t] = "idle" /\ w # "BEGIN"
        /\ UNCHANGED <<state, lockVars, mine>>
    BY <1>1, <1>2 DEF Execute, historyVars
  <2> QED
    BY <2>1, CallMoves
<1>3. CASE Store(t)
  <2>1. Call(t, "READ") /\ pc[t] = "idle" /\ UNCHANGED <<state, lockVars, mine>>
    BY <1>3 DEF Store, historyVars
  <2> QED
    BY <2>1, CallMoves
<1>4. CASE Begin(t)
  <2>1. /\ Call(t, "BEGIN") /\ pc[t] = "idle" /\ state[t] = "NO_START"
        /\ state' = [state EXCEPT ![t] = "START"] /\ UNCHANGED <<lockVars, mine>>
    BY <1>4 DEF Begin, historyVars
  <2> QED
    BY <2>1, CallMoves
<1>5. CASE Proceed(t) \/ SessionLost(t) \/ Commit(t) \/ Destroy(t)
  BY <1>5, PlaceMoves
<1> QED
  BY <1>2, <1>3, <1>4, <1>5 DEF Moves

(* What the loss of the session does: its transaction is rolled back.      *)
LEMMA LoseProperties ==
  ASSUME Types, Lose
  PROVE  /\ inTransaction' = FALSE /\ tentative' = Nothing /\ losses' = losses + 1
         /\ losses' \in 0..MaxLosses
         /\ undone \subseteq undone' /\ undone' \subseteq Writes
         /\ \A w \in Writes : tentative[w] > 0 => w \in undone'
<1>1. losses \in 0..MaxLosses /\ MaxLosses \in Nat /\ undone \subseteq Writes
  BY DatabaseAssumption DEF Types
<1>2. undone' = undone \cup {w \in Writes : tentative[w] > 0}
  BY DEF Lose
<1>3. \A w \in Writes : tentative[w] > 0 => w \in undone'
  BY <1>2
<1>4. losses' = losses + 1 /\ losses' \in 0..MaxLosses
  BY <1>1 DEF Lose
<1>5. inTransaction' = FALSE /\ tentative' = Nothing
  BY DEF Lose, EndTransaction
<1> QED
  BY <1>1, <1>2, <1>3, <1>4, <1>5

(* The session and the histories keep their types.                         *)
LEMMA TypesStep ==
  ASSUME Types, Locking, GivenOnce, NEW t \in Threads, Moves(t)
  PROVE  Types'
<1>1. /\ PlaceTypes' /\ owner' \in Threads \cup {None} /\ depth' \in Nat
  BY MovesMoveLock, LockStep DEF MovesLock
<1>2. /\ PlaceTypes /\ losses \in 0..MaxLosses
      /\ inTransaction \in BOOLEAN
      /\ tentative \in [Writes -> Nat] /\ durable \in [Writes -> Nat]
      /\ mine \in [Threads -> SUBSET used]
      /\ used \subseteq Writes
      /\ answered \cup undone \cup caught \cup unheard \subseteq Writes
      /\ Nothing \in [Writes -> Nat]
      /\ Plus(durable, tentative) \in [Writes -> Nat]
  BY DEF Types, Plus, Nothing
<1>3. MaxLosses \in Nat
  BY DatabaseAssumption
<1>4. /\ inTransaction' \in BOOLEAN /\ tentative' \in [Writes -> Nat]
      /\ durable' \in [Writes -> Nat] /\ losses' \in 0..MaxLosses
      /\ undone' \cup unheard' \subseteq Writes
  <2>1. CASE UNCHANGED sessionVars
    BY <1>2, <2>1 DEF sessionVars
  <2>2. CASE QuerySucceeds(t)
    BY <1>2, <2>2 DEF QuerySucceeds, Effect
  <2>3. CASE SessionLost(t)
    <3>1. /\ inTransaction' = FALSE /\ tentative' = Nothing /\ losses' \in 0..MaxLosses
          /\ undone' \subseteq Writes
      BY <2>3, LoseProperties DEF SessionLost
    <3>2. \/ UNCHANGED <<durable, unheard>>
          \/ /\ statement[t] \in Writes
             /\ durable' = [durable EXCEPT ![statement[t]] = @ + 1]
             /\ unheard' = unheard \cup {statement[t]}
          \/ durable' = Plus(durable, tentative) /\ UNCHANGED unheard
      BY <2>3 DEF SessionLost
    <3>3. durable' \in [Writes -> Nat] /\ unheard' \subseteq Writes
      BY <1>2, <3>2
    <3> QED
      BY <1>2, <3>1, <3>3
  <2>4. CASE Commit(t)
    <3>1. Lose => /\ inTransaction' = FALSE /\ tentative' = Nothing
                  /\ losses' \in 0..MaxLosses /\ undone' \subseteq Writes
      BY LoseProperties
    <3> QED
      BY <1>2, <2>4, <3>1 DEF Commit, EndTransaction
  <2>5. CASE Destroy(t)
    <3>1. Lose => /\ inTransaction' = FALSE /\ tentative' = Nothing
                  /\ losses' \in 0..MaxLosses /\ undone' \subseteq Writes
      BY LoseProperties
    <3> QED
      BY <1>2, <2>5, <3>1 DEF Destroy, EndTransaction
  <2> QED
    BY <2>1, <2>2, <2>3, <2>4, <2>5
       DEF Moves, Proceed, Execute, Store, Lock, QueryRefused, Return, Begin, Relock
<1>5. /\ mine' \in [Threads -> SUBSET used']
      /\ used' \subseteq Writes /\ answered' \cup caught' \subseteq Writes
  <2>1. CASE UNCHANGED <<used, historyVars>>
    BY <1>2, <2>1 DEF historyVars
  <2>2. ASSUME NEW w \in Writes, Execute(t, w)
        PROVE  /\ mine' \in [Threads -> SUBSET used']
               /\ used' \subseteq Writes /\ answered' \cup caught' \subseteq Writes
    BY <1>2, <2>2 DEF Execute, historyVars
  <2>3. CASE QuerySucceeds(t)
    BY <1>2, <2>3 DEF QuerySucceeds
  <2>4. CASE Return(t)
    <3>1. Reported(t) \subseteq Writes /\ (Reported(t) # {} => statement[t] \in Writes)
      BY DEF Reported
    <3>2. Reported(t) \subseteq used
      <4>1. statement[t] \in Writes => statement[t] \in used
        BY DEF GivenOnce
      <4> QED
        BY <4>1 DEF Reported
    <3> HIDE DEF Reported
    <3> QED
      BY <1>2, <2>4, <3>1, <3>2 DEF Return
  <2>5. CASE Commit(t)
    BY <1>2, <2>5 DEF Commit
  <2>6. CASE Destroy(t)
    BY <1>2, <2>6 DEF Destroy
  <2> QED
    BY <2>1, <2>2, <2>3, <2>4, <2>5, <2>6
       DEF Moves, Proceed, Store, Lock, QueryRefused, SessionLost, Begin, Relock
<1> QED
  BY <1>1, <1>4, <1>5 DEF Types

(* A write is given to executeQuery once.                                  *)
LEMMA GivenOnceStep ==
  ASSUME Types, Locking, GivenOnce, NEW t \in Threads, Moves(t)
  PROVE  GivenOnce'
<1>1. statement \in [Threads -> Writes \cup {"BEGIN", "READ", "none"}]
  BY DEF Types, PlaceTypes
<1>2. {"BEGIN", "READ", "none"} \cap Writes = {}
  BY DatabaseAssumption
<1>3. CASE UNCHANGED <<statement, used>>
  BY <1>3 DEF GivenOnce
<1>4. ASSUME NEW w \in Writes, Execute(t, w) PROVE GivenOnce'
  BY <1>1, <1>4 DEF Execute, Call, GivenOnce
<1>5. CASE Store(t) \/ Begin(t)
  BY <1>1, <1>2, <1>5 DEF Store, Begin, Call, GivenOnce
<1> QED
  BY <1>3, <1>4, <1>5 DEF Moves, Proceed, Lock, QuerySucceeds, QueryRefused,
     Return, Relock, SessionLost, Commit, Destroy

-------------------------------------------------------------------------------
(* What becomes of the writes *)

(* A step that gives no write an effect, and starts none, miscounts none.  *)
LEMMA EffectsShrink ==
  ASSUME Types, Effects, Types', UNCHANGED used, losses <= losses',
         unheard \subseteq unheard',
         inTransaction' = FALSE => tentative' = Nothing,
         \A w \in Writes : /\ tentative'[w] <= tentative[w]
                          /\ durable'[w] + tentative'[w] <= durable[w] + tentative[w],
         \A u \in Threads :
           pc'[u] \in {"lock", "query"} /\ statement'[u] \in Writes =>
             pc[u] \in {"lock", "query"} /\ statement'[u] = statement[u]
  PROVE  Effects'
<1>1. /\ losses \in Nat /\ losses' \in Nat
      /\ \A w \in Writes : /\ durable[w] \in Nat /\ tentative[w] \in Nat
                           /\ durable'[w] \in Nat /\ tentative'[w] \in Nat
  BY DatabaseAssumption DEF Types
<1>2. ASSUME NEW w \in Writes, NEW n \in {0, 1}, Counted(w, n)
      PROVE  Counted(w, n)'
  BY <1>1, <1>2 DEF Counted
<1>3. (\A w \in Writes : Counted(w, IF w \in used THEN 1 ELSE 0))'
  <2>1. ASSUME NEW w \in Writes PROVE Counted(w, IF w \in used THEN 1 ELSE 0)'
    <3>1. CASE w \in used
      BY <1>2, <3>1 DEF Effects
    <3>2. CASE w \notin used
      BY <1>2, <3>2 DEF Effects
    <3> QED
      BY <3>1, <3>2
  <2> QED
    BY <2>1
<1>4. (\A w \in Writes \ used : durable[w] + tentative[w] = 0)'
  BY <1>1 DEF Effects
<1>5. (\A u \in Threads :
         pc[u] \in {"lock", "query"} /\ statement[u] \in Writes =>
           Counted(statement[u], 0))'
  <2>1. ASSUME NEW u \in Threads, pc'[u] \in {"lock", "query"},
               statement'[u] \in Writes
        PROVE  Counted(statement[u], 0)'
    <3> DEFINE w == statement[u]
    <3>1. w \in Writes /\ statement'[u] = w /\ Counted(w, 0)
      BY <2>1 DEF Effects
    <3> HIDE DEF w
    <3>2. Counted(w, 0)
      BY <3>1
    <3>3. /\ tentative'[w] <= 0 /\ durable'[w] + tentative'[w] <= 0 + losses'
          /\ w \notin unheard' => durable'[w] + tentative'[w] <= 0
      BY <1>1, <3>1, <3>2 DEF Counted
    <3> QED
      BY <3>1, <3>3 DEF Counted
  <2> QED
    BY <2>1
<1>6. (~inTransaction => tentative = Nothing)'
  BY DEF Types, Nothing
<1> QED
  BY <1>3, <1>4, <1>5, <1>6 DEF Effects

(* The effects of a transaction are added to those that are durable.       *)
LEMMA SumProperties ==
  ASSUME Types
  PROVE  /\ \A w \in Writes : /\ Plus(durable, tentative)[w] = durable[w] + tentative[w]
                              /\ durable[w] \in Nat /\ tentative[w] \in Nat
                              /\ Nothing[w] = 0
         /\ losses \in Nat
BY DatabaseAssumption DEF Types, Plus, Nothing

(* The write that t executes has its one effect, or another one and its    *)
(* answer is lost.                                                         *)
LEMMA EffectsOfWrite ==
  ASSUME Types, Types', GivenOnce, Effects, NEW t \in Threads,
         NEW s \in Writes, pc[t] = "query", statement[t] = s,
         durable'[s] + tentative'[s] <= durable[s] + tentative[s] + 1,
         tentative'[s] <= tentative[s] + 1,
         \A w \in Writes \ {s} :
           /\ tentative'[w] <= tentative[w]
           /\ durable'[w] + tentative'[w] <= durable[w] + tentative[w],
         UNCHANGED <<used, statement>>, OnlyMoves(t),
         \/ pc'[t] = "succeeded" /\ UNCHANGED <<losses, unheard>>
         \/ /\ pc'[t] = "query" /\ losses' = losses + 1 /\ tentative'[s] = 0
            /\ unheard' = unheard \cup {s},
         inTransaction' = FALSE => tentative' = Nothing
  PROVE  Effects'
<1>1. s \in Writes /\ s \in used /\ \A u \in Threads : statement[u] = s => u = t
  BY DEF GivenOnce
<1>2. Counted(s, 0)
  BY DEF Effects
<1>3. /\ losses \in Nat /\ losses' \in Nat /\ losses <= losses'
      /\ \A w \in Writes : /\ durable[w] \in Nat /\ tentative[w] \in Nat
                           /\ durable'[w] \in Nat /\ tentative'[w] \in Nat
  BY DatabaseAssumption DEF Types
<1>4. statement'[t] = s /\ statement' = statement /\ used' = used
  OBVIOUS
<1>5. unheard \subseteq unheard'
  OBVIOUS
<1>6. /\ durable'[s] + tentative'[s] <= durable[s] + tentative[s] + 1
      /\ tentative'[s] <= tentative[s] + 1
  OBVIOUS
<1>7. \/ pc'[t] = "succeeded" /\ UNCHANGED <<losses, unheard>>
      \/ /\ pc'[t] = "query" /\ losses' = losses + 1 /\ s \in unheard'
         /\ tentative'[s] = 0
  OBVIOUS
<1>8. Counted(s, 1)'
  BY <1>1, <1>2, <1>3, <1>5, <1>6, <1>7 DEF Counted
<1>9. pc'[t] = "query" => Counted(s, 0)'
  BY <1>1, <1>2, <1>3, <1>6, <1>7 DEF Counted
<1>10. ASSUME NEW w \in Writes \ {s}, NEW n \in {0, 1}, Counted(w, n)
       PROVE  Counted(w, n)'
  <2>1. /\ tentative'[w] <= tentative[w]
        /\ durable'[w] + tentative'[w] <= durable[w] + tentative[w]
    OBVIOUS
  <2> QED
    BY <1>3, <1>5, <1>10, <2>1 DEF Counted
<1>11. (\A w \in Writes : Counted(w, IF w \in used THEN 1 ELSE 0))'
  <2>1. ASSUME NEW w \in Writes PROVE Counted(w, IF w \in used THEN 1 ELSE 0)'
    <3>1. CASE w = s
      BY <1>1, <1>4, <1>8, <3>1
    <3>2. CASE w # s /\ w \in used
      <4>1. Counted(w, 1)
        BY <3>2 DEF Effects
      <4> QED
        BY <1>4, <1>10, <3>2, <4>1
    <3>3. CASE w # s /\ w \notin used
      <4>1. Counted(w, 0)
        BY <3>3 DEF Effects
      <4> QED
        BY <1>4, <1>10, <3>3, <4>1
    <3> QED
      BY <3>1, <3>2, <3>3
  <2> QED
    BY <2>1
<1>12. (\A w \in Writes \ used : durable[w] + tentative[w] = 0)'
  <2>1. ASSUME NEW w \in Writes, w \notin used
        PROVE  durable'[w] + tentative'[w] = 0
    <3>1. w # s /\ durable[w] + tentative[w] = 0
      BY <1>1, <2>1 DEF Effects
    <3>2. durable'[w] + tentative'[w] <= durable[w] + tentative[w]
      BY <3>1
    <3> QED
      BY <1>3, <3>1, <3>2
  <2> QED
    BY <1>4, <2>1
<1>13. (\A u \in Threads :
         pc[u] \in {"lock", "query"} /\ statement[u] \in Writes =>
           Counted(statement[u], 0))'
  <2>1. ASSUME NEW u \in Threads, pc'[u] \in {"lock", "query"},
               statement'[u] \in Writes
        PROVE  Counted(statement[u], 0)'
    <3>1. CASE u = t
      BY <1>4, <1>7, <1>9, <2>1, <3>1
    <3>2. CASE u # t
      <4>1. PICK w \in Writes \ {s} :
              w = statement[u] /\ statement'[u] = w /\ Counted(w, 0)
        BY <1>1, <1>4, <2>1, <3>2 DEF Effects, OnlyMoves
      <4>2. Counted(w, 0)'
        BY <1>10, <4>1
      <4> QED
        BY <4>1, <4>2 DEF Counted
    <3> QED
      BY <3>1, <3>2
  <2> QED
    BY <2>1
<1>14. (~inTransaction => tentative = Nothing)'
  BY DEF Types, Nothing
<1> QED
  BY <1>11, <1>12, <1>13, <1>14 DEF Effects

(* Every step counts the effects as they should be.                        *)
LEMMA EffectsStep ==
  ASSUME Types, Types', Locking, GivenOnce, Effects,
         NEW t \in Threads, Moves(t)
  PROVE  Effects'
<1>1. /\ \A w \in Writes : /\ Plus(durable, tentative)[w] = durable[w] + tentative[w]
                           /\ durable[w] \in Nat /\ tentative[w] \in Nat
                           /\ Nothing[w] = 0
      /\ losses \in Nat
  BY SumProperties
<1>2. /\ PlaceTypes /\ durable \in [Writes -> Nat] /\ tentative \in [Writes -> Nat]
      /\ inTransaction \in BOOLEAN
      /\ {"BEGIN", "READ", "none"} \cap Writes = {}
      /\ inTransaction = FALSE => tentative = Nothing
  BY DatabaseAssumption DEF Types, Effects
<1>3. OnlyMoves(t)
  BY MovesMoveLock DEF MovesLock
<1>4. ASSUME UNCHANGED used, losses <= losses', unheard \subseteq unheard',
             inTransaction' = FALSE => tentative' = Nothing,
             \A w \in Writes :
               /\ tentative'[w] <= tentative[w]
               /\ durable'[w] + tentative'[w] <= durable[w] + tentative[w],
             pc'[t] \in {"lock", "query"} /\ statement'[t] \in Writes =>
               pc[t] \in {"lock", "query"} /\ statement'[t] = statement[t]
      PROVE  Effects'
  <2>1. \A u \in Threads :
           pc'[u] \in {"lock", "query"} /\ statement'[u] \in Writes =>
             pc[u] \in {"lock", "query"} /\ statement'[u] = statement[u]
    BY <1>3, <1>4 DEF OnlyMoves
  <2> QED
    BY <1>4, <2>1, EffectsShrink
<1>5. ASSUME NEW w \in Writes, Execute(t, w) PROVE Effects'
  <2>1. /\ w \notin used /\ used' = used \cup {w}
        /\ statement' = [statement EXCEPT ![t] = w]
        /\ UNCHANGED <<durable, tentative, inTransaction, losses, unheard>>
    BY <1>5 DEF Execute, Call, sessionVars
  <2>2. durable[w] = 0 /\ tentative[w] = 0
    BY <1>1, <2>1 DEF Effects
  <2>3. (\A v \in Writes : Counted(v, IF v \in used THEN 1 ELSE 0))'
    <3>1. ASSUME NEW v \in Writes PROVE Counted(v, IF v \in used THEN 1 ELSE 0)'
      <4>1. Counted(v, IF v \in used THEN 1 ELSE 0)
        BY DEF Effects
      <4>2. CASE v = w
        <5>1. Counted(v, 1)'
          BY <1>1, <2>1, <2>2, <4>2 DEF Counted
        <5> QED
          BY <2>1, <4>2, <5>1
      <4>3. CASE v # w
        BY <2>1, <4>1, <4>3 DEF Counted
      <4> QED
        BY <4>2, <4>3
    <3> QED
      BY <3>1
  <2>4. (\A v \in Writes \ used : durable[v] + tentative[v] = 0)'
    BY <2>1 DEF Effects
  <2>5. (\A u \in Threads :
           pc[u] \in {"lock", "query"} /\ statement[u] \in Writes =>
             Counted(statement[u], 0))'
    BY <1>1, <1>2, <1>3, <2>1, <2>2 DEF Effects, Counted, OnlyMoves, PlaceTypes
  <2>6. (~inTransaction => tentative = Nothing)'
    BY <2>1 DEF Effects, Nothing
  <2> QED
    BY <2>3, <2>4, <2>5, <2>6 DEF Effects
<1>6. CASE QuerySucceeds(t)
  <2>1. /\ pc[t] = "query" /\ pc'[t] = "succeeded" /\ Effect(statement[t])
        /\ UNCHANGED <<statement, losses, unheard, used>>
    BY <1>2, <1>6 DEF QuerySucceeds, PlaceTypes
  <2>2. inTransaction' = (inTransaction \/ statement[t] = "BEGIN")
    BY <2>1 DEF Effect
  <2>3. CASE UNCHANGED <<tentative, durable>>
    <3>1. inTransaction' = FALSE => tentative' = Nothing
      BY <1>2, <2>2, <2>3
    <3>2. losses <= losses' /\ unheard \subseteq unheard'
      BY <1>1, <2>1
    <3>3. \A w \in Writes :
             /\ tentative'[w] <= tentative[w]
             /\ durable'[w] + tentative'[w] <= durable[w] + tentative[w]
      BY <1>1, <2>3
    <3> QED
      BY <1>4, <2>1, <3>1, <3>2, <3>3
  <2>4. CASE /\ statement[t] = "BEGIN" /\ tentative' = Nothing
             /\ durable' = Plus(durable, tentative)
    <3>1. \A w \in Writes :
             /\ tentative'[w] <= tentative[w]
             /\ durable'[w] + tentative'[w] <= durable[w] + tentative[w]
      BY <1>1, <2>4
    <3> QED
      BY <1>1, <1>4, <2>1, <2>4, <3>1
  <2>5. CASE /\ statement[t] \in Writes /\ inTransaction
             /\ tentative' = [tentative EXCEPT ![statement[t]] = @ + 1]
             /\ UNCHANGED durable
    <3>1. PICK s \in Writes : s = statement[t]
      BY <2>5
    <3>2. /\ durable'[s] + tentative'[s] <= durable[s] + tentative[s] + 1
          /\ tentative'[s] <= tentative[s] + 1
          /\ \A w \in Writes \ {s} :
               /\ tentative'[w] <= tentative[w]
             /\ durable'[w] + tentative'[w] <= durable[w] + tentative[w]
      BY <1>1, <1>2, <2>5, <3>1
    <3>3. inTransaction'
      BY <2>2, <2>5
    <3> QED
      BY <1>3, <2>1, <3>1, <3>2, <3>3, EffectsOfWrite
  <2>6. CASE /\ statement[t] \in Writes /\ ~inTransaction
             /\ durable' = [durable EXCEPT ![statement[t]] = @ + 1]
             /\ UNCHANGED tentative
    <3>1. PICK s \in Writes : s = statement[t]
      BY <2>6
    <3>2. /\ durable'[s] + tentative'[s] <= durable[s] + tentative[s] + 1
          /\ tentative'[s] <= tentative[s] + 1
          /\ \A w \in Writes \ {s} :
               /\ tentative'[w] <= tentative[w]
             /\ durable'[w] + tentative'[w] <= durable[w] + tentative[w]
      BY <1>1, <1>2, <2>6, <3>1
    <3>3. tentative' = Nothing
      BY <1>2, <2>6
    <3> QED
      BY <1>3, <2>1, <3>1, <3>2, <3>3, EffectsOfWrite
  <2> QED
    BY <2>1, <2>3, <2>4, <2>5, <2>6 DEF Effect
<1>7. CASE SessionLost(t)
  <2>1. /\ pc[t] = "query" /\ Lose /\ UNCHANGED <<pc, statement, used>>
    BY <1>7 DEF SessionLost
  <2>2. inTransaction' = FALSE /\ tentative' = Nothing /\ losses' = losses + 1
    BY <2>1, LoseProperties
  <2>3. CASE UNCHANGED <<durable, unheard>>
    BY <1>1, <1>4, <2>1, <2>2, <2>3
  <2>4. CASE durable' = Plus(durable, tentative) /\ UNCHANGED unheard
    <3>1. \A w \in Writes :
             /\ tentative'[w] <= tentative[w]
             /\ durable'[w] + tentative'[w] <= durable[w] + tentative[w]
      BY <1>1, <2>2, <2>4
    <3> QED
      BY <1>1, <1>4, <2>1, <2>2, <2>4, <3>1
  <2>5. CASE /\ statement[t] \in Writes
             /\ durable' = [durable EXCEPT ![statement[t]] = @ + 1]
             /\ unheard' = unheard \cup {statement[t]}
    <3>1. PICK s \in Writes : s = statement[t]
      BY <2>5
    <3>2. /\ durable'[s] + tentative'[s] <= durable[s] + tentative[s] + 1
          /\ tentative'[s] <= tentative[s] + 1
          /\ \A w \in Writes \ {s} :
               /\ tentative'[w] <= tentative[w]
             /\ durable'[w] + tentative'[w] <= durable[w] + tentative[w]
      BY <1>1, <1>2, <2>2, <2>5, <3>1
    <3>3. pc'[t] = "query" /\ unheard' = unheard \cup {s} /\ tentative'[s] = 0
      BY <1>1, <2>1, <2>2, <2>5, <3>1
    <3> QED
      BY <1>3, <2>1, <2>2, <3>1, <3>2, <3>3, EffectsOfWrite
  <2> QED
    BY <1>7, <2>3, <2>4, <2>5 DEF SessionLost
<1>8. CASE Commit(t) \/ Destroy(t)
  <2>1. /\ UNCHANGED <<pc, statement, used, unheard>> /\ losses <= losses'
        /\ UNCHANGED <<inTransaction, tentative, durable>>
           \/ /\ inTransaction' = FALSE /\ tentative' = Nothing
              /\ durable' \in {durable, Plus(durable, tentative)}
    <3>1. Lose => /\ inTransaction' = FALSE /\ tentative' = Nothing
                  /\ losses' = losses + 1
      BY LoseProperties
    <3> QED
      BY <1>1, <1>8, <3>1 DEF Commit, Destroy, EndTransaction
  <2>2. \A w \in Writes :
             /\ tentative'[w] <= tentative[w]
             /\ durable'[w] + tentative'[w] <= durable[w] + tentative[w]
    BY <1>1, <2>1
  <2> QED
    BY <1>2, <1>4, <2>1, <2>2
<1>9. CASE /\ UNCHANGED <<sessionVars, used>>
           /\ pc'[t] \in {"lock", "query"} /\ statement'[t] \in Writes =>
                pc[t] \in {"lock", "query"} /\ statement'[t] = statement[t]
  <2>1. UNCHANGED <<durable, tentative, losses, unheard, inTransaction, used>>
    BY <1>9 DEF sessionVars
  <2>2. losses <= losses' /\ unheard \subseteq unheard'
    BY <1>1, <2>1
  <2>3. \A w \in Writes :
           /\ tentative'[w] <= tentative[w]
           /\ durable'[w] + tentative'[w] <= durable[w] + tentative[w]
    BY <1>1, <2>1
  <2>4. inTransaction' = FALSE => tentative' = Nothing
    BY <1>2, <2>1
  <2> QED
    BY <1>4, <1>9, <2>1, <2>2, <2>3, <2>4
<1>10. Lock(t) \/ QueryRefused(t) \/ Return(t) \/ Relock(t) \/ Store(t) \/ Begin(t)
       => /\ UNCHANGED <<sessionVars, used>>
          /\ pc'[t] \in {"lock", "query"} /\ statement'[t] \in Writes =>
               pc[t] \in {"lock", "query"} /\ statement'[t] = statement[t]
  BY <1>2 DEF Lock, QueryRefused, Return, Relock, Store, Begin, Call, PlaceTypes
<1> QED
  BY <1>5, <1>6, <1>7, <1>8, <1>9, <1>10 DEF Moves, Proceed

-------------------------------------------------------------------------------
(* What becomes of the answers *)

(* What is durable stays so, and what a transaction has done is kept until *)
(* its destructor rolls it back.                                           *)
LEMMA KeptStays ==
  ASSUME Types, Types', NEW t \in Threads, Moves(t), NEW w \in Writes
  PROVE  /\ Kept(w) => Kept(w)'
         /\ KeptByNow(w) /\ ~Destroy(t) => KeptByNow(w)'
         /\ KeptByNow(w) /\ Commit(t) => Kept(w)'
<1>1. /\ Plus(durable, tentative)[w] = durable[w] + tentative[w]
      /\ durable[w] \in Nat /\ tentative[w] \in Nat
      /\ durable \in [Writes -> Nat] /\ tentative \in [Writes -> Nat]
  BY SumProperties DEF Types
<1>2. Lose => undone \subseteq undone' /\ (tentative[w] > 0 => w \in undone')
  BY LoseProperties
<1> USE DEF Kept, KeptByNow
<1>3. ASSUME UNCHANGED <<sessionVars, caught>>
      PROVE  (Kept(w) => Kept(w)') /\ (KeptByNow(w) => KeptByNow(w)')
  BY <1>3 DEF sessionVars
<1>4. ASSUME QuerySucceeds(t)
      PROVE  (Kept(w) => Kept(w)') /\ (KeptByNow(w) => KeptByNow(w)')
  <2>1. UNCHANGED undone /\ caught \subseteq caught'
    BY <1>4 DEF QuerySucceeds
  <2>2. \/ durable'[w] >= durable[w] /\ tentative'[w] >= tentative[w]
        \/ durable'[w] = durable[w] + tentative[w]
    BY <1>1, <1>4 DEF QuerySucceeds, Effect
  <2>3. durable'[w] \in Nat /\ tentative'[w] \in Nat
    BY DEF Types
  <2> QED
    BY <1>1, <2>1, <2>2, <2>3
<1>5. ASSUME SessionLost(t)
      PROVE  (Kept(w) => Kept(w)') /\ (KeptByNow(w) => KeptByNow(w)')
  <2>1. Lose /\ UNCHANGED caught /\ durable'[w] >= durable[w]
    BY <1>1, <1>5 DEF SessionLost, historyVars
  <2>2. durable'[w] \in Nat
    BY DEF Types
  <2> QED
    BY <1>1, <1>2, <2>1, <2>2
<1>6. ASSUME Commit(t) PROVE (Kept(w) => Kept(w)') /\ (KeptByNow(w) => Kept(w)')
  <2>1. /\ UNCHANGED caught
        /\ \/ durable'[w] = durable[w] + tentative[w] /\ UNCHANGED undone
           \/ Lose /\ durable'[w] >= durable[w]
    BY <1>1, <1>6 DEF Commit
  <2>2. durable'[w] \in Nat
    BY DEF Types
  <2> QED
    BY <1>1, <1>2, <2>1, <2>2
<1>7. ASSUME Destroy(t) PROVE Kept(w) => Kept(w)'
  <2>1. UNCHANGED <<caught, durable>> /\ (UNCHANGED undone \/ Lose)
    BY <1>7 DEF Destroy
  <2> QED
    BY <1>2, <2>1
<1>8. \/ UNCHANGED <<sessionVars, caught>> \/ QuerySucceeds(t)
      \/ SessionLost(t) \/ Commit(t) \/ Destroy(t)
  BY DEF Moves, Proceed, Execute, Store, Begin, Lock, QueryRefused, Return,
     Relock, historyVars
<1>9. Kept(w) => Kept(w)'
  BY <1>3, <1>4, <1>5, <1>6, <1>7, <1>8
<1>10. KeptByNow(w) /\ ~Destroy(t) => KeptByNow(w)'
  BY <1>3, <1>4, <1>5, <1>6, <1>8
<1> QED
  BY <1>6, <1>9, <1>10

(* Who has done a write in its transaction, or is about to say so, holds   *)
(* the lock.                                                               *)
LEMMA HoldersAlone ==
  ASSUME Types, Locking, Answers, NEW t \in Threads, NEW u \in Threads \ {t},
         Destroy(t), state[t] = "START"
  PROVE  pc[u] # "succeeded" /\ (state[u] = "START" => mine[u] = {})
<1>1. \A v \in Threads : Taken(v) > 0 <=> owner = v
  BY DEF Locking
<1>2. pc[t] = "idle" /\ state[t] = "START"
  BY DEF Destroy
<1>3. Taken(t) > 0
  BY <1>2 DEF Taken, InTransaction, InQuery
<1>4. ~(Taken(u) > 0)
  BY <1>1, <1>3
<1>5. mine[u] # {} => InTransaction(u) \/ state[u] = "COMMIT"
  BY DEF Answers
<1> QED
  BY <1>4, <1>5 DEF Taken, InTransaction, InQuery

(* What a thread knows of its own writes.                                  *)
Knows(t) ==
  /\ pc[t] = "succeeded" /\ statement[t] \in Writes =>
       IF state[t] = "START" THEN KeptByNow(statement[t]) ELSE Kept(statement[t])
  /\ state[t] = "START" => \A w \in mine[t] : KeptByNow(w)
  /\ mine[t] # {} => InTransaction(t) \/ state[t] = "COMMIT"

(* The other threads keep what they know.                                  *)
LEMMA OthersKnow ==
  ASSUME Types, Types', Locking, Answers, NEW t \in Threads, Moves(t),
         NEW u \in Threads \ {t}
  PROVE  Knows(u)'
<1>1. /\ pc'[u] = pc[u] /\ statement'[u] = statement[u]
      /\ state'[u] = state[u] /\ mine'[u] = mine[u]
  BY MovesMoveLock DEF MovesLock, OnlyMoves
<1>2. Knows(u) /\ mine[u] \subseteq Writes
  BY DEF Answers, Knows, Types
<1>3. ASSUME NEW w \in Writes
      PROVE  /\ Kept(w) => Kept(w)'
             /\ KeptByNow(w) /\ ~Destroy(t) => KeptByNow(w)'
  BY KeptStays
<1>4. CASE Destroy(t) /\ state[t] = "START"
  BY <1>1, <1>2, <1>3, <1>4, HoldersAlone DEF Knows, InTransaction
<1>5. ASSUME Destroy(t), state[t] # "START", NEW w \in Writes
      PROVE  KeptByNow(w) => KeptByNow(w)'
  BY <1>5 DEF Destroy, KeptByNow, Kept
<1>6. CASE ~(Destroy(t) /\ state[t] = "START")
  <2>1. \A w \in Writes : KeptByNow(w) => KeptByNow(w)'
    BY <1>3, <1>5, <1>6
  <2> QED
    BY <1>1, <1>2, <1>3, <2>1 DEF Knows, InTransaction
<1> QED
  BY <1>4, <1>6

(* The thread that moves knows what it has done, and an answer is only     *)
(* given of what is kept.                                                  *)
LEMMA MoverKnows ==
  ASSUME Types, Types', Locking, Answers, NEW t \in Threads, Moves(t)
  PROVE  Knows(t)' /\ (\A w \in answered : Kept(w))'
<1>1. /\ Knows(t) /\ \A w \in answered : Kept(w) /\ w \in Writes
      /\ mine[t] \subseteq Writes
  BY DEF Answers, Knows, Types
<1>2. PlaceTypes /\ mine \in [Threads -> SUBSET used] /\ PlaceTypes'
  BY DEF Types
<1>3. ASSUME NEW w \in Writes
      PROVE  /\ Kept(w) => Kept(w)'
             /\ KeptByNow(w) /\ ~Destroy(t) => KeptByNow(w)'
             /\ KeptByNow(w) /\ Commit(t) => Kept(w)'
  BY KeptStays
<1>4. {"BEGIN", "READ", "none"} \cap Writes = {}
  BY DatabaseAssumption
<1>5. UNCHANGED answered => (\A w \in answered : Kept(w))'
  BY <1>1, <1>3
<1>6. ASSUME UNCHANGED <<mine, answered>>, pc'[t] # "succeeded", ~Destroy(t),
             state'[t] = state[t],
             InTransaction(t) => InTransaction(t)'
      PROVE  Knows(t)' /\ (\A w \in answered : Kept(w))'
  BY <1>1, <1>3, <1>5, <1>6 DEF Knows
<1>7. ASSUME NEW w \in Writes, Execute(t, w)
      PROVE  Knows(t)' /\ (\A v \in answered : Kept(v))'
  <2>1. /\ UNCHANGED <<mine, answered>> /\ pc'[t] # "succeeded" /\ ~Destroy(t)
        /\ state'[t] = state[t] /\ (InTransaction(t) => InTransaction(t)')
    BY <1>2, <1>4, <1>7
       DEF Execute, Call, Destroy, historyVars, InTransaction, PlaceTypes
  <2> QED
    BY <1>6, <2>1
<1>8. CASE Store(t) \/ Lock(t) \/ QueryRefused(t) \/ Relock(t) \/ SessionLost(t)
  <2>1. /\ UNCHANGED <<mine, answered>> /\ pc'[t] # "succeeded" /\ ~Destroy(t)
        /\ state'[t] = state[t] /\ (InTransaction(t) => InTransaction(t)')
    BY <1>2, <1>4, <1>8
       DEF Store, Lock, QueryRefused, Relock, SessionLost, Call, Destroy,
           historyVars, InTransaction, PlaceTypes
  <2> QED
    BY <1>6, <2>1
<1>9. CASE Begin(t)
  <2>1. /\ UNCHANGED <<mine, answered>> /\ pc'[t] = "lock" /\ state[t] = "NO_START"
    BY <1>2, <1>9 DEF Begin, Call, historyVars, PlaceTypes
  <2>2. mine'[t] = {}
    BY <1>1, <2>1 DEF Knows, InTransaction
  <2> QED
    BY <1>5, <2>1, <2>2 DEF Knows
<1>10. CASE QuerySucceeds(t)
  <2>1. /\ pc[t] = "query" /\ Effect(statement[t])
        /\ UNCHANGED <<statement, state, mine, answered>> /\ ~Destroy(t)
        /\ caught' = IF inTransaction /\ state[t] # "START"
                     THEN caught \cup ({statement[t]} \cap Writes) ELSE caught
    BY <1>10 DEF QuerySucceeds, Destroy
  <2>2. InTransaction(t) => InTransaction(t)'
    BY <2>1 DEF InTransaction
  <2>3. ASSUME NEW w \in Writes, statement[t] = w
        PROVE  IF state[t] = "START" THEN KeptByNow(w)' ELSE Kept(w)'
    <3>1. /\ durable \in [Writes -> Nat] /\ tentative \in [Writes -> Nat]
      BY DEF Types
    <3>2. IF inTransaction THEN tentative'[w] > 0 ELSE durable'[w] > 0
      BY <1>4, <2>1, <2>3, <3>1 DEF Effect
    <3> QED
      BY <2>1, <2>3, <3>2 DEF Kept, KeptByNow
  <2>4. (pc[t] = "succeeded" /\ statement[t] \in Writes =>
           IF state[t] = "START" THEN KeptByNow(statement[t])
           ELSE Kept(statement[t]))'
    <3>1. ASSUME statement[t] \in Writes
          PROVE  (IF state[t] = "START" THEN KeptByNow(statement[t])
                  ELSE Kept(statement[t]))'
      <4>1. PICK w \in Writes : w = statement[t]
        BY <3>1
      <4>2. statement'[t] = w /\ state'[t] = state[t]
        BY <2>1, <4>1
      <4> QED
        BY <2>3, <4>1, <4>2 DEF Kept, KeptByNow
    <3> QED
      BY <2>1, <3>1
  <2> QED
    BY <1>1, <1>3, <1>5, <2>1, <2>2, <2>4 DEF Knows
<1>11. CASE Return(t)
  <2>1. /\ pc[t] \in {"succeeded", "failed"} /\ UNCHANGED <<statement, state>>
        /\ pc'[t] = IF statement[t] = "BEGIN" THEN "relock" ELSE "idle"
        /\ IF state[t] = "START"
           THEN /\ mine' = [mine EXCEPT ![t] = @ \cup Reported(t)]
                /\ UNCHANGED answered
           ELSE /\ answered' = answered \cup Reported(t)
                /\ UNCHANGED mine
    BY <1>2, <1>11 DEF Return, PlaceTypes
  <2>2. /\ Reported(t) \subseteq Writes
        /\ statement[t] = "BEGIN" => Reported(t) = {}
        /\ \A w \in Reported(t) : IF state[t] = "START" THEN KeptByNow(w) ELSE Kept(w)
    BY <1>1, <1>4 DEF Reported, Knows
  <2>3. \A w \in Writes : (Kept(w) => Kept(w)') /\ (KeptByNow(w) => KeptByNow(w)')
    <3>1. ~Destroy(t)
      BY <2>1 DEF Destroy
    <3> QED
      BY <1>3, <3>1
  <2>4. CASE state[t] = "START"
    <3>1. mine'[t] = mine[t] \cup Reported(t) /\ answered' = answered
      BY <1>2, <2>1, <2>4
    <3>2. \A w \in mine'[t] : KeptByNow(w)'
      BY <1>1, <2>2, <2>3, <2>4, <3>1 DEF Knows
    <3>3. mine'[t] # {} => InTransaction(t)'
      BY <1>1, <2>1, <2>2, <2>4, <3>1 DEF Knows, InTransaction
    <3> QED
      BY <1>5, <2>1, <3>1, <3>2, <3>3 DEF Knows
  <2>5. CASE state[t] # "START"
    <3>1. (\A w \in answered : Kept(w))'
      BY <1>1, <2>1, <2>2, <2>3, <2>5
    <3>2. mine' = mine /\ state'[t] # "START" /\ pc'[t] # "succeeded"
      BY <2>1, <2>5
    <3> QED
      BY <1>1, <2>1, <2>5, <3>1, <3>2 DEF Knows, InTransaction
  <2> QED
    BY <2>4, <2>5
<1>12. CASE Commit(t)
  <2>1. /\ pc'[t] = "idle" /\ state[t] = "START" /\ state'[t] = "COMMIT"
        /\ UNCHANGED mine /\ (UNCHANGED answered \/ answered' = answered \cup mine[t])
    BY <1>2, <1>12 DEF Commit, PlaceTypes
  <2>2. (\A w \in answered : Kept(w))'
    BY <1>1, <1>3, <1>12, <2>1 DEF Knows
  <2> QED
    BY <2>1, <2>2 DEF Knows
<1>13. CASE Destroy(t)
  <2>1. /\ pc'[t] = "idle" /\ state'[t] = "NO_START" /\ mine'[t] = {}
        /\ UNCHANGED answered
    BY <1>2, <1>13 DEF Destroy, PlaceTypes
  <2> QED
    BY <1>5, <2>1 DEF Knows
<1> QED
  BY <1>7, <1>8, <1>9, <1>10, <1>11, <1>12, <1>13 DEF Moves, Proceed

(* Every step keeps what the program was told.                             *)
LEMMA AnswersStep ==
  ASSUME Types, Types', Locking, Answers, NEW t \in Threads, Moves(t)
  PROVE  Answers'
<1>1. \A u \in Threads : Knows(u)'
  BY MoverKnows, OthersKnow
<1>2. (\A w \in answered : Kept(w))'
  BY MoverKnows
<1> QED
  BY <1>1, <1>2 DEF Answers, Knows

-------------------------------------------------------------------------------
(* The invariant and what follows from it *)

(* At the start nobody has the lock and nothing was done.                  *)
LEMMA DatabaseInit == Init => DatabaseInv
<1> SUFFICES ASSUME Init PROVE DatabaseInv
  OBVIOUS
<1>1. /\ MaxLosses \in Nat /\ None \notin Threads
      /\ {"BEGIN", "READ", "none"} \cap Writes = {}
  BY DatabaseAssumption
<1>2. Types
  <2>1. /\ owner = None /\ depth = 0 /\ PlaceTypes /\ inTransaction = FALSE
        /\ losses = 0
    BY DEF Init, PlaceTypes
  <2>2. tentative \in [Writes -> Nat] /\ durable \in [Writes -> Nat]
    BY DEF Init, Nothing
  <2>3. /\ used = {} /\ mine \in [Threads -> SUBSET used]
        /\ answered \cup undone \cup caught \cup unheard \subseteq Writes
    BY DEF Init
  <2>4. losses \in 0..MaxLosses
    BY <1>1, <2>1
  <2> QED
    BY <2>1, <2>2, <2>3, <2>4 DEF Types
<1>3. Locking
  BY <1>1 DEF Init, Locking, Sensible, Taken, InQuery, InTransaction
<1>4. GivenOnce
  BY <1>1 DEF Init, GivenOnce
<1>5. Effects
  BY <1>1 DEF Init, Effects, Counted, Nothing
<1>6. Answers
  BY DEF Init, Answers
<1> QED
  BY <1>2, <1>3, <1>4, <1>5, <1>6 DEF DatabaseInv

(* The invariant is inductive.                                             *)
LEMMA DatabaseStep == DatabaseInv /\ [Next]_vars => DatabaseInv'
<1> SUFFICES ASSUME DatabaseInv, [Next]_vars PROVE DatabaseInv'
  OBVIOUS
<1>1. ASSUME NEW t \in Threads, Moves(t) PROVE DatabaseInv'
  <2>1. Types /\ Locking /\ GivenOnce /\ Effects /\ Answers
    BY DEF DatabaseInv
  <2>2. Locking'
    BY <1>1, <2>1, MovesMoveLock, LockStep
  <2>3. Types'
    BY <1>1, <2>1, TypesStep
  <2> QED
    BY <1>1, <2>1, <2>2, <2>3, GivenOnceStep, EffectsStep, AnswersStep
       DEF DatabaseInv
<1>2. CASE UNCHANGED vars
  BY <1>2 DEF vars, lockVars, sessionVars, historyVars, DatabaseInv, Types,
     PlaceTypes, Locking, Sensible, Taken, InQuery, InTransaction, GivenOnce,
     Effects, Counted, Nothing, Answers, Kept, KeptByNow
<1> QED
  BY <1>1, <1>2 DEF Next, Moves

(* The invariant holds of every behaviour.                                 *)
LEMMA DatabaseInvariant == Spec => []DatabaseInv
BY DatabaseInit, DatabaseStep, PTL DEF Spec

(* What the program was told is done has been done and stays done, once,   *)
(* unless the session was lost in its transaction or in front of its       *)
(* answer, or it fell into the transaction of another thread; and the      *)
(* recursive lock is held by who is in a query or between begin() and the  *)
(* end of its transaction, as often as it has taken it.                    *)
THEOREM AnswerIsKeptHolds == Spec => []AnswerIsKept
<1>1. ASSUME DatabaseInv PROVE AnswerIsKept
  <2>1. Types /\ Locking /\ GivenOnce /\ Effects /\ Answers
    BY <1>1 DEF DatabaseInv
  <2>2. /\ \A w \in Writes : durable[w] \in Nat /\ tentative[w] \in Nat
        /\ losses \in 0..MaxLosses /\ MaxLosses \in Nat
    BY <2>1, DatabaseAssumption DEF Types
  <2>3. \A t \in Threads : Holds(t) <=> owner = t
    <3>1. \A t \in Threads : Taken(t) > 0 <=> owner = t
      BY <2>1 DEF Locking
    <3>2. ASSUME NEW t \in Threads PROVE Taken(t) > 0 <=> Holds(t)
      BY DEF Taken, InQuery, InTransaction, Holds
    <3> QED
      BY <3>1, <3>2
  <2>4. depth \in 0..2 /\ (owner = None <=> depth = 0)
    BY <2>1, TakenRange, DatabaseAssumption DEF Types, Locking
  <2>5. ASSUME NEW w \in Writes
        PROVE  /\ tentative[w] \in 0..1 /\ durable[w] \in 0..(1 + MaxLosses)
               /\ w \notin unheard => durable[w] <= 1
    <3>1. PICK n \in {0, 1} : Counted(w, n)
      BY <2>1 DEF Effects
    <3> QED
      BY <2>2, <3>1 DEF Counted
  <2>6. TypeOK
    <3>1. /\ tentative \in [Writes -> 0..1]
          /\ durable \in [Writes -> 0..(1 + MaxLosses)]
      BY <2>1, <2>5 DEF Types
    <3> QED
      BY <2>1, <2>3, <2>4, <3>1 DEF Types, PlaceTypes, TypeOK
  <2>7. \A w \in answered \ (undone \cup caught) : durable[w] >= 1
    <3>1. ASSUME NEW w \in answered \ (undone \cup caught)
          PROVE  durable[w] >= 1
      <4>1. w \in Writes /\ Kept(w)
        BY <2>1 DEF Answers, Types
      <4> QED
        BY <2>2, <4>1 DEF Kept
    <3> QED
      BY <3>1
  <2> QED
    BY <2>5, <2>6, <2>7 DEF AnswerIsKept
<1> QED
  BY <1>1, DatabaseInvariant, PTL

-------------------------------------------------------------------------------
(* The inductive invariant of DBInsert.  The rows that are collected are   *)
(* the last that were given, all others were executed or refused.          *)
Statements == [rows : Seq(Nat), ok : BOOLEAN, caller : Nat]
Given == Len(written)

InsertTypes ==
  /\ length \in Nat
  /\ values \in Seq(Nat)
  /\ written \in Seq(Nat)
  /\ taken \in Seq(BOOLEAN) /\ Len(taken) = Given
  /\ statements \in Seq(Statements)

Collected ==
  /\ Len(values) <= Given
  /\ \A i \in 1..Len(values) :
       values[i] = Given - Len(values) + i /\ taken[values[i]]
  /\ IF values = <<>> THEN length = QueryLength
     ELSE length >= QueryLength + written[Given] - written[values[1]]
  /\ Len(values) > 1 => length <= MaxPacket

Stored(s) ==
  /\ s.rows # <<>>
  /\ \A i \in 1..Len(s.rows) : s.rows[i] \in 1..Given /\ taken[s.rows[i]]
  /\ \A i, j \in 1..Len(s.rows) : i < j => s.rows[i] < s.rows[j]
  /\ Len(s.rows) > 1 =>
       QueryLength + written[s.rows[Len(s.rows)]] - written[s.rows[1]] <= MaxPacket
  /\ ~s.ok /\ s.caller # 0 =>
       /\ s.caller \in 1..Given /\ ~taken[s.caller]
       /\ s.rows[Len(s.rows)] + 1 = s.caller

Executed ==
  /\ \A k \in 1..Len(statements) :
       /\ Stored(statements[k])
       /\ \A i \in 1..Len(statements[k].rows) :
            statements[k].rows[i] <= Given - Len(values)
  /\ \A k, l \in 1..Len(statements) :
       \A i \in 1..Len(statements[k].rows), j \in 1..Len(statements[l].rows) :
         k < l => statements[k].rows[i] < statements[l].rows[j]
  /\ \A row \in 1..Given :
       /\ taken[row] =>
            \/ row > Given - Len(values)
            \/ \E k \in 1..Len(statements) :
                 \E i \in 1..Len(statements[k].rows) : statements[k].rows[i] = row
       /\ ~taken[row] => \E k \in 1..Len(statements) :
                           ~statements[k].ok /\ statements[k].caller = row

InsertsInv == InsertTypes /\ Collected /\ Executed

(* A step keeps what was written and answered. *)
Extended ==
  /\ InsertTypes /\ InsertTypes'
  /\ Given \in Nat /\ Given' \in Nat /\ Given <= Given'
  /\ \A i \in 1..Given : written'[i] = written[i] /\ taken'[i] = taken[i]

LEMMA ExtendedBy ==
  ASSUME InsertTypes, NEW size \in Nat, NEW answer \in BOOLEAN,
         written' = Append(written, Written + size),
         taken' = Append(taken, answer),
         values' \in Seq(Nat), length' \in Nat, statements' \in Seq(Statements)
  PROVE  /\ Extended
         /\ Given' = Given + 1
         /\ written'[Given'] = Written + size
         /\ taken'[Given'] = answer
         /\ Written \in Nat
         /\ Written = IF Given = 0 THEN 0 ELSE written[Given]
<1>1. /\ written \in Seq(Nat) /\ taken \in Seq(BOOLEAN)
      /\ Len(taken) = Len(written) /\ Len(written) \in Nat
  BY DEF InsertTypes, Given
<1>2. Written \in Nat /\ Written = IF Given = 0 THEN 0 ELSE written[Given]
  BY <1>1 DEF Written, Given
<1>3. Written + size \in Nat
  BY <1>2
<1>4. /\ written' \in Seq(Nat) /\ Len(written') = Len(written) + 1
      /\ \A i \in 1..Len(written) : written'[i] = written[i]
      /\ written'[Len(written) + 1] = Written + size
  BY <1>1, <1>3
<1>5. /\ taken' \in Seq(BOOLEAN) /\ Len(taken') = Len(taken) + 1
      /\ \A i \in 1..Len(taken) : taken'[i] = taken[i]
      /\ taken'[Len(taken) + 1] = answer
  BY <1>1
<1>6. InsertTypes'
  BY <1>1, <1>4, <1>5 DEF InsertTypes, Given
<1> QED
  BY <1>1, <1>2, <1>4, <1>5, <1>6 DEF Extended, Given

LEMMA StoredStays ==
  ASSUME Extended, NEW s \in Statements, Stored(s)
  PROVE  Stored(s)'
<1>1. s.rows \in Seq(Nat) /\ Len(s.rows) \in Nat /\ s.caller \in Nat
  BY DEF Statements
<1>2. /\ s.rows # <<>>
      /\ \A i \in 1..Len(s.rows) : s.rows[i] \in 1..Given' /\ taken'[s.rows[i]]
  BY DEF Stored, Extended
<1>3. Len(s.rows) > 1 =>
        QueryLength + written'[s.rows[Len(s.rows)]] - written'[s.rows[1]]
          <= MaxPacket
  BY <1>1 DEF Stored, Extended
<1>4. ~s.ok /\ s.caller # 0 =>
        /\ s.caller \in 1..Given' /\ ~taken'[s.caller]
        /\ s.rows[Len(s.rows)] + 1 = s.caller
  BY <1>1 DEF Stored, Extended
<1> QED
  BY <1>2, <1>3, <1>4 DEF Stored

(* The rows that were collected, once they are executed. *)
LEMMA CollectedStored ==
  ASSUME Collected, Extended, values # <<>>,
         NEW s \in Statements, s.rows = values,
         ~s.ok /\ s.caller # 0 =>
           s.caller = Given + 1 /\ Given' = Given + 1 /\ ~taken'[Given + 1]
  PROVE  Stored(s)'
<1> DEFINE n == Len(values)
<1>1. /\ values \in Seq(Nat) /\ n \in Nat \ {0} /\ Given \in Nat /\ n <= Given
      /\ length \in Nat
  BY DEF Extended, InsertTypes, Collected
<1>2. \A i \in 1..n : /\ values[i] = Given - n + i /\ values[i] \in 1..Given
                      /\ taken[values[i]]
  BY <1>1 DEF Collected
<1>3. \A i \in 1..Len(s.rows) : s.rows[i] \in 1..Given' /\ taken'[s.rows[i]]
  BY <1>1, <1>2 DEF Extended
<1>4. \A i, j \in 1..Len(s.rows) : i < j => s.rows[i] < s.rows[j]
  BY <1>1, <1>2
<1>5. values[n] = Given /\ 1 \in 1..n /\ n \in 1..n
  BY <1>1, <1>2
<1>6. Len(s.rows) > 1 =>
        QueryLength + written'[s.rows[Len(s.rows)]] - written'[s.rows[1]]
          <= MaxPacket
  <2>1. /\ written'[values[n]] = written[Given]
        /\ written'[values[1]] = written[values[1]]
    BY <1>1, <1>2, <1>5 DEF Extended
  <2>2. /\ written[Given] \in Nat /\ written[values[1]] \in Nat
        /\ QueryLength \in Nat /\ MaxPacket \in Nat
    <3>1. QueryLength \in Nat /\ MaxPacket \in Nat
      BY InsertsAssumption
    <3>2. written \in Seq(Nat)
      BY DEF Extended, InsertTypes
    <3>3. values[1] \in 1..Len(written) /\ Given \in 1..Len(written)
      BY <1>1, <1>2, <1>5 DEF Given
    <3> QED
      BY <3>1, <3>2, <3>3
  <2>3. n > 1 => /\ length <= MaxPacket
                 /\ length >= QueryLength + written[Given] - written[values[1]]
    BY DEF Collected
  <2>4. n > 1 => QueryLength + written[Given] - written[values[1]] <= MaxPacket
    BY <1>1, <2>2, <2>3
  <2> QED
    BY <2>1, <2>4
<1>7. ~s.ok /\ s.caller # 0 =>
        /\ s.caller \in 1..Given' /\ ~taken'[s.caller]
        /\ s.rows[Len(s.rows)] + 1 = s.caller
  BY <1>1, <1>5
<1> QED
  BY <1>3, <1>4, <1>6, <1>7 DEF Stored

(* What was executed after one statement more. *)
ExecutesCollected(s) ==
  /\ values # <<>> /\ s.rows = values
  /\ statements' = Append(statements, s)
  /\ Len(values') \in Nat /\ Given' - Len(values') >= Given
  /\ \/ Given' = Given
     \/ Given' = Given + 1 /\ taken'[Given + 1] /\ Len(values') = 1
     \/ Given' = Given + 1 /\ ~taken'[Given + 1] /\ ~s.ok /\ s.caller = Given + 1
  /\ ~s.ok /\ s.caller # 0 =>
       s.caller = Given + 1 /\ Given' = Given + 1 /\ ~taken'[Given + 1]

LEMMA StatementAdded ==
  ASSUME InsertsInv, Extended, NEW s \in Statements, ExecutesCollected(s)
  PROVE  Executed'
<1>1. /\ Collected /\ Executed /\ InsertTypes
  BY DEF InsertsInv
<1>2. PICK m \in Nat, n \in Nat, g \in Nat :
        m = Len(statements) /\ n = Len(values) /\ g = Given
  <2>1. Len(statements) \in Nat /\ Len(values) \in Nat
    BY <1>1 DEF InsertTypes
  <2>2. Given \in Nat
    BY DEF Extended
  <2> QED
    BY <2>1, <2>2
<1>3. /\ values # <<>> /\ s.rows = values /\ values \in Seq(Nat)
      /\ statements' = Append(statements, s)
  BY <1>1 DEF ExecutesCollected, InsertTypes
<1>4. /\ Len(statements') = m + 1 /\ statements'[m + 1] = s
      /\ \A k \in 1..m : statements'[k] = statements[k] /\ statements[k] \in Statements
  BY <1>1, <1>2, <1>3 DEF InsertTypes
<1>5. PICK g1 \in Nat, n1 \in Nat : g1 = Given' /\ n1 = Len(values')
  BY DEF ExecutesCollected, Extended
<1>6. g1 - n1 >= g /\ (g1 = g \/ g1 = g + 1)
  BY <1>2, <1>5 DEF ExecutesCollected
<1>7. /\ g1 = g + 1 /\ taken'[g + 1] => n1 = 1
      /\ g1 = g + 1 /\ ~taken'[g + 1] => ~s.ok /\ s.caller = g + 1
  BY <1>2, <1>5 DEF ExecutesCollected
<1>8. n # 0 /\ n <= g /\ \A i \in 1..n : values[i] = g - n + i
  <2>1. n # 0
    BY <1>2, <1>3
  <2> QED
    BY <1>1, <1>2, <2>1 DEF Collected
<1>9. Stored(s)'
  BY <1>1, <1>3, CollectedStored DEF ExecutesCollected
<1>10. ASSUME NEW k \in 1..(m + 1), NEW t \in Statements, t = statements'[k]
      PROVE  /\ Stored(t)'
             /\ \A i \in 1..Len(t.rows) : t.rows[i] <= g1 - n1
  <2>1. CASE k = m + 1
    <3>1. t = s /\ t.rows = values
      BY <1>2, <1>3, <1>4, <1>10, <2>1
    <3>2. \A i \in 1..n : values[i] <= g1 - n1
      BY <1>2, <1>5, <1>6, <1>8
    <3> QED
      BY <1>2, <1>3, <1>9, <3>1, <3>2
  <2>2. CASE k \in 1..m
    <3>1. t = statements[k]
      BY <1>2, <1>4, <1>10, <2>2
    <3>2. /\ Stored(t)
          /\ \A i \in 1..Len(t.rows) : t.rows[i] <= g - n /\ t.rows[i] \in Nat
      BY <1>1, <1>2, <2>2, <3>1 DEF Executed, Statements
    <3>3. Stored(t)'
      BY <3>2, StoredStays
    <3>4. g - n <= g1 - n1
      BY <1>2, <1>5, <1>6
    <3>5. ASSUME NEW i \in 1..Len(t.rows) PROVE t.rows[i] <= g1 - n1
      <4>1. PICK r \in Nat : r = t.rows[i] /\ r <= g - n
        BY <3>2
      <4> QED
        BY <1>2, <1>5, <3>4, <4>1
    <3> QED
      BY <3>3, <3>5
  <2> QED
    BY <1>2, <1>4, <2>1, <2>2
<1>11. ASSUME NEW k \in 1..(m + 1), NEW l \in 1..(m + 1), k < l,
             NEW t \in Statements, t = statements'[k],
             NEW u \in Statements, u = statements'[l],
             NEW i \in 1..Len(t.rows), NEW j \in 1..Len(u.rows)
      PROVE  t.rows[i] < u.rows[j]
  <2>1. k \in 1..m /\ t = statements[k]
    BY <1>2, <1>4, <1>11
  <2>2. CASE l = m + 1
    <3>1. t.rows[i] <= g - n /\ t.rows[i] \in Nat
      <4>1. \A h \in 1..Len(statements[k].rows) :
              statements[k].rows[h] <= g - n
        BY <1>1, <1>2, <2>1 DEF Executed
      <4>2. t.rows \in Seq(Nat)
        BY DEF Statements
      <4>3. t.rows[i] \in Nat
        BY <1>11, <4>2
      <4>4. t.rows[i] <= g - n
        BY <1>11, <2>1, <4>1
      <4> QED
        BY <4>3, <4>4
    <3>2. u.rows = values
      BY <1>2, <1>3, <1>4, <1>11, <2>2
    <3>3. u.rows[j] = g - n + j /\ j \in 1..n
      BY <1>2, <1>8, <1>11, <3>2
    <3> QED
      BY <1>2, <1>8, <3>1, <3>3
  <2>3. CASE l \in 1..m
    <3>1. u = statements[l]
      BY <1>2, <1>4, <1>11, <2>3
    <3> QED
      BY <1>1, <1>2, <1>11, <2>1, <2>3, <3>1 DEF Executed
  <2> QED
    BY <1>2, <1>4, <2>2, <2>3
<1>12. ASSUME NEW row \in 1..g1
      PROVE  /\ taken'[row] =>
                  \/ row > g1 - n1
                  \/ \E k \in 1..(m + 1) :
                       \E i \in 1..Len(statements'[k].rows) :
                         statements'[k].rows[i] = row
             /\ ~taken'[row] => \E k \in 1..(m + 1) :
                                  ~statements'[k].ok /\ statements'[k].caller = row
  <2>1. CASE row \in 1..g
    <3>1. taken'[row] = taken[row]
      BY <1>2, <2>1 DEF Extended
    <3>2. \A k \in 1..m : k \in 1..(m + 1) /\ statements'[k] = statements[k]
      BY <1>2, <1>4
    <3>3. CASE taken[row] /\ row > g - n
      <4> DEFINE i == row - (g - n)
      <4>1. statements'[m + 1].rows = values
        BY <1>2, <1>3, <1>4
      <4>2. i \in 1..n /\ values[i] = row
        BY <1>2, <1>8, <2>1, <3>3
      <4>3. i \in 1..Len(statements'[m + 1].rows)
        BY <1>2, <1>3, <4>1, <4>2
      <4>4. statements'[m + 1].rows[i] = row
        BY <4>1, <4>2
      <4> HIDE DEF i
      <4>5. m + 1 \in 1..(m + 1)
        BY <1>2, <1>4
      <4> QED
        BY <3>1, <3>3, <4>3, <4>4, <4>5
    <3>4. CASE taken[row] /\ ~(row > g - n)
      <4>1. PICK k \in 1..m :
              \E i \in 1..Len(statements[k].rows) : statements[k].rows[i] = row
        BY <1>1, <1>2, <2>1, <3>4 DEF Executed
      <4> QED
        BY <3>1, <3>2, <3>4, <4>1
    <3>5. CASE ~taken[row]
      <4>1. PICK k \in 1..m : ~statements[k].ok /\ statements[k].caller = row
        BY <1>1, <1>2, <2>1, <3>5 DEF Executed
      <4> QED
        BY <3>1, <3>2, <3>5, <4>1
    <3> QED
      BY <3>3, <3>4, <3>5
  <2>2. CASE row = g + 1
    <3>1. g1 = g + 1
      BY <1>2, <1>5, <1>6, <1>12, <2>2
    <3>2. CASE taken'[row]
      <4>1. n1 = 1
        BY <1>7, <2>2, <3>1, <3>2
      <4>2. row > g1 - n1
        BY <1>2, <2>2, <3>1, <4>1
      <4> QED
        BY <3>2, <4>2
    <3>3. CASE ~taken'[row]
      <4>1. ~s.ok /\ s.caller = row
        BY <1>7, <2>2, <3>1, <3>3
      <4>2. m + 1 \in 1..(m + 1) /\ statements'[m + 1] = s
        BY <1>2, <1>4
      <4> QED
        BY <3>3, <4>1, <4>2
    <3> QED
      BY <3>2, <3>3
  <2>3. row \in 1..g \/ row = g + 1
    BY <1>2, <1>5, <1>6, <1>12
  <2> QED
    BY <2>1, <2>2, <2>3
<1>13. \A k \in 1..(m + 1) : statements'[k] \in Statements
  BY <1>2, <1>4
<1>14. Len(statements') = m + 1
  BY <1>2, <1>4
<1>15. ASSUME NEW k \in 1..(m + 1)
       PROVE  /\ Stored(statements[k])'
              /\ \A i \in 1..Len(statements'[k].rows) :
                   statements'[k].rows[i] <= g1 - n1
  <2>1. PICK t \in Statements : t = statements'[k]
    BY <1>13
  <2>2. /\ Stored(t)'
        /\ \A i \in 1..Len(t.rows) : t.rows[i] <= g1 - n1
    BY <1>10, <2>1
  <2> QED
    BY <2>1, <2>2 DEF Stored
<1>16. \A k, l \in 1..(m + 1) :
         \A i \in 1..Len(statements'[k].rows), j \in 1..Len(statements'[l].rows) :
           k < l => statements'[k].rows[i] < statements'[l].rows[j]
  BY <1>11, <1>13
<1> QED
  BY <1>5, <1>12, <1>14, <1>15, <1>16 DEF Executed

LEMMA ExecuteBatchKeeps == InsertsInv /\ ExecuteBatch => InsertsInv'
<1> SUFFICES ASSUME InsertsInv, ExecuteBatch PROVE InsertsInv'
  OBVIOUS
<1>1. InsertTypes /\ Collected /\ Executed
  BY DEF InsertsInv
<1>2. CASE UNCHANGED insertVars
  <2>1. InsertTypes' /\ Collected'
    BY <1>1, <1>2 DEF insertVars, InsertTypes, Collected, Given
  <2>2. Executed'
    BY <1>1, <1>2 DEF insertVars, Executed, Given, Stored
  <2> QED
    BY <2>1, <2>2 DEF InsertsInv
<1>3. CASE values # <<>>
  <2>1. PICK s \in Statements :
          /\ s.rows = values /\ s.caller = 0
          /\ statements' = Append(statements, s)
    <3>1. PICK ok \in BOOLEAN :
            statements' = Append(statements,
                                 [rows |-> values, ok |-> ok, caller |-> 0])
      BY <1>3 DEF ExecuteBatch, ExecuteQuery, insertVars
    <3>2. [rows |-> values, ok |-> ok, caller |-> 0] \in Statements
      BY <1>1 DEF InsertTypes, Statements
    <3> QED
      BY <3>1, <3>2
  <2>2. values' = <<>> /\ length' = QueryLength /\ UNCHANGED <<written, taken>>
    BY <1>3 DEF ExecuteBatch, AfterExecution, insertVars
  <2>3. QueryLength \in Nat
    BY InsertsAssumption
  <2>4. InsertTypes'
    BY <1>1, <2>1, <2>2, <2>3 DEF InsertTypes, Given
  <2>5. Given \in Nat /\ Given' = Given
    BY <1>1, <2>2 DEF InsertTypes, Given
  <2>6. Extended
    BY <1>1, <2>2, <2>4, <2>5 DEF Extended
  <2>7. Len(values') = 0
    BY <2>2
  <2>8. Executed'
    <3>1. ExecutesCollected(s)
      BY <1>3, <2>1, <2>5, <2>7 DEF ExecutesCollected
    <3> QED
      BY <2>6, <3>1, StatementAdded
  <2>9. Collected'
    BY <2>2, <2>5, <2>7 DEF Collected
  <2> QED
    BY <2>4, <2>8, <2>9 DEF InsertsInv
<1> QED
  BY <1>2, <1>3 DEF ExecuteBatch

(* A row that joins the others. *)
LEMMA RowCollected ==
  ASSUME InsertsInv, NEW size \in Nat, AddRow(size),
         Joins(Given + 1, length + size)
  PROVE  InsertsInv'
<1>1. /\ length + size <= MaxPacket \/ values = <<>>
      /\ length' = length + size
      /\ values' = Append(values, Given + 1)
      /\ taken' = Append(taken, TRUE)
      /\ statements' = statements
      /\ written' = Append(written, Written + size)
  BY DEF Joins, AddRow
<1>2. InsertTypes /\ Collected /\ Executed
  BY DEF InsertsInv
<1>3. /\ length \in Nat /\ values \in Seq(Nat) /\ written \in Seq(Nat)
      /\ Given \in Nat /\ Len(values) \in Nat /\ size \in Nat
      /\ statements \in Seq(Statements) /\ QueryLength \in Nat
  BY <1>2, InsertsAssumption DEF InsertTypes, Given
<1>4. PICK g \in Nat, n \in Nat : g = Given /\ n = Len(values)
  BY <1>3
<1>5. /\ values' \in Seq(Nat) /\ Len(values') = n + 1
      /\ \A i \in 1..n : values'[i] = values[i]
      /\ values'[n + 1] = g + 1
  BY <1>1, <1>3, <1>4
<1>6. length' \in Nat
  BY <1>1, <1>3
<1>7. /\ Extended
      /\ Given' = Given + 1
      /\ written'[Given'] = Written + size
      /\ taken'[Given'] = TRUE
      /\ Written \in Nat
      /\ Written = IF Given = 0 THEN 0 ELSE written[Given]
  <2>1. TRUE \in BOOLEAN /\ statements' \in Seq(Statements) /\ values' \in Seq(Nat)
    BY <1>1, <1>3, <1>5
  <2> QED
    BY <1>1, <1>2, <1>3, <1>6, <2>1, ExtendedBy
<1>8. InsertTypes'
  BY <1>7 DEF Extended
<1>9. Given' = g + 1
  BY <1>4, <1>7
<1>10. taken'[g + 1]
  BY <1>7, <1>9
<1>11. written'[g + 1] = Written + size
  BY <1>7, <1>9
<1>12. /\ g = 0 => Written = 0
      /\ g # 0 => Written = written[g]
  BY <1>4, <1>7
<1>13. \A i \in 1..g : written'[i] = written[i] /\ taken'[i] = taken[i]
  BY <1>4, <1>7 DEF Extended
<1>14. \A i \in 1..g : written[i] \in Nat
  BY <1>3, <1>4 DEF Given
<1>15. Written \in Nat
  BY <1>7
<1>16. /\ n <= g
      /\ \A i \in 1..n : values[i] = g - n + i /\ taken[values[i]]
      /\ IF values = <<>> THEN length = QueryLength
         ELSE length >= QueryLength + written[g] - written[values[1]]
  BY <1>2, <1>4 DEF Collected
<1>17. (values = <<>>) <=> (n = 0)
  BY <1>3, <1>4
<1>18. Collected'
  <2>2. ASSUME NEW i \in 1..(n + 1)
        PROVE  values'[i] = g - n + i /\ taken'[values'[i]]
    <3>1. CASE i \in 1..n
      <4>1. values'[i] = g - n + i /\ values'[i] \in 1..g /\ values'[i] = values[i]
        BY <1>5, <1>16, <3>1
      <4>2. taken'[values'[i]] = taken[values[i]]
        BY <1>13, <4>1
      <4> QED
        BY <1>16, <3>1, <4>1, <4>2
    <3>2. CASE i = n + 1
      <4>1. values'[i] = g + 1
        BY <1>5, <3>2
      <4>2. g + 1 = g - n + i
        BY <3>2
      <4> QED
        BY <1>10, <4>1, <4>2
    <3> QED
      BY <1>4, <2>2, <3>1, <3>2
  <2>3. values' # <<>>
    BY <1>5
  <2>4. length' >= QueryLength + written'[g + 1] - written'[values'[1]]
    <3>1. CASE n = 0
      <4>1. values'[1] = g + 1 /\ length' = QueryLength + size
        <5>1. length' = QueryLength + size
          <6>1. values = <<>>
            BY <1>17, <3>1
          <6>2. length = QueryLength
            BY <1>2, <6>1 DEF Collected
          <6> QED
            BY <1>1, <6>2
        <5>2. values'[1] = g + 1
          <6>1. values'[n + 1] = g + 1
            BY <1>5
          <6>2. n + 1 = 1
            BY <3>1
          <6> QED
            BY <6>1, <6>2
        <5> QED
          BY <5>1, <5>2
      <4>2. written'[g + 1] \in Nat
        BY <1>11, <1>15
      <4> QED
        BY <1>4, <1>3, <4>1, <4>2
    <3>2. CASE n # 0
      <4>1. 1 \in 1..n /\ values'[1] = values[1] /\ values[1] \in 1..g /\ g # 0
        BY <1>5, <1>16, <3>2
      <4>3. written[g] \in Nat /\ written[values[1]] \in Nat
        BY <1>14, <4>1
      <4>4. length >= QueryLength + written[g] - written[values[1]]
        BY <1>16, <1>17, <3>2
      <4>5. /\ written'[values[1]] = written[values[1]]
            /\ written'[g + 1] = written[g] + size
        BY <1>11, <1>12, <1>13, <4>1
      <4>6. length' = length + size /\ length \in Nat /\ size \in Nat
        BY <1>1, <1>3
      <4>7. length' >= QueryLength + (written[g] + size) - written[values[1]]
        <5>1. PICK w \in Nat, v \in Nat : w = written[g] /\ v = written[values[1]]
          BY <4>3
        <5>2. length >= QueryLength + w - v /\ QueryLength \in Nat
          BY <1>3, <4>4, <5>1
        <5>3. length + size >= QueryLength + (w + size) - v
          BY <4>6, <5>1, <5>2
        <5> QED
          BY <4>6, <5>1, <5>3
      <4> QED
        BY <4>1, <4>5, <4>7
    <3> QED
      BY <3>1, <3>2
  <2>5. n + 1 > 1 => length' <= MaxPacket
    BY <1>1, <1>4, <1>17
  <2>6. \A i \in 1..(n + 1) :
          values'[i] = Given' - Len(values') + i /\ taken'[values'[i]]
    <3>1. Given' - Len(values') = g - n
      BY <1>4, <1>5, <1>9
    <3> QED
      BY <2>2, <3>1
  <2>7. Len(values') <= Given'
    BY <1>5, <1>9, <1>16
  <2> QED
    BY <1>5, <1>9, <2>3, <2>4, <2>5, <2>6, <2>7 DEF Collected
<1>19. Executed'
  <2>1. PICK m \in Nat : m = Len(statements)
    BY <1>3
  <2>2. Given' - Len(values') = g - n
    BY <1>4, <1>5, <1>9
  <2>3. ASSUME NEW k \in 1..m PROVE Stored(statements[k])'
    <3>1. PICK t \in Statements : t = statements[k]
      BY <1>3, <2>1
    <3>2. Stored(t)
      BY <1>2, <2>1, <3>1 DEF Executed
    <3>3. Stored(t)' /\ t = statements'[k]
      BY <1>1, <1>7, <3>1, <3>2, StoredStays
    <3> QED
      BY <3>3 DEF Stored
  <2>4. \A k \in 1..m : \A i \in 1..Len(statements[k].rows) :
          statements[k].rows[i] <= g - n
    BY <1>2, <1>4, <2>1 DEF Executed
  <2>5. \A row \in 1..g :
          /\ taken[row] =>
               \/ row > g - n
               \/ \E k \in 1..m : \E i \in 1..Len(statements[k].rows) :
                    statements[k].rows[i] = row
          /\ ~taken[row] => \E k \in 1..m :
                              ~statements[k].ok /\ statements[k].caller = row
    BY <1>2, <1>4, <2>1 DEF Executed
  <2>6. ASSUME NEW row \in 1..(g + 1)
        PROVE  /\ taken'[row] =>
                    \/ row > g - n
                    \/ \E k \in 1..m : \E i \in 1..Len(statements[k].rows) :
                         statements[k].rows[i] = row
               /\ ~taken'[row] => \E k \in 1..m :
                                    ~statements[k].ok /\ statements[k].caller = row
    <3>1. CASE row \in 1..g
      <4>1. taken'[row] = taken[row]
        BY <1>13, <3>1
      <4> QED
        BY <2>5, <3>1, <4>1
    <3>2. CASE row = g + 1
      <4>1. taken'[row]
        BY <1>10, <3>2
      <4>2. row > g - n
        BY <3>2
      <4> QED
        BY <4>1, <4>2
    <3> QED
      BY <1>4, <2>6, <3>1, <3>2
  <2>7. statements' = statements /\ Len(statements') = m
    BY <1>1, <2>1
  <2>8. \A k, l \in 1..m :
          \A i \in 1..Len(statements[k].rows), j \in 1..Len(statements[l].rows) :
            k < l => statements[k].rows[i] < statements[l].rows[j]
    BY <1>2, <2>1 DEF Executed
  <2>9. \A k \in 1..m : Stored(statements[k])'
    BY <2>3
  <2> QED
    BY <1>4, <1>9, <2>2, <2>4, <2>6, <2>7, <2>8, <2>9 DEF Executed
<1> QED
  BY <1>8, <1>18, <1>19 DEF InsertsInv

LEMMA StatementStarted ==
  ASSUME InsertsInv, NEW size \in Nat, AddRow(size),
         StartsAnother(Given + 1, length + size)
  PROVE  InsertsInv'
<1>1. /\ InsertTypes /\ Collected /\ Executed
      /\ written' = Append(written, Written + size)
  BY DEF InsertsInv, AddRow
<1>2. /\ values # <<>> /\ length' = QueryLength
      /\ \E ok \in BOOLEAN :
           /\ ExecuteQuery(ok, Given + 1)
           /\ values' = IF ok THEN Append(AfterExecution(ok), Given + 1)
                        ELSE AfterExecution(ok)
           /\ taken' = Append(taken, ok)
  BY DEF StartsAnother
<1>3. PICK ok \in BOOLEAN :
        /\ ExecuteQuery(ok, Given + 1)
        /\ values' = IF ok THEN Append(AfterExecution(ok), Given + 1)
                     ELSE AfterExecution(ok)
        /\ taken' = Append(taken, ok)
  BY <1>2
<1> QED
  <2>1. /\ Given \in Nat /\ values \in Seq(Nat) /\ size \in Nat
        /\ QueryLength \in Nat /\ statements \in Seq(Statements)
    BY <1>1, InsertsAssumption DEF InsertTypes, Given
  <2>2. PICK s \in Statements :
          /\ s.rows = values /\ s.ok = ok /\ s.caller = Given + 1
          /\ statements' = Append(statements, s)
    <3>1. [rows |-> values, ok |-> ok, caller |-> Given + 1] \in Statements
      BY <2>1 DEF Statements
    <3> QED
      BY <1>2, <1>3, <3>1 DEF ExecuteQuery
  <2>3. statements' \in Seq(Statements)
    BY <2>1, <2>2
  <2>4. PICK g \in Nat : g = Given
    BY <2>1
  <2>5. \/ ok /\ values' = Append(<<>>, g + 1)
        \/ ~ok /\ values' = <<>>
    BY <1>2, <1>3, <2>4 DEF AfterExecution
  <2>6. /\ values' \in Seq(Nat)
        /\ ok => Len(values') = 1 /\ values'[1] = g + 1 /\ values' # <<>>
        /\ ~ok => values' = <<>> /\ Len(values') = 0
    <3>1. CASE ok
      <4>1. values' = Append(<<>>, g + 1)
        BY <2>5, <3>1
      <4> QED
        BY <3>1, <4>1
    <3>2. CASE ~ok
      <4>1. values' = <<>>
        BY <2>5, <3>2
      <4> QED
        BY <3>2, <4>1
    <3> QED
      BY <3>1, <3>2
  <2>7. length' \in Nat
    BY <1>2, <1>3, <2>1
  <2>8. /\ Extended
        /\ Given' = Given + 1
        /\ written'[Given'] = Written + size
        /\ taken'[Given'] = ok
        /\ Written = IF Given = 0 THEN 0 ELSE written[Given]
    BY <1>1, <1>2, <1>3, <2>1, <2>3, <2>6, <2>7, ExtendedBy
  <2>9. InsertTypes'
    BY <2>8 DEF Extended
  <2>10. Given' = g + 1 /\ taken'[g + 1] = ok /\ taken'[Given + 1] = ok
    BY <2>4, <2>8
  <2>11. written'[g + 1] \in Nat
    <3>1. \A i \in 1..g : written[i] \in Nat
      BY <1>1, <2>4 DEF InsertTypes, Given
    <3>2. written'[g + 1] = Written + size /\ Written \in Nat
      BY <2>1, <2>4, <2>8, <2>10, <3>1
    <3> QED
      BY <2>1, <3>2
  <2>12. CASE ok
    <3>1. Len(values') = 1 /\ values'[1] = g + 1 /\ values' # <<>>
      BY <2>6, <2>12
    <3>2. Given' = Given + 1 /\ taken'[Given + 1] /\ Len(values') = 1
      BY <2>8, <2>10, <2>12, <3>1
    <3>3. Given' - Len(values') >= Given /\ Len(values') \in Nat
      BY <2>4, <2>10, <3>1
    <3>4. Executed'
      <4>1. ExecutesCollected(s)
        BY <1>2, <2>2, <2>12, <3>2, <3>3 DEF ExecutesCollected
      <4> QED
        BY <2>8, <4>1, StatementAdded
    <3>5. \A i \in 1..Len(values') :
            values'[i] = Given' - Len(values') + i /\ taken'[values'[i]]
      <4>1. \A i \in 1..Len(values') : i = 1
        BY <3>1
      <4>2. values'[1] = Given' - Len(values') + 1
        BY <2>10, <3>1
      <4>3. taken'[values'[1]]
        BY <2>10, <2>12, <3>1
      <4> QED
        BY <4>1, <4>2, <4>3
    <3>6. length' >= QueryLength + written'[g + 1] - written'[values'[1]]
      BY <1>2, <1>3, <2>1, <2>11, <3>1
    <3>7. Len(values') <= Given' /\ ~(Len(values') > 1)
      BY <2>10, <3>1
    <3>8. Collected'
      BY <2>10, <3>1, <3>5, <3>6, <3>7 DEF Collected
    <3> QED
      BY <2>9, <3>4, <3>8 DEF InsertsInv
  <2>13. CASE ~ok
    <3>1. values' = <<>> /\ Len(values') = 0
      BY <2>6, <2>13
    <3>2. Given' = Given + 1 /\ ~taken'[Given + 1]
      BY <2>8, <2>10, <2>13
    <3>3. Given' - Len(values') >= Given /\ Len(values') \in Nat
      BY <2>4, <2>10, <3>1
    <3>4. ~s.ok /\ s.caller = Given + 1
      BY <2>2, <2>13
    <3>5. Executed'
      <4>1. ExecutesCollected(s)
        BY <1>2, <2>2, <3>2, <3>3, <3>4 DEF ExecutesCollected
      <4> QED
        BY <2>8, <4>1, StatementAdded
    <3>6. \A i \in 1..Len(values') :
            values'[i] = Given' - Len(values') + i /\ taken'[values'[i]]
      BY <3>1
    <3>7. Len(values') <= Given' /\ ~(Len(values') > 1)
      BY <2>10, <3>1
    <3>8. Collected'
      BY <1>2, <1>3, <3>1, <3>6, <3>7 DEF Collected
    <3> QED
      BY <2>9, <3>5, <3>8 DEF InsertsInv
  <2> QED
    BY <2>12, <2>13

LEMMA AddRowKeeps ==
  ASSUME InsertsInv, NEW size \in Nat, AddRow(size)
  PROVE  InsertsInv'
<1>1. \/ Joins(Given + 1, length + size)
      \/ StartsAnother(Given + 1, length + size)
  BY DEF AddRow, Given
<1> QED
  BY <1>1, RowCollected, StatementStarted

LEMMA InsertsInitHolds == InsertsInit => InsertsInv
<1> SUFFICES ASSUME InsertsInit PROVE InsertsInv
  OBVIOUS
<1>1. /\ length = QueryLength /\ values = <<>> /\ written = <<>>
      /\ taken = <<>> /\ statements = <<>>
  BY DEF InsertsInit
<1>2. QueryLength \in Nat
  BY InsertsAssumption
<1>3. InsertTypes
  BY <1>1, <1>2 DEF InsertTypes, Given
<1>4. Collected /\ Executed
  BY <1>1 DEF Collected, Executed, Given
<1> QED
  BY <1>3, <1>4 DEF InsertsInv

LEMMA InsertsInductive == InsertsInv /\ [InsertsNext]_insertVars => InsertsInv'
<1> SUFFICES ASSUME InsertsInv, [InsertsNext]_insertVars PROVE InsertsInv'
  OBVIOUS
<1>1. CASE UNCHANGED insertVars
  <2>1. InsertTypes' /\ Collected'
    BY <1>1 DEF InsertsInv, insertVars, InsertTypes, Collected, Given
  <2>2. Executed'
    BY <1>1 DEF InsertsInv, insertVars, Executed, Given, Stored
  <2> QED
    BY <2>1, <2>2 DEF InsertsInv
<1> QED
  <2>1. ASSUME NEW size \in 1..MaxRow, AddRow(size) PROVE InsertsInv'
    <3>1. size \in Nat
      BY InsertsAssumption
    <3> QED
      BY <2>1, <3>1, AddRowKeeps
  <2> QED
    BY <1>1, <2>1, ExecuteBatchKeeps DEF InsertsNext

LEMMA InsertsInvImplies == InsertsInv => RowsInserted
<1> SUFFICES ASSUME InsertsInv PROVE RowsInserted
  OBVIOUS
<1>1. InsertTypes /\ Collected /\ Executed
  BY DEF InsertsInv
<1>2. /\ values \in Seq(Nat) /\ statements \in Seq(Statements)
      /\ taken \in Seq(BOOLEAN) /\ Len(taken) = Given /\ Given \in Nat
  BY <1>1 DEF InsertTypes, Given
<1>3. PICK m \in Nat, n \in Nat, g \in Nat :
        m = Len(statements) /\ n = Len(values) /\ g = Given
  BY <1>2
<1> DEFINE batches == Append([k \in DOMAIN statements |-> statements[k].rows], values)
<1>4. /\ DOMAIN batches = 1..(m + 1)
      /\ \A k \in 1..m : batches[k] = statements[k].rows
      /\ batches[m + 1] = values
      /\ \A k \in 1..(m + 1) : batches[k] \in Seq(Nat)
  <2>1. \A k \in 1..m : statements[k] \in Statements
    BY <1>2, <1>3
  <2>2. \A k \in 1..m : statements[k].rows \in Seq(Nat)
    BY <2>1 DEF Statements
  <2> DEFINE rows == [k \in DOMAIN statements |-> statements[k].rows]
  <2>3. DOMAIN statements = 1..m
    BY <1>2, <1>3
  <2>4. rows \in Seq(Seq(Nat)) /\ Len(rows) = m /\ \A k \in 1..m : rows[k] = statements[k].rows
    BY <1>3, <2>2, <2>3
  <2> HIDE DEF rows
  <2>5. batches = Append(rows, values)
    BY DEF rows
  <2> HIDE DEF batches
  <2> QED
    BY <1>2, <1>3, <2>2, <2>4, <2>5
<1> HIDE DEF batches
<1>5. /\ n <= g
      /\ \A i \in 1..n : values[i] = g - n + i /\ taken[values[i]]
      /\ IF values = <<>> THEN length = QueryLength
         ELSE length >= QueryLength + written[g] - written[values[1]]
      /\ n > 1 => length <= MaxPacket
  BY <1>1, <1>3 DEF Collected
<1>6. ASSUME NEW k \in 1..m
       PROVE  /\ Stored(statements[k])
              /\ \A i \in 1..Len(batches[k]) : batches[k][i] <= g - n
  <2>1. batches[k] = statements[k].rows
    BY <1>4
  <2>2. \A i \in 1..Len(statements[k].rows) : statements[k].rows[i] <= g - n
    BY <1>1, <1>3 DEF Executed
  <2>3. Stored(statements[k])
    BY <1>1, <1>3 DEF Executed
  <2> QED
    BY <2>1, <2>2, <2>3
<1>7. ASSUME NEW k \in 1..m, NEW l \in 1..m, k < l
       PROVE  \A i \in 1..Len(batches[k]), j \in 1..Len(batches[l]) :
                batches[k][i] < batches[l][j]
  <2>1. batches[k] = statements[k].rows /\ batches[l] = statements[l].rows
    BY <1>4
  <2>2. \A i \in 1..Len(statements[k].rows), j \in 1..Len(statements[l].rows) :
          statements[k].rows[i] < statements[l].rows[j]
    BY <1>1, <1>3, <1>7 DEF Executed
  <2> QED
    BY <2>1, <2>2
<1>8. /\ \A k \in 1..m : Stored(statements[k])
      /\ \A k \in 1..m : \A i \in 1..Len(batches[k]) : batches[k][i] <= g - n
      /\ \A k, l \in 1..m :
           \A i \in 1..Len(batches[k]), j \in 1..Len(batches[l]) :
             k < l => batches[k][i] < batches[l][j]
  BY <1>6, <1>7
<1>9. \A row \in 1..g :
        /\ taken[row] =>
             \/ row > g - n
             \/ \E k \in 1..m : \E i \in 1..Len(batches[k]) : batches[k][i] = row
        /\ ~taken[row] => \E k \in 1..m :
                            ~statements[k].ok /\ statements[k].caller = row
  <2>1. \A row \in 1..g :
          /\ taken[row] =>
               \/ row > g - n
               \/ \E k \in 1..m :
                    \E i \in 1..Len(statements[k].rows) : statements[k].rows[i] = row
          /\ ~taken[row] => \E k \in 1..m :
                              ~statements[k].ok /\ statements[k].caller = row
    BY <1>1, <1>3 DEF Executed
  <2>2. \A k \in 1..m : batches[k] = statements[k].rows
    BY <1>4
  <2> QED
    BY <2>1, <2>2
<1>10. \A k \in 1..m :
        /\ batches[k] # <<>>
        /\ \A i \in 1..Len(batches[k]) :
             batches[k][i] \in 1..g /\ taken[batches[k][i]]
        /\ \A i, j \in 1..Len(batches[k]) : i < j => batches[k][i] < batches[k][j]
        /\ Len(batches[k]) > 1 =>
             QueryLength + written[batches[k][Len(batches[k])]]
               - written[batches[k][1]] <= MaxPacket
        /\ ~statements[k].ok /\ statements[k].caller # 0 =>
             /\ statements[k].caller \in 1..g /\ ~taken[statements[k].caller]
             /\ batches[k][Len(batches[k])] + 1 = statements[k].caller
  <2> SUFFICES ASSUME NEW k \in 1..m
               PROVE  /\ batches[k] # <<>>
                      /\ \A i \in 1..Len(batches[k]) :
                           batches[k][i] \in 1..g /\ taken[batches[k][i]]
                      /\ \A i, j \in 1..Len(batches[k]) :
                           i < j => batches[k][i] < batches[k][j]
                      /\ Len(batches[k]) > 1 =>
                           QueryLength + written[batches[k][Len(batches[k])]]
                             - written[batches[k][1]] <= MaxPacket
                      /\ ~statements[k].ok /\ statements[k].caller # 0 =>
                           /\ statements[k].caller \in 1..g
                           /\ ~taken[statements[k].caller]
                           /\ batches[k][Len(batches[k])] + 1 = statements[k].caller
    OBVIOUS
  <2>1. PICK s : s = statements[k]
    OBVIOUS
  <2>2. Stored(s) /\ s.rows = batches[k]
    BY <1>4, <1>8, <2>1
  <2>3. /\ s.rows # <<>>
        /\ \A i \in 1..Len(s.rows) : s.rows[i] \in 1..g /\ taken[s.rows[i]]
        /\ \A i, j \in 1..Len(s.rows) : i < j => s.rows[i] < s.rows[j]
    BY <1>3, <2>2 DEF Stored
  <2>4. /\ Len(s.rows) > 1 =>
             QueryLength + written[s.rows[Len(s.rows)]] - written[s.rows[1]] <= MaxPacket
        /\ ~s.ok /\ s.caller # 0 =>
             /\ s.caller \in 1..g /\ ~taken[s.caller]
             /\ s.rows[Len(s.rows)] + 1 = s.caller
    BY <1>3, <2>2 DEF Stored
  <2> QED
    BY <2>1, <2>2, <2>3, <2>4
<1>11. DOMAIN taken = 1..g /\ DOMAIN statements = 1..m
  BY <1>2, <1>3
<1>12. ASSUME NEW row \in 1..g
       PROVE  taken[row] <=>
                \E k \in 1..(m + 1) : \E i \in 1..Len(batches[k]) : batches[k][i] = row
  <2>1. ASSUME taken[row], row > g - n
        PROVE  \E k \in 1..(m + 1) : \E i \in 1..Len(batches[k]) : batches[k][i] = row
    <3>1. PICK i \in 1..n : row = g - n + i
      <4>1. row - (g - n) \in 1..n /\ row = g - n + (row - (g - n))
        BY <1>3, <1>5, <1>12, <2>1
      <4> QED
        BY <4>1
    <3>2. m + 1 \in 1..(m + 1) /\ i \in 1..Len(batches[m + 1])
      BY <1>3, <1>4, <3>1
    <3>3. batches[m + 1][i] = row
      BY <1>4, <1>5, <3>1
    <3> QED
      BY <3>2, <3>3
  <2>2. \A k \in 1..m : k \in 1..(m + 1)
    BY <1>3
  <2>3. ASSUME NEW k \in 1..(m + 1), NEW i \in 1..Len(batches[k]), batches[k][i] = row
        PROVE  taken[row]
    <3>1. CASE k \in 1..m
      BY <1>10, <2>3, <3>1
    <3>2. CASE k = m + 1
      BY <1>3, <1>4, <1>5, <2>3, <3>2
    <3> QED
      BY <1>3, <2>3, <3>1, <3>2
  <2> QED
    BY <1>9, <2>1, <2>2, <2>3
<1>13. \A row \in DOMAIN taken :
         taken[row] <=> \E k \in DOMAIN batches : row \in Range(batches[k])
  <2>1. \A k \in 1..(m + 1) : \A row :
          row \in Range(batches[k]) <=> \E i \in 1..Len(batches[k]) : batches[k][i] = row
    <3> SUFFICES ASSUME NEW k \in 1..(m + 1), NEW row
                 PROVE  row \in Range(batches[k]) <=>
                          \E i \in 1..Len(batches[k]) : batches[k][i] = row
      OBVIOUS
    <3>1. DOMAIN batches[k] = 1..Len(batches[k])
      BY <1>4
    <3> QED
      BY <3>1 DEF Range
  <2>2. DOMAIN batches = 1..(m + 1)
    BY <1>4
  <2>3. ASSUME NEW row \in 1..g
        PROVE  taken[row] <=> \E k \in 1..(m + 1) : row \in Range(batches[k])
    <3>1. (\E k \in 1..(m + 1) : \E i \in 1..Len(batches[k]) : batches[k][i] = row)
            <=> \E k \in 1..(m + 1) : row \in Range(batches[k])
      BY <2>1
    <3> QED
      BY <1>12, <3>1
  <2> QED
    BY <1>11, <2>2, <2>3
<1>14. ASSUME NEW k \in 1..(m + 1), NEW l \in 1..(m + 1),
              NEW i \in 1..Len(batches[k]), NEW j \in 1..Len(batches[l]),
              k < l \/ (k = l /\ i < j)
       PROVE  batches[k][i] < batches[l][j]
  <2>1. CASE k \in 1..m /\ l \in 1..m
    BY <1>8, <1>10, <1>14, <2>1
  <2>2. CASE k \in 1..m /\ l = m + 1
    <3>1. batches[k][i] <= g - n /\ batches[k][i] \in Nat
      BY <1>8, <1>10, <2>2
    <3>2. j \in 1..n /\ batches[l][j] = g - n + j
      BY <1>3, <1>4, <1>5, <2>2
    <3> QED
      BY <1>3, <3>1, <3>2
  <2>3. CASE k = m + 1
    <3>1. l = m + 1 /\ i < j
      BY <1>3, <1>14, <2>3
    <3>2. i \in 1..n /\ j \in 1..n
      BY <1>3, <1>4, <2>3, <3>1
    <3>3. batches[k][i] = g - n + i /\ batches[l][j] = g - n + j
      BY <1>4, <1>5, <2>3, <3>1, <3>2
    <3> QED
      BY <1>3, <3>1, <3>2, <3>3
  <2> QED
    BY <1>3, <2>1, <2>2, <2>3
<1>15. \A k, l \in DOMAIN batches :
         \A i \in DOMAIN batches[k], j \in DOMAIN batches[l] :
           k < l \/ (k = l /\ i < j) => batches[k][i] < batches[l][j]
  <2>1. \A k \in 1..(m + 1) : DOMAIN batches[k] = 1..Len(batches[k])
    BY <1>4
  <2> QED
    BY <1>4, <1>14, <2>1
<1>16. \A row \in DOMAIN taken :
         ~taken[row] => \E k \in DOMAIN statements :
                          ~statements[k].ok /\ statements[k].caller = row
  BY <1>9, <1>11
<1>17. \A k \in DOMAIN statements :
         ~statements[k].ok /\ statements[k].caller # 0 =>
           /\ ~taken[statements[k].caller]
           /\ Last(statements[k].rows) + 1 = statements[k].caller
  BY <1>4, <1>10, <1>11 DEF Last
<1>18. ASSUME NEW k \in 1..(m + 1), Len(batches[k]) > 1
       PROVE  QueryLength + written[Last(batches[k])] - written[Head(batches[k])]
                <= MaxPacket
  <2>1. Last(batches[k]) = batches[k][Len(batches[k])] /\ Head(batches[k]) = batches[k][1]
    BY <1>4, <1>18 DEF Last
  <2>2. CASE k \in 1..m
    BY <1>10, <1>18, <2>1, <2>2
  <2>3. CASE k = m + 1
    <3>1. n > 1 /\ batches[k] = values /\ values # <<>>
      BY <1>2, <1>3, <1>4, <1>18, <2>3
    <3>2. n \in 1..n /\ 1 \in 1..n
      BY <1>3, <3>1
    <3>3. values[n] = g /\ values[1] \in 1..g
      BY <1>3, <1>5, <3>2
    <3>4. length <= MaxPacket /\ length >= QueryLength + written[g] - written[values[1]]
      BY <1>5, <3>1
    <3>5. written[g] \in Nat /\ written[values[1]] \in Nat
      <4>1. \A i \in 1..g : written[i] \in Nat
        BY <1>1, <1>3 DEF InsertTypes, Given
      <4> QED
        BY <3>3, <4>1
    <3>6. QueryLength \in Nat /\ MaxPacket \in Nat /\ length \in Nat
      BY <1>1, InsertsAssumption DEF InsertTypes
    <3>7. QueryLength + written[g] - written[values[1]] <= MaxPacket
      BY <3>4, <3>5, <3>6
    <3> QED
      BY <1>3, <2>1, <3>1, <3>3, <3>7
  <2> QED
    BY <1>3, <2>2, <2>3
<1> QED
  BY <1>4, <1>13, <1>15, <1>16, <1>17, <1>18 DEF RowsInserted, batches

(* No row that addRow took is lost, stored twice or out of order, whatever *)
(* the lengths of the rows, and no more than the failed row is refused     *)
(* (DBInsert::addRow, DBInsert::execute).                                  *)
THEOREM RowsInsertedHolds == InsertsSpec => []RowsInserted
<1>1. InsertsInit => InsertsInv
  BY InsertsInitHolds
<1>2. InsertsInv /\ [InsertsNext]_insertVars => InsertsInv'
  BY InsertsInductive
<1>3. InsertsInv => RowsInserted
  BY InsertsInvImplies
<1> QED
  BY <1>1, <1>2, <1>3, PTL DEF InsertsSpec
===============================================================================
