-------------------------- MODULE DatabaseTasksProofs --------------------------
(***************************************************************************)
(* Proofs about DatabaseTasks for any number of clients and statements.    *)
(***************************************************************************)
EXTENDS DatabaseTasks, SequenceTheorems, TLAPS

-------------------------------------------------------------------------------
(* Lemmas about lists *)

(* What is in a list after one more element was appended. *)
LEMMA AppendList ==
  ASSUME NEW S, NEW seq \in Seq(S), NEW x \in S
  PROVE  /\ Append(seq, x) \in Seq(S)
         /\ Len(seq) \in Nat /\ Len(Append(seq, x)) = Len(seq) + 1
         /\ \A i \in 1..Len(seq) : Append(seq, x)[i] = seq[i]
         /\ Append(seq, x)[Len(seq) + 1] = x
BY LenProperties

(* Appending adds one element. *)
LEMMA AppendElements ==
  ASSUME NEW S, NEW seq \in Seq(S), NEW x \in S
  PROVE  Elements(Append(seq, x)) = Elements(seq) \cup {x}
<1>1. 1..Len(Append(seq, x)) = 1..Len(seq) \cup {Len(seq) + 1}
  BY AppendList
<1> QED
  BY <1>1, AppendList DEF Elements

(* What taking the first element of a list leaves. *)
LEMMA TailList ==
  ASSUME NEW S, NEW seq \in Seq(S), seq # <<>>
  PROVE  /\ Head(seq) = seq[1] /\ Head(seq) \in S
         /\ Tail(seq) \in Seq(S)
         /\ Len(seq) \in Nat \ {0} /\ Len(Tail(seq)) = Len(seq) - 1
         /\ \A i \in 1..Len(seq) - 1 : Tail(seq)[i] = seq[i + 1]
BY HeadTailProperties, EmptySeq

(* A list over S has elements of S only. *)
LEMMA ElementsTypes ==
  ASSUME NEW S, NEW seq \in Seq(S)
  PROVE  Elements(seq) \subseteq S
BY ElementOfSeq DEF Elements

-------------------------------------------------------------------------------
(* Types *)

Busy == {"execute", "answer"}

(* Where a thread that is not in runTask goes to. *)
LEMMA GotoIdle ==
  ASSUME TypeOK, NEW t \in Threads, NEW l \in Labels \ Busy, Goto(t, l),
         pc[t] \notin Busy
  PROVE  /\ pc' \in [Threads -> Labels]
         /\ \A u \in Threads : \A b \in Busy : pc'[u] = b <=> pc[u] = b
BY DEF TypeOK, Goto, Busy

(* Popping puts the first statement of the list into a free hand.          *)
LEMMA PopTypes ==
  ASSUME TypeOK, NEW t \in Threads, Pop(t), pc[t] \notin Busy
  PROVE  /\ tasks # <<>> /\ Head(tasks) \in Statements /\ Head(tasks) # None
         /\ tasks' = Tail(tasks) /\ tasks' \in Seq(Statements)
         /\ hand[t] = None
         /\ hand' = [hand EXCEPT ![t] = Head(tasks)]
         /\ hand' \in [Threads -> Statements \cup {None}]
         /\ pc' = [pc EXCEPT ![t] = "execute"]
         /\ pc' \in [Threads -> Labels]
         /\ \A u \in Threads : hand'[u] # None <=> pc'[u] \in Busy
<1>1. /\ tasks # <<>> /\ tasks' = Tail(tasks)
      /\ hand' = [hand EXCEPT ![t] = Head(tasks)]
      /\ pc' = [pc EXCEPT ![t] = "execute"]
  BY DEF Pop, Goto
<1>2. Head(tasks) \in Statements /\ Tail(tasks) \in Seq(Statements)
  BY <1>1, TailList DEF TypeOK
<1>3. Head(tasks) # None /\ hand[t] = None
  BY <1>2, DatabaseTasksAssumption DEF TypeOK, Busy
<1>4. /\ hand' \in [Threads -> Statements \cup {None}]
      /\ pc' \in [Threads -> Labels]
  BY <1>1, <1>2 DEF TypeOK, Labels
<1>5. \A u \in Threads : hand'[u] # None <=> pc'[u] \in Busy
  BY <1>1, <1>3 DEF TypeOK, Busy
<1> QED
  BY <1>1, <1>2, <1>3, <1>4, <1>5

-------------------------------------------------------------------------------
(* How the log, the hands and the list are related *)

(* Statements that were popped. *)
Gone == Len(accepted) - Len(tasks)
Popped == {accepted[i] : i \in 1..Gone}

(* The list is what remains of the statements accepted, without repetition *)
(* and in their order; those in front of it are in a hand or executed.     *)
QueueInv ==
  /\ Gone \in Nat
  /\ \A k \in 1..Len(tasks) : tasks[k] = accepted[Gone + k]
  /\ \A i, j \in 1..Len(accepted) : accepted[i] = accepted[j] => i = j
  /\ InHand \cup Done = Popped

(* Each is executed once and answered for once, by the thread that has it. *)
HandInv ==
  /\ \A i, j \in 1..Len(executed) : executed[i] = executed[j] => i = j
  /\ \A t, u \in Threads : hand[t] = hand[u] /\ hand[t] # None => t = u
  /\ \A t \in Threads : /\ pc[t] = "execute" => hand[t] \notin Done
                        /\ pc[t] = "answer" => hand[t] \in Done
  /\ answered \cup unanswered = (Done \cap Asking) \ InHand
  /\ answered \cap unanswered = {}

TasksInv == TypeOK /\ QueueInv /\ HandInv

(* A step that moves no statement. *)
LEMMA NoMove ==
  ASSUME TasksInv,
         UNCHANGED <<tasks, hand, accepted, executed, answered, unanswered>>,
         threadState' \in {"RUNNING", "TERMINATED"}, closers' \subseteq Clients,
         dispatcherOpen' \in BOOLEAN, refused' \subseteq Statements,
         pc' \in [Threads -> Labels],
         \A u \in Threads : \A b \in Busy : pc'[u] = b <=> pc[u] = b
  PROVE  TasksInv'
<1>1. TypeOK'
  <2>1. \A t \in Threads : hand'[t] # None <=> pc'[t] \in {"execute", "answer"}
    BY DEF TasksInv, TypeOK, Busy
  <2> QED
    BY <2>1 DEF TasksInv, TypeOK
<1>2. QueueInv'
  <2>1. Gone' = Gone
    BY DEF Gone
  <2>2. Popped' = Popped /\ InHand' = InHand /\ Done' = Done
    BY <2>1 DEF Popped, InHand, Done
  <2> QED
    BY <2>1, <2>2 DEF TasksInv, QueueInv
<1>3. HandInv'
  BY DEF TasksInv, HandInv, InHand, Done, Busy
<1> QED
  BY <1>1, <1>2, <1>3 DEF TasksInv

(* addTask accepts a statement. *)
LEMMA AcceptStep ==
  ASSUME TasksInv, NEW s \in Statements, s \notin Elements(accepted),
         tasks' = Append(tasks, s), accepted' = Append(accepted, s),
         UNCHANGED <<threadState, hand, closers, dispatcherOpen, refused,
                     executed, answered, unanswered>>,
         pc' \in [Threads -> Labels],
         \A u \in Threads : \A b \in Busy : pc'[u] = b <=> pc[u] = b
  PROVE  TasksInv'
<1>1. /\ tasks' \in Seq(Statements) /\ Len(tasks) \in Nat
      /\ Len(tasks') = Len(tasks) + 1
      /\ \A i \in 1..Len(tasks) : tasks'[i] = tasks[i]
      /\ tasks'[Len(tasks) + 1] = s
  BY AppendList DEF TasksInv, TypeOK
<1>2. /\ accepted' \in Seq(Statements) /\ Len(accepted) \in Nat
      /\ Len(accepted') = Len(accepted) + 1
      /\ \A i \in 1..Len(accepted) : accepted'[i] = accepted[i]
      /\ accepted'[Len(accepted) + 1] = s
  BY AppendList DEF TasksInv, TypeOK
<1>3. TypeOK'
  BY <1>1, <1>2 DEF TasksInv, TypeOK, Busy
<1>4. QueueInv'
  <2>1. Gone' = Gone /\ Gone \in Nat /\ Gone <= Len(accepted)
    BY <1>1, <1>2 DEF Gone, TasksInv, QueueInv
  <2>2. \A k \in 1..Len(tasks') : tasks'[k] = accepted'[Gone' + k]
    <3>1. ASSUME NEW k \in 1..Len(tasks)
          PROVE  tasks'[k] = accepted'[Gone + k]
      BY <1>1, <1>2 DEF TasksInv, QueueInv, Gone
    <3>2. Gone + (Len(tasks) + 1) = Len(accepted) + 1
      BY <1>1, <1>2 DEF Gone
    <3>3. tasks'[Len(tasks) + 1] = accepted'[Gone + (Len(tasks) + 1)]
      BY <1>1, <1>2, <3>2
    <3>4. \A k \in 1..Len(tasks') : k \in 1..Len(tasks) \/ k = Len(tasks) + 1
      BY <1>1
    <3> QED
      BY <2>1, <3>1, <3>3, <3>4
  <2>3. \A i, j \in 1..Len(accepted') : accepted'[i] = accepted'[j] => i = j
    <3>1. \A i \in 1..Len(accepted) : accepted[i] # s
      BY DEF Elements
    <3> QED
      BY <1>2, <3>1 DEF TasksInv, QueueInv
  <2>4. Popped' = Popped
    BY <1>2, <2>1 DEF Popped
  <2>5. InHand' = InHand /\ Done' = Done
    BY DEF InHand, Done
  <2> QED
    BY <2>1, <2>2, <2>3, <2>4, <2>5 DEF TasksInv, QueueInv
<1>5. HandInv'
  BY DEF TasksInv, HandInv, InHand, Done, Busy
<1> QED
  BY <1>3, <1>4, <1>5 DEF TasksInv

(* The worker or flush() pops the first statement. *)
LEMMA PopStep ==
  ASSUME TasksInv, NEW t \in Threads, Pop(t), pc[t] \notin Busy,
         UNCHANGED <<queueVars, logVars>>
  PROVE  TasksInv'
<1> DEFINE s == Head(tasks)
<1>1. /\ s \in Statements /\ s # None /\ tasks # <<>>
      /\ hand[t] = None
      /\ hand' = [hand EXCEPT ![t] = s]
      /\ pc' = [pc EXCEPT ![t] = "execute"]
  BY PopTypes DEF TasksInv
<1>2. /\ s = tasks[1] /\ Len(tasks) \in Nat \ {0}
      /\ tasks' = Tail(tasks) /\ Len(tasks') = Len(tasks) - 1
      /\ \A i \in 1..Len(tasks) - 1 : tasks'[i] = tasks[i + 1]
  <2>1. tasks \in Seq(Statements) /\ tasks # <<>> /\ tasks' = Tail(tasks)
    BY PopTypes DEF TasksInv, TypeOK
  <2> QED
    BY <2>1, TailList
<1>3. UNCHANGED <<accepted, executed, answered, unanswered>>
  BY DEF queueVars, logVars
<1>4. TypeOK'
  BY PopTypes DEF TasksInv, TypeOK, queueVars, logVars, Busy
<1> HIDE DEF s
<1>5. /\ Len(accepted) \in Nat /\ Gone \in Nat /\ Gone' = Gone + 1
      /\ Gone + 1 \in 1..Len(accepted)
      /\ s = accepted[Gone + 1]
  BY <1>2, <1>3 DEF TasksInv, TypeOK, QueueInv, Gone
<1>6. s \notin InHand \cup Done
  BY <1>5 DEF TasksInv, QueueInv, Popped
<1>7. InHand' = InHand \cup {s} /\ Done' = Done
  BY <1>1, <1>3 DEF InHand, Done, TasksInv, TypeOK
<1>8. QueueInv'
  <2>1. \A k \in 1..Len(tasks') : tasks'[k] = accepted'[Gone' + k]
    <3>1. ASSUME NEW k \in 1..Len(tasks')
          PROVE  tasks'[k] = accepted[Gone + 1 + k]
      <4>1. k \in 1..Len(tasks) - 1 /\ k + 1 \in 1..Len(tasks)
        BY <1>2
      <4>2. tasks[k + 1] = accepted[Gone + (k + 1)]
        BY <4>1 DEF TasksInv, QueueInv
      <4> QED
        BY <1>2, <1>5, <4>1, <4>2
    <3> QED
      BY <1>3, <1>5, <3>1
  <2>2. Popped' = Popped \cup {s}
    <3>1. 1..Gone' = 1..Gone \cup {Gone + 1}
      BY <1>5
    <3> QED
      BY <1>3, <1>5, <3>1 DEF Popped
  <2> QED
    BY <1>3, <1>5, <1>7, <2>1, <2>2 DEF TasksInv, QueueInv
<1>9. HandInv'
  <2>1. \A u, v \in Threads : hand'[u] = hand'[v] /\ hand'[u] # None => u = v
    BY <1>1, <1>6 DEF TasksInv, TypeOK, HandInv, InHand
  <2>2. \A u \in Threads : /\ pc'[u] = "execute" => hand'[u] \notin Done'
                           /\ pc'[u] = "answer" => hand'[u] \in Done'
    BY <1>1, <1>6, <1>7 DEF TasksInv, TypeOK, HandInv, Busy
  <2>3. answered' \cup unanswered' = (Done' \cap Asking) \ InHand'
    BY <1>3, <1>6, <1>7 DEF TasksInv, HandInv
  <2> QED
    BY <1>3, <2>1, <2>2, <2>3 DEF TasksInv, HandInv
<1> QED
  BY <1>4, <1>8, <1>9 DEF TasksInv

(* A thread executes the statement in its hand. *)
LEMMA ExecuteStep ==
  ASSUME TasksInv, NEW t \in Threads, Execute(t)
  PROVE  TasksInv'
<1> DEFINE s == hand[t]
<1>1. /\ pc[t] = "execute"
      /\ executed' = Append(executed, s)
      /\ pc' = [pc EXCEPT ![t] = "answer"]
      /\ UNCHANGED <<queueVars, tasks, hand, answered, unanswered>>
  BY DEF Execute, Goto
<1>2. UNCHANGED <<threadState, tasks, hand, closers, dispatcherOpen, refused,
                  accepted, answered, unanswered>>
  BY <1>1 DEF queueVars
<1>3. s \in Statements /\ s # None /\ s \notin Done /\ s \in InHand
  BY <1>1 DEF TasksInv, TypeOK, HandInv, InHand
<1>4. executed \in Seq(Statements)
  BY DEF TasksInv, TypeOK
<1>5. hand \in [Threads -> Statements \cup {None}] /\ pc \in [Threads -> Labels]
  BY DEF TasksInv, TypeOK
<1> HIDE DEF s
<1>6. /\ executed' \in Seq(Statements)
      /\ Len(executed) \in Nat /\ Len(executed') = Len(executed) + 1
      /\ \A i \in 1..Len(executed) : executed'[i] = executed[i]
      /\ executed'[Len(executed) + 1] = s
  BY <1>1, <1>3, <1>4, AppendList
<1>7. Done' = Done \cup {s}
  BY <1>1, <1>3, <1>4, AppendElements DEF Done
<1>8. InHand' = InHand
  BY <1>2 DEF InHand
<1>9. TypeOK'
  <2>1. pc' \in [Threads -> Labels]
    BY <1>1, <1>5 DEF Labels
  <2>2. \A u \in Threads : hand'[u] # None <=> pc'[u] \in {"execute", "answer"}
    BY <1>1, <1>2, <1>5 DEF TasksInv, TypeOK
  <2> QED
    BY <1>2, <1>6, <2>1, <2>2 DEF TasksInv, TypeOK
<1>10. QueueInv'
  <2>1. Gone' = Gone
    BY <1>2 DEF Gone
  <2>2. Popped' = Popped
    BY <1>2, <2>1 DEF Popped
  <2>3. InHand' \cup Done' = Popped'
    BY <1>3, <1>7, <1>8, <2>2 DEF TasksInv, QueueInv
  <2> QED
    BY <1>2, <2>1, <2>3 DEF TasksInv, QueueInv
<1>11. HandInv'
  <2>1. \A i, j \in 1..Len(executed') : executed'[i] = executed'[j] => i = j
    <3>1. \A i \in 1..Len(executed) : executed[i] # s
      BY <1>3 DEF Done, Elements
    <3> QED
      BY <1>6, <3>1 DEF TasksInv, HandInv
  <2>2. \A u, v \in Threads : hand'[u] = hand'[v] /\ hand'[u] # None => u = v
    BY <1>2 DEF TasksInv, HandInv
  <2>3. ASSUME NEW u \in Threads
        PROVE  /\ pc'[u] = "execute" => hand'[u] \notin Done'
               /\ pc'[u] = "answer" => hand'[u] \in Done'
    <3>1. CASE u = t
      BY <1>1, <1>2, <1>5, <1>7, <3>1 DEF s
    <3>2. CASE u # t
      <4>1. pc'[u] = pc[u] /\ hand'[u] = hand[u]
        BY <1>1, <1>2, <1>5, <3>2
      <4>2. pc[u] = "execute" => hand[u] # s
        BY <1>3, <3>2 DEF s, TasksInv, HandInv
      <4> QED
        BY <1>7, <4>1, <4>2 DEF TasksInv, HandInv
    <3> QED
      BY <3>1, <3>2
  <2>4. answered' \cup unanswered' = (Done' \cap Asking) \ InHand'
    BY <1>2, <1>3, <1>7, <1>8 DEF TasksInv, HandInv
  <2> QED
    BY <1>2, <2>1, <2>2, <2>3, <2>4 DEF TasksInv, HandInv
<1> QED
  BY <1>9, <1>10, <1>11 DEF TasksInv

(* A thread answers for the statement it has executed and lets go of it.   *)
LEMMA AnswerStep ==
  ASSUME TasksInv, NEW t \in Threads, Answer(t)
  PROVE  TasksInv'
<1> DEFINE s == hand[t]
<1>1. /\ pc[t] = "answer"
      /\ hand' = [hand EXCEPT ![t] = None]
      /\ pc' = [pc EXCEPT ![t] = AfterRun(t)]
      /\ UNCHANGED <<queueVars, tasks, executed>>
  BY DEF Answer, Goto
<1>2. UNCHANGED <<threadState, tasks, closers, dispatcherOpen, refused,
                  accepted, executed>>
  BY <1>1 DEF queueVars
<1>3. s \in Statements /\ s # None /\ s \in Done /\ s \in InHand
  BY <1>1 DEF TasksInv, TypeOK, HandInv, InHand
<1>4. /\ hand \in [Threads -> Statements \cup {None}]
      /\ pc \in [Threads -> Labels]
      /\ answered \subseteq Asking /\ unanswered \subseteq Asking
  BY DEF TasksInv, TypeOK
<1>5. AfterRun(t) \in Labels \ Busy
  BY DEF AfterRun, Labels, Busy
<1>6. \/ s \notin Asking /\ answered' = answered /\ unanswered' = unanswered
      \/ s \in Asking /\ answered' = answered \cup {s} /\ unanswered' = unanswered
      \/ s \in Asking /\ answered' = answered /\ unanswered' = unanswered \cup {s}
  BY DEF Answer
<1>7. InHand' = InHand \ {s}
  <2>1. \A u \in Threads : hand'[u] = IF u = t THEN None ELSE hand[u]
    BY <1>1, <1>4
  <2>2. \A u \in Threads : hand[u] = s => u = t
    BY <1>3 DEF TasksInv, HandInv
  <2> QED
    BY <1>3, <2>1, <2>2 DEF InHand
<1> HIDE DEF s
<1>8. Done' = Done
  BY <1>2 DEF Done
<1>9. TypeOK'
  <2>1. hand' \in [Threads -> Statements \cup {None}]
    BY <1>1, <1>4
  <2>2. pc' \in [Threads -> Labels]
    BY <1>1, <1>4, <1>5
  <2>3. answered' \subseteq Asking /\ unanswered' \subseteq Asking
    BY <1>4, <1>6
  <2>4. \A u \in Threads : hand'[u] # None <=> pc'[u] \in {"execute", "answer"}
    BY <1>1, <1>4, <1>5 DEF TasksInv, TypeOK, Busy
  <2> QED
    BY <1>2, <2>1, <2>2, <2>3, <2>4 DEF TasksInv, TypeOK
<1>10. QueueInv'
  <2>1. Gone' = Gone
    BY <1>2 DEF Gone
  <2>2. Popped' = Popped
    BY <1>2, <2>1 DEF Popped
  <2>3. InHand' \cup Done' = Popped'
    BY <1>3, <1>7, <1>8, <2>2 DEF TasksInv, QueueInv
  <2> QED
    BY <1>2, <2>1, <2>3 DEF TasksInv, QueueInv
<1>11. HandInv'
  <2>1. \A u, v \in Threads : hand'[u] = hand'[v] /\ hand'[u] # None => u = v
    BY <1>1, <1>4 DEF TasksInv, HandInv
  <2>2. \A u \in Threads : /\ pc'[u] = "execute" => hand'[u] \notin Done'
                           /\ pc'[u] = "answer" => hand'[u] \in Done'
    BY <1>1, <1>4, <1>5, <1>8 DEF TasksInv, HandInv, Busy
  <2>3. s \notin answered \cup unanswered
    BY <1>3 DEF TasksInv, HandInv
  <2>4. answered' \cup unanswered' = (Done' \cap Asking) \ InHand'
    BY <1>3, <1>6, <1>7, <1>8 DEF TasksInv, HandInv
  <2>5. answered' \cap unanswered' = {}
    BY <1>6, <2>3 DEF TasksInv, HandInv
  <2> QED
    BY <1>2, <2>1, <2>2, <2>4, <2>5 DEF TasksInv, HandInv
<1> QED
  BY <1>9, <1>10, <1>11 DEF TasksInv

-------------------------------------------------------------------------------
(* The induction *)

(* Nothing is listed, executed or held before the thread is started. *)
LEMMA TasksInit ==
  ASSUME Init PROVE TasksInv
<1>1. Len(tasks) = 0 /\ Len(accepted) = 0 /\ Len(executed) = 0
  BY DEF Init
<1>2. TypeOK
  BY DEF Init, TypeOK, Labels
<1>3. InHand = {} /\ Done = {}
  BY <1>1 DEF Init, InHand, Done, Elements
<1>4. QueueInv
  <2>1. Gone = 0
    BY <1>1 DEF Gone
  <2>2. Popped = {}
    BY <2>1 DEF Popped
  <2> QED
    BY <1>1, <1>3, <2>1, <2>2 DEF QueueInv
<1>5. HandInv
  BY <1>1, <1>3 DEF Init, HandInv
<1> QED
  BY <1>2, <1>4, <1>5 DEF TasksInv

(* What a client starts. *)
LEMMA ClientCalls ==
  ASSUME TasksInv, NEW c \in Clients,
         \/ \E s \in Statements : AddTask(c, s)
         \/ Flush(c)
         \/ Shutdown(c)
         \/ StopDispatcher(c)
  PROVE  TasksInv'
<1>1. c \in Threads /\ TypeOK
  BY DEF Threads, TasksInv
<1>2. ASSUME NEW s \in Statements, AddTask(c, s) PROVE TasksInv'
  <2>1. CASE Accepts
    <3>1. /\ tasks' = Append(tasks, s) /\ accepted' = Append(accepted, s)
          /\ s \notin Elements(accepted)
          /\ UNCHANGED <<threadState, hand, closers, dispatcherOpen, refused,
                         executed, answered, unanswered>>
          /\ pc[c] = "idle" /\ Goto(c, IF MustSignal THEN "signal" ELSE "idle")
      BY <1>2, <2>1 DEF AddTask, CanCall, logVars
    <3>2. (IF MustSignal THEN "signal" ELSE "idle") \in Labels \ Busy
      BY DEF Labels, Busy
    <3>3. pc[c] \notin Busy
      BY <3>1 DEF Busy
    <3>4. /\ pc' \in [Threads -> Labels]
          /\ \A u \in Threads : \A b \in Busy : pc'[u] = b <=> pc[u] = b
      BY <1>1, <3>1, <3>2, <3>3, GotoIdle
    <3> QED
      BY <3>1, <3>4, AcceptStep
  <2>2. CASE ~Accepts
    <3>1. /\ UNCHANGED <<tasks, hand, accepted, executed, answered, unanswered>>
          /\ UNCHANGED <<threadState, closers, dispatcherOpen, pc>>
          /\ refused' = refused \cup {s}
      BY <1>2, <2>2 DEF AddTask, logVars
    <3>2. /\ threadState' \in {"RUNNING", "TERMINATED"} /\ closers' \subseteq Clients
          /\ dispatcherOpen' \in BOOLEAN /\ refused' \subseteq Statements
          /\ pc' \in [Threads -> Labels]
          /\ \A u \in Threads : \A b \in Busy : pc'[u] = b <=> pc[u] = b
      BY <1>1, <3>1 DEF TypeOK
    <3> QED
      BY <3>1, <3>2, NoMove
  <2> QED
    BY <2>1, <2>2
<1>3. ASSUME Flush(c) \/ Shutdown(c) PROVE TasksInv'
  <2>1. /\ pc[c] \notin Busy /\ Goto(c, "flush")
        /\ UNCHANGED <<tasks, hand, accepted, executed, answered, unanswered>>
        /\ UNCHANGED <<dispatcherOpen, refused>>
        /\ threadState' \in {threadState, "TERMINATED"}
        /\ closers' \in {closers, closers \cup {c}}
    BY <1>3 DEF Flush, Shutdown, CanCall, Busy, queueVars, logVars
  <2>2. "flush" \in Labels \ Busy
    BY DEF Labels, Busy
  <2>3. /\ pc' \in [Threads -> Labels]
        /\ \A u \in Threads : \A b \in Busy : pc'[u] = b <=> pc[u] = b
    BY <1>1, <2>1, <2>2, GotoIdle
  <2>4. /\ threadState' \in {"RUNNING", "TERMINATED"} /\ closers' \subseteq Clients
        /\ dispatcherOpen' \in BOOLEAN /\ refused' \subseteq Statements
    BY <1>1, <2>1 DEF TypeOK
  <2> QED
    BY <2>1, <2>3, <2>4, NoMove
<1>4. ASSUME StopDispatcher(c) PROVE TasksInv'
  <2>1. /\ UNCHANGED <<tasks, hand, accepted, executed, answered, unanswered>>
        /\ UNCHANGED <<threadState, closers, refused, pc>>
        /\ dispatcherOpen' = FALSE
    BY <1>4 DEF StopDispatcher, logVars
  <2>2. /\ threadState' \in {"RUNNING", "TERMINATED"} /\ closers' \subseteq Clients
        /\ dispatcherOpen' \in BOOLEAN /\ refused' \subseteq Statements
        /\ pc' \in [Threads -> Labels]
        /\ \A u \in Threads : \A b \in Busy : pc'[u] = b <=> pc[u] = b
    BY <1>1, <2>1 DEF TypeOK
  <2> QED
    BY <2>1, <2>2, NoMove
<1> QED
  BY <1>2, <1>3, <1>4

(* A step that only moves a thread outside runTask. *)
LEMMA MoveOnly ==
  ASSUME TasksInv, NEW t \in Threads, NEW l \in Labels \ Busy, Goto(t, l),
         pc[t] \notin Busy, UNCHANGED <<queueVars, tasks, hand, logVars>>
  PROVE  TasksInv'
<1>1. /\ UNCHANGED <<tasks, hand, accepted, executed, answered, unanswered>>
      /\ UNCHANGED <<threadState, closers, dispatcherOpen, refused>>
  BY DEF queueVars, logVars
<1>2. /\ threadState' \in {"RUNNING", "TERMINATED"} /\ closers' \subseteq Clients
      /\ dispatcherOpen' \in BOOLEAN /\ refused' \subseteq Statements
  BY <1>1 DEF TasksInv, TypeOK
<1>3. TypeOK
  BY DEF TasksInv
<1>4. /\ pc' \in [Threads -> Labels]
      /\ \A u \in Threads : \A b \in Busy : pc'[u] = b <=> pc[u] = b
  BY <1>3, GotoIdle
<1> QED
  BY <1>1, <1>2, <1>4, NoMove

(* notify_one may also wake the worker, which then holds nothing either.   *)
LEMMA NotifyStep ==
  ASSUME TasksInv, NEW c \in Clients, Notify(c)
  PROVE  TasksInv'
<1>1. /\ UNCHANGED <<tasks, hand, accepted, executed, answered, unanswered>>
      /\ UNCHANGED <<threadState, closers, dispatcherOpen, refused>>
      /\ pc[c] = "signal"
  BY DEF Notify, queueVars, logVars
<1>2. pc' = [pc EXCEPT ![c] = "idle",
                       ![Worker] = IF @ = "waiting" THEN "woken" ELSE @]
  BY DEF Notify, NotifyFrom
<1>3. /\ threadState' \in {"RUNNING", "TERMINATED"} /\ closers' \subseteq Clients
      /\ dispatcherOpen' \in BOOLEAN /\ refused' \subseteq Statements
  BY <1>1 DEF TasksInv, TypeOK
<1>4. pc \in [Threads -> Labels] /\ c \in Threads /\ Worker \in Threads /\ c # Worker
  BY DatabaseTasksAssumption DEF TasksInv, TypeOK, Threads
<1>5. /\ pc'[c] = "idle"
      /\ pc'[Worker] = IF pc[Worker] = "waiting" THEN "woken" ELSE pc[Worker]
      /\ \A u \in Threads \ {c, Worker} : pc'[u] = pc[u]
  BY <1>2, <1>4
<1>6. pc' \in [Threads -> Labels]
  BY <1>2, <1>4, <1>5 DEF Labels
<1>7. \A u \in Threads : \A b \in Busy : pc'[u] = b <=> pc[u] = b
  BY <1>1, <1>5 DEF Busy
<1> QED
  BY <1>1, <1>3, <1>6, <1>7, NoMove

(* Every step of a thread that flushes, and of the worker. *)
LEMMA PopOrMove ==
  ASSUME TasksInv, NEW t \in Threads, pc[t] \notin Busy,
         UNCHANGED <<queueVars, logVars>>,
         \/ Pop(t)
         \/ \E l \in Labels \ Busy : Goto(t, l) /\ UNCHANGED <<tasks, hand>>
  PROVE  TasksInv'
<1>1. CASE Pop(t)
  BY <1>1, PopStep
<1>2. CASE \E l \in Labels \ Busy : Goto(t, l) /\ UNCHANGED <<tasks, hand>>
  <2>1. PICK l \in Labels \ Busy : Goto(t, l) /\ UNCHANGED <<tasks, hand>>
    BY <1>2
  <2> QED
    BY <2>1, MoveOnly
<1> QED
  BY <1>1, <1>2

(* What a client in a call does next. *)
LEMMA ClientMoves ==
  ASSUME TasksInv, NEW c \in Clients, ClientStep(c)
  PROVE  TasksInv'
<1>1. c \in Threads
  BY DEF Threads
<1>2. ASSUME FlushNext(c) PROVE TasksInv'
  <2>1. /\ pc[c] = "flush" /\ UNCHANGED <<queueVars, logVars>>
        /\ \/ Pop(c)
           \/ /\ Goto(c, IF c \in closers THEN "signal" ELSE "idle")
              /\ UNCHANGED <<tasks, hand>>
    BY <1>2 DEF FlushNext
  <2>2. (IF c \in closers THEN "signal" ELSE "idle") \in Labels \ Busy
    BY DEF Labels, Busy
  <2>3. pc[c] \notin Busy
    BY <2>1 DEF Busy
  <2> QED
    BY <1>1, <2>1, <2>2, <2>3, PopOrMove
<1> QED
  BY <1>1, <1>2, NotifyStep, ExecuteStep, AnswerStep DEF ClientStep

(* The worker and the start of it. *)
LEMMA WorkerMoves ==
  ASSUME TasksInv, Start \/ WorkerStep \/ SpuriousWakeup
  PROVE  TasksInv'
<1>1. Worker \in Threads
  BY DEF Threads
<1>2. /\ "check" \in Labels \ Busy /\ "waiting" \in Labels \ Busy
      /\ "woken" \in Labels \ Busy
      /\ (IF threadState = "TERMINATED" THEN "done" ELSE "lock") \in Labels \ Busy
  BY DEF Labels, Busy
<1>3. ASSUME Start PROVE TasksInv'
  <2>1. /\ UNCHANGED <<tasks, hand, accepted, executed, answered, unanswered>>
        /\ UNCHANGED <<closers, dispatcherOpen, refused>>
        /\ threadState' = "RUNNING" /\ Goto(Worker, "check")
        /\ pc[Worker] \notin Busy
    BY <1>3 DEF Start, logVars, Busy
  <2>2. /\ threadState' \in {"RUNNING", "TERMINATED"} /\ closers' \subseteq Clients
        /\ dispatcherOpen' \in BOOLEAN /\ refused' \subseteq Statements
    BY <2>1 DEF TasksInv, TypeOK
  <2>3. TypeOK
    BY DEF TasksInv
  <2>4. /\ pc' \in [Threads -> Labels]
        /\ \A u \in Threads : \A b \in Busy : pc'[u] = b <=> pc[u] = b
    BY <1>1, <1>2, <2>1, <2>3, GotoIdle
  <2> QED
    BY <2>1, <2>2, <2>4, NoMove
<1>4. ASSUME Check \/ SpuriousWakeup PROVE TasksInv'
  <2>1. /\ UNCHANGED <<queueVars, tasks, hand, logVars>> /\ pc[Worker] \notin Busy
        /\ \/ Goto(Worker, IF threadState = "TERMINATED" THEN "done" ELSE "lock")
           \/ Goto(Worker, "woken")
    BY <1>4 DEF Check, SpuriousWakeup, Busy
  <2> QED
    BY <1>1, <1>2, <2>1, MoveOnly
<1>5. ASSUME Lock \/ Relock PROVE TasksInv'
  <2>1. /\ UNCHANGED <<queueVars, logVars>> /\ pc[Worker] \notin Busy
        /\ \/ Pop(Worker)
           \/ Goto(Worker, "waiting") /\ UNCHANGED <<tasks, hand>>
           \/ Goto(Worker, "check") /\ UNCHANGED <<tasks, hand>>
    BY <1>5 DEF Lock, Relock, Busy
  <2> QED
    BY <1>1, <1>2, <2>1, PopOrMove
<1> QED
  BY <1>1, <1>3, <1>4, <1>5, ExecuteStep, AnswerStep DEF WorkerStep

(* Every step preserves the invariant. *)
LEMMA TasksStep ==
  ASSUME TasksInv, [Next]_vars PROVE TasksInv'
<1>1. CASE Next
  <2>1. \/ Start \/ WorkerStep \/ SpuriousWakeup
        \/ \E c \in Clients :
             \/ \E s \in Statements : AddTask(c, s)
             \/ Flush(c)
             \/ Shutdown(c)
             \/ StopDispatcher(c)
             \/ ClientStep(c)
    BY <1>1 DEF Next
  <2> QED
    BY <2>1, WorkerMoves, ClientCalls, ClientMoves
<1>2. CASE UNCHANGED vars
  <2>1. /\ UNCHANGED <<tasks, hand, accepted, executed, answered, unanswered>>
        /\ UNCHANGED <<threadState, closers, dispatcherOpen, refused, pc>>
    BY <1>2 DEF vars
  <2>2. /\ threadState' \in {"RUNNING", "TERMINATED"} /\ closers' \subseteq Clients
        /\ dispatcherOpen' \in BOOLEAN /\ refused' \subseteq Statements
        /\ pc' \in [Threads -> Labels]
        /\ \A u \in Threads : \A b \in Busy : pc'[u] = b <=> pc[u] = b
    BY <2>1 DEF TasksInv, TypeOK
  <2> QED
    BY <2>1, <2>2, NoMove
<1> QED
  BY <1>1, <1>2

(* The invariant, from the initial states and the steps. *)
LEMMA TasksInvariant == Spec => []TasksInv
BY TasksInit, TasksStep, PTL DEF Spec

-------------------------------------------------------------------------------
(* What follows from it *)

(* The statements accepted are those popped and those still listed. *)
LEMMA AcceptedSplits ==
  ASSUME TasksInv
  PROVE  Elements(accepted) = Listed \cup Popped
<1>1. /\ Len(accepted) \in Nat /\ Len(tasks) \in Nat /\ Gone \in Nat
      /\ Len(accepted) = Gone + Len(tasks)
  BY LenProperties DEF TasksInv, TypeOK, QueueInv, Gone
<1>2. Listed = {accepted[Gone + k] : k \in 1..Len(tasks)}
  BY DEF Listed, Elements, TasksInv, QueueInv
<1>3. Listed \cup Popped \subseteq Elements(accepted)
  <2>1. \A k \in 1..Len(tasks) : Gone + k \in 1..Len(accepted)
    BY <1>1
  <2>2. \A k \in 1..Gone : k \in 1..Len(accepted)
    BY <1>1
  <2> QED
    BY <1>2, <2>1, <2>2 DEF Elements, Popped
<1>4. ASSUME NEW i \in 1..Len(accepted) PROVE accepted[i] \in Listed \cup Popped
  <2>1. CASE i <= Gone
    <3>1. i \in 1..Gone
      BY <1>1, <2>1
    <3> QED
      BY <3>1 DEF Popped
  <2>2. CASE i > Gone
    <3>1. i - Gone \in 1..Len(tasks) /\ Gone + (i - Gone) = i
      BY <1>1, <2>2
    <3> QED
      BY <1>2, <3>1
  <2> QED
    BY <1>1, <2>1, <2>2
<1> QED
  BY <1>3, <1>4 DEF Elements

(* Spec keeps ExecutedOnce: a statement that addTask accepted is executed  *)
(* by one thread, once, and its callback is accounted for, whoever of the  *)
(* worker and any number of flushing clients pops it.                      *)
THEOREM ExecutedOnceHolds == Spec => []ExecutedOnce
<1>1. ASSUME TasksInv PROVE ExecutedOnce
  <2>1. Elements(accepted) = Listed \cup InHand \cup Done
    BY <1>1, AcceptedSplits DEF TasksInv, QueueInv
  <2> QED
    BY <1>1, <2>1 DEF TasksInv, HandInv, ExecutedOnce
<1> QED
  BY <1>1, TasksInvariant, PTL

(* Spec keeps OvertakenOnlyInHand: what flush() executes early is in front *)
(* of nothing that is still in the list.                                   *)
THEOREM OvertakenOnlyInHandHolds == Spec => []OvertakenOnlyInHand
<1>1. ASSUME TasksInv PROVE OvertakenOnlyInHand
  <2>1. SUFFICES ASSUME NEW i \in 1..Len(accepted), NEW j \in 1..Len(accepted),
                        i < j, accepted[j] \in Done
                 PROVE  accepted[i] \in Done \cup InHand
    BY DEF OvertakenOnlyInHand
  <2>2. /\ Len(accepted) \in Nat /\ Len(tasks) \in Nat /\ Gone \in Nat
        /\ Gone <= Len(accepted) /\ InHand \cup Done = Popped
    BY <1>1, LenProperties DEF TasksInv, TypeOK, QueueInv, Gone
  <2>3. PICK m \in 1..Gone : accepted[j] = accepted[m]
    BY <2>1, <2>2 DEF Popped
  <2>4. m = j
    <3>1. m \in 1..Len(accepted)
      BY <2>2, <2>3
    <3> QED
      BY <1>1, <2>3, <3>1 DEF TasksInv, QueueInv
  <2>5. i \in 1..Gone
    BY <2>1, <2>2, <2>4
  <2> QED
    BY <2>2, <2>5 DEF Popped
<1> QED
  BY <1>1, TasksInvariant, PTL
===============================================================================
