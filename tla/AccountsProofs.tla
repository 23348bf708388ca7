----------------------------- MODULE AccountsProofs ----------------------------
(***************************************************************************)
(* Proofs about Accounts for any number of clients, any names, passwords   *)
(* and accounts, and any number of losses of the session.                  *)
(***************************************************************************)
EXTENDS Accounts, SequenceTheorems, TLAPS

AccountRow ==
  [name : Names, email : Names, password : Passwords, by : 0..MaxClients]

Types ==
  /\ request \in [Clients -> Requests \cup {None}]
  /\ answer \in [Clients -> Opcodes \cup {None}]
  /\ tasks \in Seq(Clients)
  /\ accounts \in Seq(AccountRow)
  /\ unique \in BOOLEAN
  /\ disturbed \subseteq Clients

(* The clients whose logins are in the list have asked and wait for their  *)
(* one answer.                                                             *)
Waiting(c) == \E k \in 1..Len(tasks) : tasks[k] = c
Queued ==
  /\ \A c \in Clients : Waiting(c) => request[c] # None /\ answer[c] = None
  /\ \A c \in Clients : answer[c] # None => request[c] # None
  /\ \A j, k \in 1..Len(tasks) : tasks[j] = tasks[k] => j = k

(* The statement that the task has come to is one of its request.          *)
StatementOf(c) ==
  IF request[c].action = "login" THEN {"password"} ELSE {"name", "email", "insert"}
Stepping ==
  step # "idle" => tasks # <<>> /\ step \in StatementOf(Current)

(* Until its own INSERT, the checks that a creation has passed stay true.  *)
Checked ==
  /\ step \in {"email", "insert"} /\ Current \notin disturbed => NameRows = {}
  /\ step = "insert" /\ Current \notin disturbed => EmailRows = {}

(* Who waits for an answer has no row yet, unless the answer to his INSERT *)
(* was lost.                                                               *)
Rowless ==
  \A c \in Clients :
    request[c] = None \/ (Waiting(c) /\ c \notin disturbed) => RowsOf(c) = {}

AccountsInv ==
  /\ Types /\ Queued /\ Stepping /\ Checked /\ Rowless
  /\ AccountsUnique /\ AnswersAreTrue

-------------------------------------------------------------------------------
(* Lemmas about the list of tasks and the table *)

(* What is in a list after one more element was appended.                  *)
LEMMA AppendList ==
  ASSUME NEW S, NEW seq \in Seq(S), NEW x \in S
  PROVE  /\ Append(seq, x) \in Seq(S)
         /\ Len(seq) \in Nat /\ Len(Append(seq, x)) = Len(seq) + 1
         /\ \A i \in 1..Len(seq) : Append(seq, x)[i] = seq[i]
         /\ Append(seq, x)[Len(seq) + 1] = x
BY LenProperties

(* What taking the first element of a list leaves.                         *)
LEMMA TailList ==
  ASSUME NEW S, NEW seq \in Seq(S), seq # <<>>
  PROVE  /\ Head(seq) = seq[1] /\ Head(seq) \in S
         /\ Tail(seq) \in Seq(S)
         /\ Len(seq) \in Nat \ {0} /\ Len(Tail(seq)) = Len(seq) - 1
         /\ \A i \in 1..Len(seq) - 1 : Tail(seq)[i] = seq[i + 1]
BY HeadTailProperties, EmptySeq

(* The task that is run is the first that waits.                           *)
LEMMA CurrentProperties ==
  ASSUME Types, tasks # <<>>
  PROVE  /\ Current \in Clients /\ Current = tasks[1] /\ Waiting(Current)
         /\ Len(tasks) \in Nat \ {0} /\ 1 \in 1..Len(tasks)
<1>1. tasks \in Seq(Clients)
  BY DEF Types
<1>2. /\ Head(tasks) = tasks[1] /\ Head(tasks) \in Clients
      /\ Len(tasks) \in Nat \ {0}
  BY <1>1, TailList
<1> QED
  BY <1>2 DEF Current, Waiting

(* A task that ends leaves the others waiting, and itself not.             *)
LEMMA TaskEnds ==
  ASSUME Types, Queued, tasks # <<>>, tasks' = Tail(tasks)
  PROVE  /\ tasks' \in Seq(Clients)
         /\ \A c \in Clients : Waiting(c)' => Waiting(c) /\ c # Current
         /\ (\A j, k \in 1..Len(tasks) : tasks[j] = tasks[k] => j = k)'
<1>1. tasks \in Seq(Clients)
  BY DEF Types
<1>2. /\ Tail(tasks) \in Seq(Clients)
      /\ Len(tasks) \in Nat \ {0} /\ Len(Tail(tasks)) = Len(tasks) - 1
      /\ \A i \in 1..Len(tasks) - 1 : Tail(tasks)[i] = tasks[i + 1]
  BY <1>1, TailList
<1>3. Current = tasks[1]
  BY CurrentProperties
<1>4. \A j, k \in 1..Len(tasks) : tasks[j] = tasks[k] => j = k
  BY DEF Queued
<1>5. \A k \in 1..Len(tasks') : /\ tasks'[k] = tasks[k + 1]
                                /\ k + 1 \in 1..Len(tasks) /\ k + 1 # 1
  BY <1>2
<1>6. ASSUME NEW c \in Clients, Waiting(c)'
      PROVE  Waiting(c) /\ c # Current
  <2>1. PICK k \in 1..Len(tasks') : tasks'[k] = c
    BY <1>6 DEF Waiting
  <2>2. tasks[k + 1] = c /\ k + 1 \in 1..Len(tasks) /\ k + 1 # 1
    BY <1>5, <2>1
  <2>3. 1 \in 1..Len(tasks)
    BY <1>2
  <2> QED
    BY <1>3, <1>4, <2>2, <2>3 DEF Waiting
<1>7. ASSUME NEW j \in 1..Len(tasks'), NEW k \in 1..Len(tasks'),
             tasks'[j] = tasks'[k]
      PROVE  j = k
  <2>1. tasks[j + 1] = tasks[k + 1] /\ j + 1 = k + 1
    BY <1>4, <1>5, <1>7
  <2> QED
    BY <1>2, <2>1
<1> QED
  BY <1>2, <1>6, <1>7

(* A task that is posted waits behind the others.                          *)
LEMMA TaskPosted ==
  ASSUME Types, Queued, NEW c \in Clients, request[c] = None,
         tasks' = Append(tasks, c)
  PROVE  /\ tasks' \in Seq(Clients) /\ tasks' # <<>>
         /\ tasks # <<>> => Current' = Current
         /\ \A d \in Clients : Waiting(d)' <=> Waiting(d) \/ d = c
         /\ (\A j, k \in 1..Len(tasks) : tasks[j] = tasks[k] => j = k)'
<1>1. tasks \in Seq(Clients)
  BY DEF Types
<1>2. /\ tasks' \in Seq(Clients)
      /\ Len(tasks) \in Nat /\ Len(tasks') = Len(tasks) + 1
      /\ \A i \in 1..Len(tasks) : tasks'[i] = tasks[i]
      /\ tasks'[Len(tasks) + 1] = c
  BY <1>1, AppendList
<1>3. tasks' # <<>>
  BY <1>1
<1>4. tasks # <<>> => Current' = Current
  <2>1. ASSUME tasks # <<>> PROVE Current' = Current
    <3>1. Head(tasks) = tasks[1] /\ 1 \in 1..Len(tasks)
      BY <2>1, CurrentProperties DEF Current
    <3>2. Head(tasks') = tasks'[1]
      BY <1>2, <1>3, TailList
    <3> QED
      BY <1>2, <3>1, <3>2 DEF Current
  <2> QED
    BY <2>1
<1>5. \A k \in 1..Len(tasks') : k \in 1..Len(tasks) \/ k = Len(tasks) + 1
  BY <1>2
<1>6. \A d \in Clients : Waiting(d)' <=> Waiting(d) \/ d = c
  BY <1>2, <1>5 DEF Waiting
<1>7. \A k \in 1..Len(tasks) : tasks[k] # c
  BY DEF Queued, Waiting
<1>8. \A j, k \in 1..Len(tasks') : tasks'[j] = tasks'[k] => j = k
  BY <1>2, <1>5, <1>7 DEF Queued
<1> QED
  BY <1>2, <1>3, <1>4, <1>6, <1>8

(* What a statement does to the table: nothing, or the creation of the     *)
(* task inserts its row; who lost the answer, or was refused, is noted.    *)
TableStep ==
  /\ unique' = unique
  /\ disturbed' \in {disturbed, disturbed \cup {Current}}
  /\ \/ accounts' = accounts
     \/ /\ step = "insert" /\ Accepted
        /\ accounts' = Append(accounts, NewRow)

(* The row that a creation inserts.                                        *)
LEMMA NewRowProperties ==
  ASSUME Types, Queued, Stepping, step = "insert"
  PROVE  /\ NewRow \in AccountRow /\ NewRow.by = Current
         /\ NewRow.name = request[Current].name
         /\ NewRow.email = request[Current].email
<1>1. tasks # <<>> /\ request[Current].action # "login"
  BY DEF Stepping, StatementOf
<1>2. Current \in Clients /\ Waiting(Current)
  BY <1>1, CurrentProperties
<1>3. request[Current] \in Requests
  BY <1>2 DEF Queued, Types
<1>4. request[Current] \in
        [action : {"create"}, name : Names, email : Names, password : Passwords]
  BY <1>1, <1>3 DEF Requests
<1>5. Current \in 0..MaxClients
  BY <1>2, AccountsAssumption DEF Clients
<1> QED
  BY <1>4, <1>5 DEF NewRow, Row, AccountRow

(* Rows are added behind the others, and only those of the task.           *)
LEMMA TableGrows ==
  ASSUME Types, Queued, Stepping, TableStep
  PROVE  /\ accounts' \in Seq(AccountRow)
         /\ Len(accounts) \in Nat /\ Len(accounts') \in Nat
         /\ Len(accounts) <= Len(accounts')
         /\ \A i \in 1..Len(accounts) : accounts'[i] = accounts[i]
         /\ \A i \in 1..Len(accounts') :
              \/ i \in 1..Len(accounts)
              \/ /\ i = Len(accounts) + 1 /\ step = "insert" /\ Accepted
                 /\ accounts'[i] = NewRow
<1>1. accounts \in Seq(AccountRow)
  BY DEF Types
<1>2. Len(accounts) \in Nat
  BY <1>1, LenProperties
<1>3. CASE accounts' = accounts
  BY <1>1, <1>2, <1>3
<1>4. CASE /\ step = "insert" /\ Accepted
           /\ accounts' = Append(accounts, NewRow)
  <2>1. NewRow \in AccountRow
    BY <1>4, NewRowProperties
  <2>2. /\ Append(accounts, NewRow) \in Seq(AccountRow)
        /\ Len(Append(accounts, NewRow)) = Len(accounts) + 1
        /\ \A i \in 1..Len(accounts) : Append(accounts, NewRow)[i] = accounts[i]
        /\ Append(accounts, NewRow)[Len(accounts) + 1] = NewRow
    BY <1>1, <2>1, AppendList
  <2> QED
    BY <1>2, <1>4, <2>2
<1> QED
  BY <1>3, <1>4 DEF TableStep

(* The table stays in order, and only the task's own client gets a row.    *)
LEMMA TableInOrder ==
  ASSUME Types, Queued, Stepping, Checked, AccountsUnique, TableStep
  PROVE  /\ AccountsUnique'
         /\ \A c \in Clients : c # Current => (RowsOf(c) = {} => RowsOf(c)' = {})
         /\ \A c \in Clients : RowsOf(c) # {} => RowsOf(c)' # {}
         /\ \A i \in 1..Len(accounts) :
              i \in 1..Len(accounts') /\ accounts'[i] = accounts[i]
<1>1. /\ Len(accounts) \in Nat /\ Len(accounts') \in Nat
      /\ Len(accounts) <= Len(accounts')
      /\ \A i \in 1..Len(accounts) : accounts'[i] = accounts[i]
      /\ \A i \in 1..Len(accounts') :
              \/ i \in 1..Len(accounts)
              \/ /\ i = Len(accounts) + 1 /\ step = "insert" /\ Accepted
                 /\ accounts'[i] = NewRow
  BY TableGrows
<1>2. \A i \in 1..Len(accounts) : i \in 1..Len(accounts')
  BY <1>1
<1>3. \A c \in Clients : c # Current => (RowsOf(c) = {} => RowsOf(c)' = {})
  BY <1>1, NewRowProperties DEF RowsOf
<1>4. \A c \in Clients : RowsOf(c) # {} => RowsOf(c)' # {}
  BY <1>1, <1>2 DEF RowsOf
<1>5. unique' = unique /\ disturbed \subseteq disturbed' /\ unique \in BOOLEAN
  BY DEF TableStep, Types
<1>6. ASSUME NEW i \in 1..Len(accounts'), NEW j \in 1..Len(accounts'), i < j,
             \/ accounts'[i].name = accounts'[j].name
             \/ accounts'[i].email = accounts'[j].email
      PROVE  ~unique' /\ accounts'[j].by \in disturbed'
  <2>1. CASE j \in 1..Len(accounts)
    <3>1. i \in 1..Len(accounts)
      BY <1>1, <1>6, <2>1
    <3> QED
      BY <1>1, <1>5, <1>6, <2>1, <3>1 DEF AccountsUnique
  <2>2. CASE j = Len(accounts) + 1 /\ step = "insert" /\ Accepted
             /\ accounts'[j] = NewRow
    <3>1. i \in 1..Len(accounts) /\ accounts'[i] = accounts[i]
      BY <1>1, <1>6, <2>2
    <3>2. /\ NewRow.by = Current /\ NewRow.name = request[Current].name
          /\ NewRow.email = request[Current].email
      BY <2>2, NewRowProperties
    <3>3. \/ accounts[i].name = NewRow.name \/ accounts[i].email = NewRow.email
      BY <1>6, <2>2, <3>1
    <3>4. ~unique
      BY <2>2, <3>1, <3>3 DEF Accepted
    <3>5. Current \in disturbed
      BY <2>2, <3>1, <3>2, <3>3 DEF Checked, NameRows, EmailRows
    <3> QED
      BY <1>5, <2>2, <3>2, <3>4, <3>5
  <2> QED
    BY <1>1, <2>1, <2>2
<1>7. AccountsUnique'
  BY <1>6 DEF AccountsUnique
<1> QED
  BY <1>1, <1>2, <1>3, <1>4, <1>7

-------------------------------------------------------------------------------
(* Steps of the dispatcher *)

(* The next statement of a creation.                                       *)
Proceeds(next) ==
  /\ TableStep /\ GoOn(next) /\ tasks # <<>>
  /\ \/ /\ step = "name" /\ next = "email" /\ accounts' = accounts
        /\ NameRows = {} \/ Current \in disturbed'
     \/ /\ step = "email" /\ next = "insert" /\ accounts' = accounts
        /\ EmailRows = {} \/ Current \in disturbed'
     \/ step = "insert" /\ next = "insert" /\ Current \in disturbed'

(* The answer, which is true.                                              *)
Answers(opcode) ==
  /\ TableStep /\ Reply(opcode) /\ tasks # <<>> /\ step # "idle"
  /\ opcode \in Opcodes
  /\ opcode = "CreateAccountSuccess" =>
       step = "insert" /\ Accepted /\ accounts' = Append(accounts, NewRow)
  /\ opcode \in Refusals => accounts' = accounts
  /\ opcode = "LoginSuccess" =>
       \E i \in Named(request[Current].name) :
         accounts[i].password = request[Current].password
  /\ opcode \in {"InvalidAccountName", "InvalidPassword"} =>
       step = "password" /\ accounts' = accounts
  /\ opcode = "InvalidAccountName" =>
       Named(request[Current].name) = {} \/ Current \in disturbed'
  /\ opcode = "InvalidPassword" =>
       \E i \in Named(request[Current].name) :
         accounts[i].password # request[Current].password

(* The rows that a login finds are those of the name it gives.             *)
LEMMA LoginRowsNamed == LoginRows = Named(request[Current].name)
BY DEF LoginRows, Named, Matches

(* What becomes of a statement that does not give a row.                   *)
LEMMA QueryTouches ==
  ASSUME NEW rows, StoreQueryFails(rows) \/ \E i \in rows : StoreQuery(i, rows)
  PROVE  /\ accounts' = accounts
         /\ disturbed' \in {disturbed, disturbed \cup {Current}}
         /\ StoreQueryFails(rows) => rows = {} \/ Current \in disturbed'
BY DEF StoreQuery, StoreQueryFails, databaseVars

(* Every statement of the dispatcher goes on or answers.                   *)
LEMMA DispatchCases ==
  ASSUME Types, Queued, Stepping, Dispatch
  PROVE  \/ StartTask
         \/ \E next \in {"email", "insert"} : Proceeds(next)
         \/ \E opcode \in Opcodes : Answers(opcode)
<1>1. step # "idle" => tasks # <<>>
  BY DEF Stepping
<1>2. CASE VerifyAccount
  <2>1. /\ step = "password" /\ step # "idle" /\ tasks # <<>>
        /\ StoreQueryFails(LoginRows) \/ \E i \in LoginRows : StoreQuery(i, LoginRows)
    BY <1>1, <1>2 DEF VerifyAccount
  <2>2. /\ accounts' = accounts
        /\ disturbed' \in {disturbed, disturbed \cup {Current}}
        /\ StoreQueryFails(LoginRows) => LoginRows = {} \/ Current \in disturbed'
    BY <2>1, QueryTouches
  <2>3. ASSUME NEW i \in LoginRows,
               Reply(IF accounts[i].password = request[Current].password
                     THEN "LoginSuccess" ELSE "InvalidPassword")
        PROVE  \E opcode \in Opcodes : Answers(opcode)
    <3>1. i \in Named(request[Current].name)
      BY LoginRowsNamed
    <3>2. CASE accounts[i].password = request[Current].password
      <4>1. Reply("LoginSuccess")
        BY <2>3, <3>2
      <4>2. TableStep
        BY <2>2, <4>1 DEF TableStep, Reply
      <4>3. "LoginSuccess" \in Opcodes /\ "LoginSuccess" \notin Refusals
        BY DEF Opcodes, Refusals
      <4>4. Answers("LoginSuccess")
        BY <2>1, <3>1, <3>2, <4>1, <4>2, <4>3 DEF Answers
      <4> QED
        BY <4>3, <4>4
    <3>3. CASE accounts[i].password # request[Current].password
      <4>1. Reply("InvalidPassword")
        BY <2>3, <3>3
      <4>2. TableStep
        BY <2>2, <4>1 DEF TableStep, Reply
      <4>3. "InvalidPassword" \in Opcodes
        BY DEF Opcodes, Refusals
      <4>4. Answers("InvalidPassword")
        BY <2>1, <2>2, <3>1, <3>3, <4>1, <4>2, <4>3 DEF Answers
      <4> QED
        BY <4>3, <4>4
    <3> QED
      BY <3>2, <3>3
  <2>4. ASSUME StoreQueryFails(LoginRows), Reply("InvalidAccountName")
        PROVE  \E opcode \in Opcodes : Answers(opcode)
    <3>1. TableStep
      BY <2>2, <2>4 DEF TableStep, Reply
    <3>2. "InvalidAccountName" \in Opcodes
      BY DEF Opcodes, Refusals
    <3>3. Answers("InvalidAccountName")
      BY <2>1, <2>2, <2>4, <3>1, <3>2, LoginRowsNamed DEF Answers
    <3> QED
      BY <3>2, <3>3
  <2> QED
    BY <1>2, <2>3, <2>4 DEF VerifyAccount
<1>3. CASE CheckName
  <2>1. /\ step = "name" /\ step # "idle" /\ tasks # <<>>
        /\ StoreQueryFails(NameRows) \/ \E i \in NameRows : StoreQuery(i, NameRows)
    BY <1>1, <1>3 DEF CheckName
  <2>2. /\ accounts' = accounts
        /\ disturbed' \in {disturbed, disturbed \cup {Current}}
        /\ StoreQueryFails(NameRows) => NameRows = {} \/ Current \in disturbed'
    BY <2>1, QueryTouches
  <2>3. CASE Reply("UsernameAlreadyExists")
    <3>1. TableStep
      BY <2>2, <2>3 DEF TableStep, Reply
    <3>2. "UsernameAlreadyExists" \in Opcodes
      BY DEF Opcodes, Refusals
    <3>3. Answers("UsernameAlreadyExists")
      BY <2>1, <2>2, <2>3, <3>1, <3>2 DEF Answers
    <3> QED
      BY <3>2, <3>3
  <2>4. CASE StoreQueryFails(NameRows) /\ GoOn("email")
    <3>1. TableStep
      BY <2>2, <2>4 DEF TableStep, GoOn
    <3>2. Proceeds("email")
      BY <2>1, <2>2, <2>4, <3>1 DEF Proceeds
    <3> QED
      BY <3>2
  <2> QED
    BY <1>3, <2>3, <2>4 DEF CheckName
<1>4. CASE CheckEmail
  <2>1. /\ step = "email" /\ step # "idle" /\ tasks # <<>>
        /\ StoreQueryFails(EmailRows) \/ \E i \in EmailRows : StoreQuery(i, EmailRows)
    BY <1>1, <1>4 DEF CheckEmail
  <2>2. /\ accounts' = accounts
        /\ disturbed' \in {disturbed, disturbed \cup {Current}}
        /\ StoreQueryFails(EmailRows) => EmailRows = {} \/ Current \in disturbed'
    BY <2>1, QueryTouches
  <2>3. CASE Reply("EmailAlreadyRegistered")
    <3>1. TableStep
      BY <2>2, <2>3 DEF TableStep, Reply
    <3>2. "EmailAlreadyRegistered" \in Opcodes
      BY DEF Opcodes, Refusals
    <3>3. Answers("EmailAlreadyRegistered")
      BY <2>1, <2>2, <2>3, <3>1, <3>2 DEF Answers
    <3> QED
      BY <3>2, <3>3
  <2>4. CASE StoreQueryFails(EmailRows) /\ GoOn("insert")
    <3>1. TableStep
      BY <2>2, <2>4 DEF TableStep, GoOn
    <3>2. Proceeds("insert")
      BY <2>1, <2>2, <2>4, <3>1 DEF Proceeds
    <3> QED
      BY <3>2
  <2> QED
    BY <1>4, <2>3, <2>4 DEF CheckEmail
<1>5. CASE InsertAccount
  <2>1. step = "insert" /\ step # "idle" /\ tasks # <<>>
    BY <1>1, <1>5 DEF InsertAccount
  <2>2. /\ "CreateAccountSuccess" \in Opcodes /\ "CreateAccountSuccess" \notin Refusals
        /\ CreationFailed \in Opcodes
    BY DEF Opcodes, Refusals, CreationFailed
  <2>3. CASE /\ Accepted /\ accounts' = Append(accounts, NewRow)
             /\ Reply("CreateAccountSuccess") /\ disturbed' = disturbed
    <3>1. TableStep
      BY <2>1, <2>3 DEF TableStep, Reply
    <3>2. Answers("CreateAccountSuccess")
      BY <2>1, <2>2, <2>3, <3>1 DEF Answers
    <3> QED
      BY <2>2, <3>2
  <2>4. CASE /\ Reply(CreationFailed) /\ disturbed' = disturbed \cup {Current}
             /\ accounts' = accounts
    <3>1. TableStep
      BY <2>1, <2>4 DEF TableStep, Reply
    <3>2. Answers(CreationFailed)
      BY <2>1, <2>2, <2>4, <3>1 DEF Answers, CreationFailed
    <3> QED
      BY <2>2, <3>2
  <2>5. CASE /\ Accepted /\ accounts' = Append(accounts, NewRow)
             /\ disturbed' = disturbed \cup {Current} /\ GoOn("insert")
    <3>1. TableStep
      BY <2>1, <2>5 DEF TableStep, GoOn
    <3>2. Proceeds("insert")
      BY <2>1, <2>5, <3>1 DEF Proceeds
    <3> QED
      BY <3>2
  <2> QED
    BY <1>5, <2>3, <2>4, <2>5 DEF InsertAccount
<1> QED
  BY <1>2, <1>3, <1>4, <1>5 DEF Dispatch

-------------------------------------------------------------------------------
(* The invariant *)

(* A new client waits behind the others and has no row.                    *)
LEMMA ArrivalStep ==
  ASSUME AccountsInv, NEW c \in Clients, NEW r \in Requests, OnRecvFirstMessage(c, r)
  PROVE  AccountsInv'
<1>1. /\ Types /\ Queued /\ Stepping /\ Checked /\ Rowless
      /\ AccountsUnique /\ AnswersAreTrue
  BY DEF AccountsInv
<1>2. /\ request[c] = None /\ request' = [request EXCEPT ![c] = r]
      /\ tasks' = Append(tasks, c)
      /\ UNCHANGED <<answer, step, accounts, unique, disturbed>>
  BY DEF OnRecvFirstMessage, databaseVars
<1>3. /\ r # None /\ request \in [Clients -> Requests \cup {None}]
  BY <1>1, AccountsAssumption DEF Types
<1>4. /\ tasks' \in Seq(Clients) /\ tasks' # <<>>
      /\ tasks # <<>> => Current' = Current
      /\ \A d \in Clients : Waiting(d)' <=> Waiting(d) \/ d = c
      /\ (\A j, k \in 1..Len(tasks) : tasks[j] = tasks[k] => j = k)'
  BY <1>1, <1>2, TaskPosted
<1>5. Types'
  BY <1>1, <1>2, <1>3, <1>4 DEF Types
<1>6. answer[c] = None /\ ~Waiting(c)
  BY <1>1, <1>2 DEF Queued
<1>7. \A d \in Clients : request'[d] = IF d = c THEN r ELSE request[d]
  BY <1>2, <1>3
<1>8. Queued'
  BY <1>1, <1>2, <1>3, <1>4, <1>6, <1>7 DEF Queued
<1>9. step # "idle" => /\ tasks # <<>> /\ Current' = Current /\ Current \in Clients
                       /\ request'[Current] = request[Current]
  <2>1. step # "idle" => /\ tasks # <<>> /\ Current \in Clients /\ Waiting(Current)
    BY <1>1, CurrentProperties DEF Stepping
  <2> QED
    BY <1>4, <1>6, <1>7, <2>1
<1>10. Stepping'
  BY <1>1, <1>2, <1>4, <1>9 DEF Stepping, StatementOf
<1>11. Checked'
  BY <1>1, <1>2, <1>9 DEF Checked, NameRows, EmailRows
<1>12. \A d \in Clients : RowsOf(d)' = RowsOf(d)
  BY <1>2 DEF RowsOf
<1>13. Rowless'
  BY <1>1, <1>2, <1>4, <1>7, <1>12 DEF Rowless
<1>14. AccountsUnique'
  BY <1>1, <1>2 DEF AccountsUnique
<1>15. AnswersAreTrue'
  <2>1. ASSUME NEW d \in Clients, answer[d] = "LoginSuccess"
        PROVE  request'[d] = request[d]
    BY <1>6, <1>7, <2>1, AccountsAssumption DEF Opcodes
  <2> QED
    BY <1>1, <1>2, <1>12, <2>1 DEF AnswersAreTrue, Named
<1> QED
  BY <1>5, <1>8, <1>10, <1>11, <1>13, <1>14, <1>15 DEF AccountsInv

(* What happens to connections, and the start of a task, touch neither     *)
(* answers nor rows.                                                       *)
LEMMA IdleStep ==
  ASSUME AccountsInv,
         \/ \E c \in Clients : CloseWritten(c) \/ Disconnect(c)
         \/ StartTask \/ UNCHANGED vars
  PROVE  AccountsInv'
<1>1. UNCHANGED <<request, answer, tasks, accounts, disturbed, unique>>
  BY DEF CloseWritten, Disconnect, StartTask, vars, databaseVars
<1>2. Types' /\ Queued' /\ Rowless' /\ AccountsUnique' /\ AnswersAreTrue'
  BY <1>1 DEF AccountsInv, Types, Queued, Waiting, Rowless, RowsOf, AccountsUnique,
     AnswersAreTrue, Named
<1>3. CASE StartTask
  <2>1. /\ tasks # <<>>
        /\ step' = IF request[Current].action = "login" THEN "password" ELSE "name"
    BY <1>3 DEF StartTask
  <2>2. Stepping'
    BY <1>1, <2>1 DEF Stepping, StatementOf, Current
  <2>3. Checked'
    BY <2>1 DEF Checked
  <2> QED
    BY <1>2, <2>2, <2>3 DEF AccountsInv
<1>4. CASE step' = step
  BY <1>1, <1>2, <1>4 DEF AccountsInv, Stepping, StatementOf, Checked, NameRows,
     EmailRows, Current
<1> QED
  BY <1>3, <1>4 DEF CloseWritten, Disconnect, vars

(* A creation goes on once a check has found nothing.                      *)
LEMMA ProceedStep ==
  ASSUME AccountsInv, NEW next, Proceeds(next)
  PROVE  AccountsInv'
<1>1. /\ Types /\ Queued /\ Stepping /\ Checked /\ Rowless
      /\ AccountsUnique /\ AnswersAreTrue
  BY DEF AccountsInv
<1>2. /\ TableStep /\ tasks # <<>> /\ step' = next
      /\ UNCHANGED <<request, answer, tasks, unique>>
      /\ disturbed \subseteq disturbed' /\ disturbed' \subseteq disturbed \cup {Current}
  BY DEF Proceeds, GoOn, TableStep
<1>3. Current \in Clients /\ Current' = Current /\ Waiting(Current)
  BY <1>1, <1>2, CurrentProperties DEF Current
<1>4. /\ AccountsUnique'
      /\ \A c \in Clients : c # Current => (RowsOf(c) = {} => RowsOf(c)' = {})
      /\ \A c \in Clients : RowsOf(c) # {} => RowsOf(c)' # {}
      /\ \A i \in 1..Len(accounts) :
           i \in 1..Len(accounts') /\ accounts'[i] = accounts[i]
  BY <1>1, <1>2, TableInOrder
<1>5. Types'
  <2>1. accounts' \in Seq(AccountRow)
    BY <1>1, <1>2, TableGrows
  <2> QED
    BY <1>1, <1>2, <1>3, <2>1 DEF Types
<1>6. Queued'
  BY <1>1, <1>2 DEF Queued, Waiting
<1>7. Stepping'
  <2>1. /\ step \in {"name", "email", "insert"} /\ next \in {"email", "insert"}
    BY DEF Proceeds
  <2>2. step \in StatementOf(Current)
    BY <1>1, <2>1 DEF Stepping
  <2>3. next \in StatementOf(Current)
    BY <2>1, <2>2 DEF StatementOf
  <2> QED
    BY <1>2, <1>3, <2>3 DEF Stepping, StatementOf
<1>8. \/ Current \in disturbed'
      \/ /\ accounts' = accounts /\ Current \notin disturbed
         /\ NameRows = {}
         /\ next = "email" \/ EmailRows = {}
  BY <1>1, <1>2 DEF Proceeds, Checked
<1>9. Checked'
  BY <1>2, <1>3, <1>8 DEF Checked, NameRows, EmailRows
<1>10. Rowless'
  <2>1. ASSUME NEW c \in Clients,
               request[c] = None \/ (Waiting(c) /\ c \notin disturbed')
        PROVE  RowsOf(c)' = {}
    <3>1. RowsOf(c) = {}
      BY <1>1, <1>2, <2>1 DEF Rowless
    <3>2. CASE c = Current
      <4>1. request[c] # None
        BY <1>1, <1>3, <3>2 DEF Queued
      <4>2. accounts' = accounts
        BY <1>8, <2>1, <3>2, <4>1
      <4> QED
        BY <3>1, <4>2 DEF RowsOf
    <3> QED
      BY <1>4, <3>1, <3>2
  <2> QED
    BY <1>2, <2>1 DEF Rowless, Waiting
<1>11. AnswersAreTrue'
  <2>1. ASSUME NEW c \in Clients
        PROVE  /\ answer[c] = "CreateAccountSuccess" => RowsOf(c)' # {}
               /\ answer[c] \in Refusals /\ c \notin disturbed' => RowsOf(c)' = {}
               /\ answer[c] = "LoginSuccess" =>
                    \E i \in Named(request[c].name)' :
                      accounts'[i].password = request[c].password
    <3>1. /\ answer[c] = "CreateAccountSuccess" => RowsOf(c) # {}
          /\ answer[c] \in Refusals /\ c \notin disturbed => RowsOf(c) = {}
          /\ answer[c] = "LoginSuccess" =>
               \E i \in Named(request[c].name) :
                 accounts[i].password = request[c].password
      BY <1>1 DEF AnswersAreTrue
    <3>2. answer[Current] = None /\ None \notin Opcodes
      BY <1>1, <1>3, AccountsAssumption DEF Queued
    <3>3. answer[c] \in Opcodes => c # Current
      BY <3>2
    <3>4. answer[c] = "LoginSuccess" =>
            \E i \in Named(request[c].name)' :
              accounts'[i].password = request[c].password
      BY <1>2, <1>4, <3>1 DEF Named
    <3> QED
      BY <1>2, <1>4, <3>1, <3>3, <3>4 DEF Opcodes
  <2> QED
    BY <1>2, <2>1 DEF AnswersAreTrue
<1> QED
  BY <1>4, <1>5, <1>6, <1>7, <1>9, <1>10, <1>11 DEF AccountsInv

(* The task ends with an answer that is true, and remains so.              *)
LEMMA AnswerStep ==
  ASSUME AccountsInv, NEW opcode, Answers(opcode)
  PROVE  AccountsInv'
<1>1. /\ Types /\ Queued /\ Stepping /\ Checked /\ Rowless
      /\ AccountsUnique /\ AnswersAreTrue
  BY DEF AccountsInv
<1>2. /\ TableStep /\ tasks # <<>> /\ step' = "idle" /\ tasks' = Tail(tasks)
      /\ UNCHANGED <<request, unique>> /\ opcode \in Opcodes
      /\ disturbed \subseteq disturbed' /\ disturbed' \subseteq disturbed \cup {Current}
  BY DEF Answers, Reply, TableStep
<1>3. /\ Current \in Clients /\ Waiting(Current)
      /\ request[Current] # None /\ answer[Current] = None
  BY <1>1, <1>2, CurrentProperties DEF Queued
<1>4. PICK cur \in Clients : cur = Current
  BY <1>3
<1>5. /\ answer' \in [Clients -> Opcodes \cup {None}]
      /\ \A c \in Clients : c # cur => answer'[c] = answer[c]
      /\ answer'[cur] \in {None, opcode}
  <2>1. answer \in [Clients -> Opcodes \cup {None}]
    BY <1>1 DEF Types
  <2>2. answer' \in {answer, [answer EXCEPT ![cur] = opcode]}
    BY <1>4 DEF Answers, Reply
  <2> QED
    BY <1>2, <1>3, <1>4, <2>1, <2>2
<1>6. /\ AccountsUnique'
      /\ \A c \in Clients : c # cur => (RowsOf(c) = {} => RowsOf(c)' = {})
      /\ \A c \in Clients : RowsOf(c) # {} => RowsOf(c)' # {}
      /\ \A i \in 1..Len(accounts) :
           i \in 1..Len(accounts') /\ accounts'[i] = accounts[i]
  BY <1>1, <1>2, <1>4, TableInOrder
<1>7. /\ tasks' \in Seq(Clients)
      /\ \A c \in Clients : Waiting(c)' => Waiting(c) /\ c # cur
      /\ (\A j, k \in 1..Len(tasks) : tasks[j] = tasks[k] => j = k)'
  BY <1>1, <1>2, <1>4, TaskEnds
<1>8. Types'
  <2>1. accounts' \in Seq(AccountRow)
    BY <1>1, <1>2, TableGrows
  <2> QED
    BY <1>1, <1>2, <1>3, <1>5, <1>7, <2>1 DEF Types
<1>9. Queued'
  BY <1>1, <1>2, <1>3, <1>4, <1>5, <1>7 DEF Queued
<1>10. Stepping' /\ Checked'
  BY <1>2 DEF Stepping, Checked
<1>11. Rowless'
  <2>1. ASSUME NEW c \in Clients,
               request[c] = None \/ (Waiting(c)' /\ c \notin disturbed')
        PROVE  RowsOf(c)' = {}
    BY <1>1, <1>2, <1>3, <1>4, <1>6, <1>7, <2>1 DEF Rowless
  <2> QED
    BY <1>2, <2>1 DEF Rowless
<1>12. ASSUME NEW c \in Clients
       PROVE  /\ answer'[c] = "CreateAccountSuccess" => RowsOf(c)' # {}
              /\ answer'[c] \in Refusals /\ c \notin disturbed' => RowsOf(c)' = {}
              /\ answer'[c] = "LoginSuccess" =>
                   \E i \in Named(request[c].name)' :
                     accounts'[i].password = request[c].password
  <2>1. \A i \in Named(request[c].name) :
           i \in Named(request[c].name)' /\ accounts'[i] = accounts[i]
    BY <1>2, <1>6 DEF Named
  <2>2. CASE c # cur
    <3>1. answer'[c] = answer[c]
      BY <1>5, <2>2
    <3>2. /\ answer[c] = "CreateAccountSuccess" => RowsOf(c) # {}
          /\ answer[c] \in Refusals /\ c \notin disturbed => RowsOf(c) = {}
          /\ answer[c] = "LoginSuccess" =>
               \E i \in Named(request[c].name) :
                 accounts[i].password = request[c].password
      BY <1>1 DEF AnswersAreTrue
    <3> QED
      BY <1>2, <1>6, <2>1, <2>2, <3>1, <3>2
  <2>3. CASE c = cur
    <3>1. answer'[c] \in {None, opcode} /\ None \notin Opcodes
      BY <1>5, <2>3, AccountsAssumption
    <3>2. answer'[c] = "CreateAccountSuccess" => RowsOf(c)' # {}
      <4>1. ASSUME answer'[c] = "CreateAccountSuccess" PROVE RowsOf(c)' # {}
        <5>1. step = "insert" /\ accounts' = Append(accounts, NewRow)
          BY <3>1, <4>1 DEF Answers, Opcodes
        <5>2. NewRow \in AccountRow /\ NewRow.by = cur
          BY <1>1, <1>4, <5>1, NewRowProperties
        <5>3. /\ Len(accounts) \in Nat /\ Len(accounts') = Len(accounts) + 1
              /\ accounts'[Len(accounts) + 1] = NewRow
          BY <1>1, <5>1, <5>2, AppendList DEF Types
        <5> QED
          BY <2>3, <5>2, <5>3 DEF RowsOf
      <4> QED
        BY <4>1
    <3>3. answer'[c] \in Refusals /\ c \notin disturbed' => RowsOf(c)' = {}
      <4>1. ASSUME answer'[c] \in Refusals, c \notin disturbed'
            PROVE  RowsOf(c)' = {}
        <5>1. accounts' = accounts
          BY <3>1, <4>1 DEF Answers, Opcodes
        <5>2. RowsOf(c) = {}
          BY <1>1, <1>2, <1>3, <1>4, <2>3, <4>1 DEF Rowless
        <5> QED
          BY <5>1, <5>2 DEF RowsOf
      <4> QED
        BY <4>1
    <3>4. answer'[c] = "LoginSuccess" =>
            \E i \in Named(request[c].name) :
              accounts[i].password = request[c].password
      BY <1>4, <2>3, <3>1 DEF Answers, Opcodes
    <3> QED
      BY <2>1, <3>2, <3>3, <3>4
  <2> QED
    BY <2>2, <2>3
<1>13. AnswersAreTrue'
  BY <1>2, <1>12 DEF AnswersAreTrue
<1> QED
  BY <1>6, <1>8, <1>9, <1>10, <1>11, <1>13 DEF AccountsInv

(* At the start nobody has asked, and the table is one of Tables.          *)
LEMMA AccountsInit == Init => AccountsInv
<1> SUFFICES ASSUME Init PROVE AccountsInv
  OBVIOUS
<1> DEFINE rows == {Row(n, e, p, 0) : n \in Names, e \in Names, p \in Passwords}
<1>1. /\ request = [c \in Clients |-> None] /\ answer = [c \in Clients |-> None]
      /\ tasks = <<>> /\ step = "idle" /\ unique \in BOOLEAN /\ disturbed = {}
      /\ accounts \in Tables
  BY DEF Init
<1>2. /\ accounts \in UNION {[1..n -> rows] : n \in 0..MaxAccounts}
      /\ \A i, j \in 1..Len(accounts) :
           i < j => /\ accounts[i].name # accounts[j].name
                    /\ accounts[i].email # accounts[j].email
  BY <1>1 DEF Tables
<1>3. \A r \in rows : r \in AccountRow /\ r.by = 0
  BY AccountsAssumption DEF Row, AccountRow
<1> HIDE DEF rows
<1>4. PICK n \in Nat : accounts \in [1..n -> rows]
  BY <1>2, AccountsAssumption
<1>5. /\ accounts \in Seq(AccountRow) /\ Len(accounts) = n
      /\ \A i \in 1..Len(accounts) : accounts[i] \in rows
  <2>1. accounts \in [1..n -> AccountRow]
    BY <1>3, <1>4
  <2>2. accounts \in Seq(AccountRow)
    BY <1>4, <2>1
  <2>3. Len(accounts) = n
    <3>1. DOMAIN accounts = 1..Len(accounts) /\ Len(accounts) \in Nat
      BY <2>2, LenProperties
    <3>2. DOMAIN accounts = 1..n
      BY <1>4
    <3> QED
      BY <1>4, <3>1, <3>2
  <2> QED
    BY <1>4, <2>2, <2>3
<1>6. Types
  BY <1>1, <1>5 DEF Types
<1>7. \A c \in Clients : ~Waiting(c)
  BY <1>1 DEF Waiting
<1>8. Queued /\ Stepping /\ Checked
  BY <1>1, <1>7 DEF Queued, Stepping, Checked
<1>9. \A c \in Clients : RowsOf(c) = {}
  BY <1>3, <1>5, AccountsAssumption DEF RowsOf, Clients
<1>10. Rowless /\ AccountsUnique
  BY <1>2, <1>9 DEF Rowless, AccountsUnique
<1>11. AnswersAreTrue
  BY <1>1, AccountsAssumption DEF AnswersAreTrue, Opcodes
<1> QED
  BY <1>6, <1>8, <1>10, <1>11 DEF AccountsInv

(* The invariant is inductive.                                             *)
LEMMA AccountsStep == AccountsInv /\ [Next]_vars => AccountsInv'
<1> SUFFICES ASSUME AccountsInv, [Next]_vars PROVE AccountsInv'
  OBVIOUS
<1>1. Types /\ Queued /\ Stepping
  BY DEF AccountsInv
<1>2. CASE Dispatch
  BY <1>1, <1>2, DispatchCases, IdleStep, ProceedStep, AnswerStep
<1> QED
  BY <1>2, ArrivalStep, IdleStep DEF Next

(* The invariant holds of every behaviour.                                 *)
LEMMA AccountsInvariant == Spec => []AccountsInv
BY AccountsInit, AccountsStep, PTL DEF Spec

-------------------------------------------------------------------------------
(* What follows from it *)

(* createAccount's two SELECTs keep accounts apart by name and by e-mail,  *)
(* although no transaction surrounds them, because one dispatcher runs the *)
(* creations one at a time; unless the table has no unique keys and a      *)
(* statement of the later creation was refused or its answer lost.         *)
THEOREM AccountsUniqueHolds == Spec => []AccountsUnique
<1>1. AccountsInv => AccountsUnique
  BY DEF AccountsInv
<1> QED
  BY <1>1, AccountsInvariant, PTL

(* The opcodes of verifyAccount and createAccount are true of the table:   *)
(* success means a row or the right password, a refusal that nothing was   *)
(* inserted unless a statement was disturbed.                              *)
THEOREM AnswersAreTrueHolds == Spec => []AnswersAreTrue
<1>1. AccountsInv => AnswersAreTrue
  BY DEF AccountsInv
<1> QED
  BY <1>1, AccountsInvariant, PTL

(* verifyAccount lets in who has an account and its password, unless the   *)
(* statement was refused or what was sent is the name of one account and   *)
(* the e-mail of another.                                                  *)
THEOREM LoginFindsOwnerHolds == Spec => LoginFindsOwner
<1> DEFINE Found(c) ==
             OwnerRefused(c) =>
               c \in disturbed' \/ \E i, j \in Named(request[c].name) : i # j
<1>1. ASSUME AccountsInv, [Next]_vars, NEW c \in Clients
      PROVE  Found(c)
  <2> SUFFICES ASSUME OwnerRefused(c)
               PROVE  c \in disturbed' \/ \E i, j \in Named(request[c].name) : i # j
    OBVIOUS
  <2>1. Types /\ Queued /\ Stepping
    BY <1>1 DEF AccountsInv
  <2>2. /\ answer'[c] \in {"InvalidAccountName", "InvalidPassword"}
        /\ answer'[c] # answer[c]
        /\ \E i \in Named(request[c].name) :
             accounts[i].password = request[c].password
    BY AccountsAssumption DEF OwnerRefused, Opcodes, Refusals
  <2>3. ~(UNCHANGED answer)
    BY <2>2
  <2>4. Dispatch
    BY <1>1, <2>3 DEF Next, OnRecvFirstMessage, CloseWritten, Disconnect, vars
  <2>5. PICK opcode \in Opcodes : Answers(opcode)
    BY <2>1, <2>3, <2>4, DispatchCases DEF StartTask, Proceeds, GoOn
  <2>6. c = Current /\ answer'[c] = opcode
    <3>1. answer' = answer \/ answer' = [answer EXCEPT ![Current] = opcode]
      BY <2>5 DEF Answers, Reply
    <3> QED
      BY <2>1, <2>2, <3>1 DEF Types
  <2>7. CASE opcode = "InvalidAccountName"
    BY <2>2, <2>5, <2>6, <2>7 DEF Answers
  <2>8. CASE opcode = "InvalidPassword"
    BY <2>2, <2>5, <2>6, <2>8 DEF Answers
  <2> QED
    BY <2>2, <2>6, <2>7, <2>8
<1>2. AccountsInv /\ [Next]_vars => [\A c \in Clients : Found(c)]_vars
  BY <1>1
<1> QED
  BY <1>2, AccountsInvariant, PTL DEF Spec, LoginFindsOwner
===============================================================================
