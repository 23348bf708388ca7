------------------------------- MODULE Accounts -------------------------------
(***************************************************************************)
(* Logins (protocollogin.cpp) and the accounts behind them                 *)
(* (iologindata.cpp): the first packet of a connection, on the network     *)
(* thread, posts a task; the dispatcher runs the tasks one at a time, each *)
(* a few statements on the database (Database::storeQuery, executeQuery),  *)
(* then one answer, and a disconnect if it is a refusal.  A client is a    *)
(* connection with its first packet, numbered as these packets arrive.     *)
(*                                                                         *)
(* The server may refuse a statement, and the session may be lost before   *)
(* or after the server has executed it; then the statement is sent again.  *)
(* Names and e-mail addresses are drawn from one set: a player logs in     *)
(* with either.                                                            *)
(***************************************************************************)
EXTENDS Naturals, Sequences

CONSTANTS
  MaxClients, \* bound on the clients
  Names,      \* what is sent as the name or the e-mail of an account
  Passwords,
  MaxAccounts,\* bound on the accounts that earlier creations have left
  MaxLosses,  \* bound on the losses of the session
  None

Clients == 1..MaxClients

Requests ==
  [action : {"login"}, name : Names, password : Passwords]
    \cup [action : {"create"}, name : Names, email : Names, password : Passwords]

Refusals == {"InvalidAccountName", "InvalidPassword", "UsernameAlreadyExists",
             "EmailAlreadyRegistered", "AccountCannotBeCreated"}
Opcodes == Refusals \cup {"LoginSuccess", "CreateAccountSuccess"}

ASSUME AccountsAssumption ==
  /\ {MaxClients, MaxAccounts, MaxLosses} \subseteq Nat
  /\ None \notin Requests
  /\ None \notin Opcodes

(* The table that earlier creations have left, by a client 0.             *)
Row(name, email, password, by) ==
  [name |-> name, email |-> email, password |-> password, by |-> by]
Tables ==
  LET rows == {Row(n, e, p, 0) : n \in Names, e \in Names, p \in Passwords}
  IN {t \in UNION {[1..n -> rows] : n \in 0..MaxAccounts} :
        \A i, j \in 1..Len(t) :
          i < j => t[i].name # t[j].name /\ t[i].email # t[j].email}

VARIABLES
  request,    \* request[c]: the first packet of c, or None
  connection, \* connection[c]: "open", "closing" (CLOSED, writing) or "closed"
  answer,     \* answer[c]: the opcode sent to c, or None
  tasks,      \* the dispatcher's list of logins
  step,       \* the statement its first task has come to
  accounts,   \* the rows of the table, with the client that inserted each
  unique,     \* the table has unique keys on the name and the e-mail
  losses,     \* losses of the session so far
  disturbed   \* history: clients one of whose statements was refused, or
              \*   executed before its answer was lost

databaseVars == <<accounts, losses, disturbed>>
vars == <<request, connection, answer, tasks, step, databaseVars, unique>>

Init ==
  /\ request = [c \in Clients |-> None]
  /\ connection = [c \in Clients |-> "open"]
  /\ answer = [c \in Clients |-> None]
  /\ tasks = <<>>
  /\ step = "idle"
  /\ accounts \in Tables
  /\ unique \in BOOLEAN
  /\ losses = 0
  /\ disturbed = {}

-------------------------------------------------------------------------------
(* The network thread *)

(* onRecvFirstMessage, for a packet that can be read (ParseFirst in        *)
(* Messages has the others) and asks for something.  The task keeps the    *)
(* protocol alive, the protocol refers to its connection weakly.           *)
OnRecvFirstMessage(c, r) ==
  /\ request[c] = None
  /\ \A d \in 1..(c - 1) : request[d] # None
  /\ request' = [request EXCEPT ![c] = r]
  /\ tasks' = Append(tasks, c)
  /\ UNCHANGED <<connection, answer, step, databaseVars, unique>>

(* The write of an answer completes on a connection that close() has left  *)
(* open for that (ConnectionDies in Connection).                     *)
CloseWritten(c) ==
  /\ connection[c] = "closing"
  /\ connection' = [connection EXCEPT ![c] = "closed"]
  /\ UNCHANGED <<request, answer, tasks, step, databaseVars, unique>>

(* The peer goes away, or falls silent and is dropped by a timer; after    *)
(* the answer that is of no consequence.                                   *)
Disconnect(c) ==
  /\ request[c] # None
  /\ connection[c] = "open"
  /\ answer[c] = None
  /\ connection' = [connection EXCEPT ![c] = "closed"]
  /\ UNCHANGED <<request, answer, tasks, step, databaseVars, unique>>

-------------------------------------------------------------------------------
(* The dispatcher *)

Current == Head(tasks)

(* verifyAccount asks for the name in either column; createAccount for the *)
(* name and then the e-mail, each in its own.                              *)
MatchesName(row, name) == row.name = name
Matches(row, name) == row.name = name \/ row.email = name
LoginRows ==
  {i \in 1..Len(accounts) : Matches(accounts[i], request[Current].name)}

StartTask ==
  /\ tasks # <<>>
  /\ step = "idle"
  /\ step' = IF request[Current].action = "login" THEN "password" ELSE "name"
  /\ UNCHANGED <<request, connection, answer, tasks, databaseVars, unique>>

(* Send the answer on a connection that is open, and disconnect if it is a *)
(* refusal: close() waits until the answer is written.                     *)
AfterAnyAnswer(opcode) == "open"
AfterAnswer(opcode) == IF opcode \in Refusals THEN "closing" ELSE "open"
Reply(opcode) ==
  /\ step' = "idle"
  /\ tasks' = Tail(tasks)
  /\ IF connection[Current] = "open"
     THEN /\ answer' = [answer EXCEPT ![Current] = opcode]
          /\ connection' = [connection EXCEPT ![Current] = AfterAnswer(opcode)]
     ELSE UNCHANGED <<answer, connection>>
  /\ UNCHANGED <<request, unique>>

GoOn(next) ==
  /\ step' = next
  /\ UNCHANGED <<request, connection, answer, tasks, unique>>

(* storeQuery gives the result, or nullptr both for a statement that finds *)
(* no row and for one that the server refused.                             *)
StoreQuery(i, rows) ==
  /\ i \in rows
  /\ UNCHANGED databaseVars
StoreQueryFails(rows) ==
  \/ /\ rows = {}
     /\ UNCHANGED databaseVars
  \/ /\ disturbed' = disturbed \cup {Current}
     /\ UNCHANGED <<accounts, losses>>

(* The first row decides, and any may be first.                            *)
VerifyAccount ==
  /\ step = "password"
  /\ \/ \E i \in LoginRows :
          /\ StoreQuery(i, LoginRows)
          /\ Reply(IF accounts[i].password = request[Current].password
                   THEN "LoginSuccess" ELSE "InvalidPassword")
     \/ StoreQueryFails(LoginRows) /\ Reply("InvalidAccountName")

NameRows ==
  {i \in 1..Len(accounts) : accounts[i].name = request[Current].name}
CheckName ==
  /\ step = "name"
  /\ \/ (\E i \in NameRows : StoreQuery(i, NameRows)) /\ Reply("UsernameAlreadyExists")
     \/ StoreQueryFails(NameRows) /\ GoOn("email")

EmailRowsByName ==
  {i \in 1..Len(accounts) : accounts[i].name = request[Current].email}
EmailRows ==
  {i \in 1..Len(accounts) : accounts[i].email = request[Current].email}
CheckEmail ==
  /\ step = "email"
  /\ \/ (\E i \in EmailRows : StoreQuery(i, EmailRows)) /\ Reply("EmailAlreadyRegistered")
     \/ StoreQueryFails(EmailRows) /\ GoOn("insert")

NewRow ==
  LET r == request[Current] IN Row(r.name, r.email, r.password, Current)
Accepted ==
  unique => \A i \in 1..Len(accounts) :
              /\ accounts[i].name # NewRow.name
              /\ accounts[i].email # NewRow.email

FailureIgnored == "CreateAccountSuccess"
CreationFailed == "AccountCannotBeCreated"

(* executeQuery.  A loss of the session ends no task; it matters when the  *)
(* row had been inserted already.                                          *)
InsertAccount ==
  /\ step = "insert"
  /\ \/ /\ Accepted
        /\ accounts' = Append(accounts, NewRow)
        /\ Reply("CreateAccountSuccess")
        /\ UNCHANGED <<losses, disturbed>>
     \/ /\ Reply(CreationFailed)
        /\ disturbed' = disturbed \cup {Current}
        /\ UNCHANGED <<accounts, losses>>
     \/ /\ Accepted
        /\ losses < MaxLosses
        /\ losses' = losses + 1
        /\ accounts' = Append(accounts, NewRow)
        /\ disturbed' = disturbed \cup {Current}
        /\ GoOn("insert")

Dispatch ==
  StartTask \/ VerifyAccount \/ CheckName \/ CheckEmail \/ InsertAccount

Next ==
  \/ \E c \in Clients :
       \/ \E r \in Requests : OnRecvFirstMessage(c, r)
       \/ CloseWritten(c)
       \/ Disconnect(c)
  \/ Dispatch

Spec == Init /\ [][Next]_vars

(* Tasks run, statements return, and a connection writes what it accepted  *)
(* or is closed.                                                           *)
FairSpec ==
  /\ Spec
  /\ WF_vars(Dispatch)
  /\ \A c \in Clients : WF_vars(CloseWritten(c))

-------------------------------------------------------------------------------
(* Properties *)

(* Two accounts share neither their name nor their e-mail, although        *)
(* nothing but two SELECTs in front of the INSERT sees to that: except     *)
(* that without unique keys a creation one of whose statements failed, or  *)
(* was repeated, may have made the second of the two.                      *)
AccountsUnique ==
  \A i, j \in 1..Len(accounts) :
    /\ i < j
    /\ \/ accounts[i].name = accounts[j].name
       \/ accounts[i].email = accounts[j].email
    => ~unique /\ accounts[j].by \in disturbed

Named(name) ==
  {i \in 1..Len(accounts) : name \in {accounts[i].name, accounts[i].email}}
RowsOf(c) == {i \in 1..Len(accounts) : accounts[i].by = c}

(* An answer is about the database: who is told that an account was        *)
(* created has one, who is told otherwise has none unless a statement was  *)
(* disturbed, and who may log in named an account and its password.        *)
AnswersAreTrue ==
  \A c \in Clients :
    /\ answer[c] = "CreateAccountSuccess" => RowsOf(c) # {}
    /\ answer[c] \in Refusals /\ c \notin disturbed => RowsOf(c) = {}
    /\ answer[c] = "LoginSuccess" =>
         \E i \in Named(request[c].name) :
           accounts[i].password = request[c].password

(* A login is refused although an account has that name and password.      *)
OwnerRefused(c) ==
  /\ answer[c] = None
  /\ answer'[c] \in {"InvalidAccountName", "InvalidPassword"}
  /\ \E i \in Named(request[c].name) :
       accounts[i].password = request[c].password

(* Who has an account and its password can log in by name or e-mail,       *)
(* unless the statement is refused or what he sends is the name of one     *)
(* account and the e-mail of another: then the first row decides.          *)
LoginFindsOwner ==
  [][\A c \in Clients :
       OwnerRefused(c) =>
         c \in disturbed' \/ \E i, j \in Named(request[c].name) : i # j]_vars

(* Every first packet is answered unless the peer goes away, and who is    *)
(* refused is disconnected.                                                *)
RequestEnds ==
  \A c \in Clients :
    request[c] # None ~>
      \/ connection[c] = "closed"
      \/ answer[c] \in {"LoginSuccess", "CreateAccountSuccess"}
===============================================================================
