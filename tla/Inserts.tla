-------------------------------- MODULE Inserts --------------------------------
(***************************************************************************)
(* DBInsert (database.cpp): rows are collected into one INSERT statement   *)
(* that is executed when it would become longer than the server accepts,   *)
(* and when the caller says so.  Rows are numbered as they are given to    *)
(* addRow, and only their length counts; an execution succeeds or fails.   *)
(***************************************************************************)
EXTENDS Naturals, Sequences, SequencesExt

CONSTANTS
  MaxPacket,   \* Database::getMaxPacketSize
  QueryLength, \* length of "INSERT INTO ... VALUES "
  MaxRow,      \* bound on the length of a row
  MaxRows      \* bound on the rows

ASSUME InsertsAssumption ==
  {MaxPacket, QueryLength, MaxRow, MaxRows} \subseteq Nat

VARIABLES
  length,     \* DBInsert::m_length
  values,     \* the rows in m_values
  written,    \* written[i]: the bytes of the first i rows given to addRow
  taken,      \* taken[i]: what addRow returned for the i-th row
  statements  \* what was executed: its rows, whether it succeeded, and the row
              \*   whose addRow executed it, or 0 if execute() was called

insertVars == <<length, values, written, taken, statements>>

InsertsInit ==
  /\ length = QueryLength
  /\ values = <<>>
  /\ written = <<>>
  /\ taken = <<>>
  /\ statements = <<>>

AfterSuccess(ok) == IF ok THEN <<>> ELSE values
AfterExecution(ok) == <<>>

(* A statement of the rows so far is executed.                             *)
ExecuteQuery(ok, caller) ==
  statements' =
    Append(statements, [rows |-> values, ok |-> ok, caller |-> caller])

(* execute() with nothing to do succeeds and leaves the length as it is.   *)
ExecuteBatch ==
  \/ values = <<>> /\ UNCHANGED insertVars
  \/ /\ values # <<>>
     /\ \E ok \in BOOLEAN : ExecuteQuery(ok, 0) /\ values' = AfterExecution(ok)
     /\ length' = QueryLength
     /\ UNCHANGED <<written, taken>>

Written == IF written = <<>> THEN 0 ELSE written[Len(written)]

(* addRow; the caller goes on when it has returned false.                  *)
Joins(row, longer) ==
  /\ longer <= MaxPacket \/ values = <<>>
  /\ length' = longer
  /\ values' = Append(values, row)
  /\ taken' = Append(taken, TRUE)
  /\ UNCHANGED statements

StartsAnother(row, longer) ==
  /\ longer > MaxPacket /\ values # <<>>
  /\ length' = QueryLength
  /\ \E ok \in BOOLEAN :
       /\ ExecuteQuery(ok, row)
       /\ values' = IF ok THEN Append(AfterExecution(ok), row)
                    ELSE AfterExecution(ok)
       /\ taken' = Append(taken, ok)

AddRow(size) ==
  LET row == Len(written) + 1
  IN /\ row <= MaxRows
     /\ written' = Append(written, Written + size)
     /\ Joins(row, length + size) \/ StartsAnother(row, length + size)

InsertsNext ==
  \/ \E size \in 1..MaxRow : AddRow(size)
  \/ ExecuteBatch

InsertsSpec == InsertsInit /\ [][InsertsNext]_insertVars

-------------------------------------------------------------------------------
(* Properties *)

(* Each row that addRow took is in one statement or still collected, in    *)
(* the order of the calls.  A statement that failed made the call return   *)
(* false that executed it: that of the row behind its own, which is then   *)
(* taken nowhere, or an execute().  A statement keeps to what the server   *)
(* accepts but for its punctuation and its first row: the row that made    *)
(* the statement before it too long is not counted again.                  *)
RowsInserted ==
  LET batches == Append([k \in DOMAIN statements |-> statements[k].rows], values)
  IN /\ \A row \in DOMAIN taken :
          taken[row] <=> \E k \in DOMAIN batches : row \in Range(batches[k])
     /\ \A k, l \in DOMAIN batches :
          \A i \in DOMAIN batches[k], j \in DOMAIN batches[l] :
            k < l \/ (k = l /\ i < j) => batches[k][i] < batches[l][j]
     /\ \A row \in DOMAIN taken :
          ~taken[row] => \E k \in DOMAIN statements :
                           ~statements[k].ok /\ statements[k].caller = row
     /\ \A k \in DOMAIN statements :
          ~statements[k].ok /\ statements[k].caller # 0 =>
            /\ ~taken[statements[k].caller]
            /\ Last(statements[k].rows) + 1 = statements[k].caller
     /\ \A k \in DOMAIN batches :
          Len(batches[k]) > 1 =>
            QueryLength + written[Last(batches[k])] - written[Head(batches[k])]
              <= MaxPacket
===============================================================================
