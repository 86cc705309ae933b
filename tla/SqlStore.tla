------------------------------ MODULE SqlStore ------------------------------
(***************************************************************************)
(* adapters/sqlx over PostgreSQL or MySQL at their default isolation: a    *)
(* SELECT sees what is committed, an UPDATE or INSERT locks its row until  *)
(* the transaction ends, and waits for a row another one has locked.       *)
(***************************************************************************)
EXTENDS Storage, Sequences

VARIABLES
  db,         \* "down", "up", or "failed" when New returned an error
  schema,     \* whether the database has the tables
  tables,     \* committed rows
  tx,         \* per client: its call
  sqlCalls,   \* history: calls started
  past,       \* history: the committed rows after each commit
  acked,      \* history: sum of the additions that returned no error
  doubt       \* history: some commit took place and returned an error

sqlVars == <<db, schema, tables, tx, sqlCalls, past, acked, doubt>>
sqlHist == <<sqlCalls, past, acked, doubt>>

GetState == [row |-> "get", arg |-> 0]

(* saw holds, per row, what the call has read; overtaken tells whether the *)
(* row was changed since; lost holds the rows a query of GetState did not  *)
(* deliver, since is the length of past at the call.                       *)
SqlIdle ==
  [pc |-> "idle", op |-> GetState, saw |-> NoRecord, lost |-> {}, since |-> 1,
   overtaken |-> FALSE]

SqlInit ==
  /\ db = "down"
  /\ schema = FALSE
  /\ tables = NoRecord
  /\ tx = [c \in Clients |-> SqlIdle]
  /\ sqlCalls = 0
  /\ past = <<NoRecord>>
  /\ acked = 0
  /\ doubt = FALSE

(* New opens the database and runs the migrations, which create the tables *)
(* unconditionally: on a database that has them already it fails.  A       *)
(* failure may come before or after the script that creates them.  They    *)
(* are written for PostgreSQL; on MySQL the tables come from elsewhere.    *)
SqlNew ==
  /\ db # "up"
  /\ \/ ~schema /\ db' = "up" /\ schema' = TRUE
     \/ schema /\ db' = "failed" /\ UNCHANGED schema
     \/ Faults /\ db' = "failed" /\ schema' \in {schema, TRUE}
  /\ UNCHANGED <<tables, tx, sqlHist>>

(* NewWithDB runs no migrations.                                           *)
SqlNewWithDB ==
  /\ db # "up"
  /\ schema
  /\ db' = "up"
  /\ UNCHANGED <<schema, tables, tx, sqlHist>>

(* Close: a transaction keeps its connection and may go on to its end; a   *)
(* GetState that has another query to make gets an error.                  *)
SqlClose ==
  /\ db = "up"
  /\ db' = "down"
  /\ tx' = [c \in Clients |->
             IF tx[c].op = GetState /\ tx[c].pc # "return" THEN SqlIdle ELSE tx[c]]
  /\ UNCHANGED <<schema, tables, sqlHist>>

(* The process ends: the database rolls back what is open.                 *)
SqlCrash ==
  /\ db' = "down"
  /\ tx' = [c \in Clients |-> SqlIdle]
  /\ UNCHANGED <<schema, tables, sqlHist>>

-----------------------------------------------------------------------------
SqlBegin(c, op) ==
  /\ db = "up"
  /\ tx[c].pc = "idle"
  /\ sqlCalls < MaxCalls
  /\ tx' = [tx EXCEPT ![c] = [SqlIdle EXCEPT !.pc = "select", !.op = op, !.since = Len(past)]]
  /\ sqlCalls' = sqlCalls + 1
  /\ UNCHANGED <<db, schema, tables, past, acked, doubt>>

Pending(c) == NewValue(tx[c].op, tx[c].saw[tx[c].op.row])

Holds(c, row) == tx[c].pc = "commit" /\ tx[c].op.row = row

(* AwardBadge has nothing to do for a badge that is there.                 *)
BadgeExists(op, v) == op.row = "badge" /\ v # Absent

(* A bug: the wrapped sum is not looked at.                                *)
SqlSelectUnchecked(c) ==
  LET op == tx[c].op
  IN  /\ tx[c].pc = "select"
      /\ op.row \in Rows
      /\ tx' = [tx EXCEPT ![c].saw[op.row] = tables[op.row], ![c].pc = "write"]
      /\ UNCHANGED <<db, schema, tables, sqlHist>>

(* The SELECT of AddPoints, AwardBadge or SetLevel and what follows from   *)
(* it: an overflow ends the call, and so does a badge that exists.         *)
SqlSelect(c) ==
  LET op == tx[c].op
      v  == tables[op.row]
  IN  /\ tx[c].pc = "select"
      /\ op.row \in Rows
      /\ tx' = IF Refused(op, v) \/ BadgeExists(op, v)
                 THEN [tx EXCEPT ![c] = SqlIdle]
                 ELSE [tx EXCEPT ![c].saw[op.row] = v, ![c].pc = "write"]
      /\ UNCHANGED <<db, schema, tables, sqlHist>>

(* A bug: the INSERT replaces a row that has appeared since the SELECT.    *)
SqlUpsert(c) ==
  LET op == tx[c].op
  IN  /\ tx[c].pc = "write"
      /\ \A d \in Clients : ~Holds(d, op.row)
      /\ tx' = [tx EXCEPT ![c].pc = "commit"]
      /\ UNCHANGED <<db, schema, tables, sqlHist>>

(* UPDATE when the SELECT found a row; INSERT when not, which the UNIQUE   *)
(* key refuses if the row exists by now.                                   *)
SqlWrite(c) ==
  LET op == tx[c].op
  IN  /\ tx[c].pc = "write"
      /\ \A d \in Clients : ~Holds(d, op.row)
      /\ tx' = IF tx[c].saw[op.row] = Absent /\ tables[op.row] # Absent
                 THEN [tx EXCEPT ![c] = SqlIdle]
                 ELSE [tx EXCEPT ![c].pc = "commit"]
      /\ UNCHANGED <<db, schema, tables, sqlHist>>

Install(c) ==
  LET row == tx[c].op.row
  IN  /\ tables' = [tables EXCEPT ![row] = Pending(c)]
      /\ past' = Append(past, tables')
      /\ tx' = [d \in Clients |->
                 IF d = c THEN SqlIdle
                 ELSE [tx[d] EXCEPT !.overtaken =
                         @ \/ (tx[d].op.row = row /\ tx[d].pc \in {"write", "commit"})]]

(* Commit; when it fails the caller cannot know whether it took place.     *)
SqlCommit(c) ==
  LET op == tx[c].op
  IN  /\ tx[c].pc = "commit"
      /\ Install(c)
      /\ \/ /\ acked' = acked + IF op.row = "points" THEN op.arg ELSE 0
            /\ UNCHANGED doubt
         \/ /\ Faults
            /\ doubt' = TRUE
            /\ UNCHANGED acked
      /\ UNCHANGED <<db, schema, sqlCalls>>

(* Any statement, or the commit, fails or ctx is cancelled: the deferred    *)
(* Rollback leaves nothing behind.                                          *)
SqlRollback(c) ==
  /\ Faults
  /\ tx[c].pc # "idle"
  /\ tx' = [tx EXCEPT ![c] = SqlIdle]
  /\ UNCHANGED <<db, schema, tables, sqlHist>>

(* A query of GetState.  Nobody asks for rows.Err(): when the connection    *)
(* breaks while rows are fetched, the loop just ends.                      *)
SqlQuery(c, from, row, to) ==
  /\ tx[c].pc = from
  /\ tx[c].op = GetState
  /\ \/ tx' = [tx EXCEPT ![c].saw[row] = tables[row], ![c].pc = to]
     \/ Faults /\ tx' = [tx EXCEPT ![c].lost = @ \cup {row}, ![c].pc = to]
  /\ UNCHANGED <<db, schema, tables, sqlHist>>

SqlReturn(c) ==
  /\ tx[c].pc = "return"
  /\ tx' = [tx EXCEPT ![c] = SqlIdle]
  /\ UNCHANGED <<db, schema, tables, sqlHist>>

(* A bug: the levels are read first.                                       *)
SqlLevelsFirst(c) ==
  \/ SqlQuery(c, "select", "level", "badges")
  \/ SqlQuery(c, "badges", "badge", "levels")
  \/ SqlQuery(c, "levels", "points", "return")
  \/ SqlReturn(c)

(* GetState: three queries, each on its own.                               *)
SqlGetState(c) ==
  \/ SqlQuery(c, "select", "points", "badges")
  \/ SqlQuery(c, "badges", "badge", "levels")
  \/ SqlQuery(c, "levels", "level", "return")
  \/ SqlReturn(c)

(* A step of a call.  SetLevel, like the other two writers, is a SELECT, an  *)
(* UPDATE or INSERT and a commit.                                           *)
SqlAdvance(c) == SqlSelect(c) \/ SqlWrite(c) \/ SqlCommit(c) \/ SqlGetState(c)

SqlNext ==
  \/ SqlNew
  \/ SqlNewWithDB
  \/ SqlClose
  \/ SqlCrash
  \/ \E c \in Clients :
       \/ SqlAdvance(c)
       \/ SqlRollback(c)
       \/ \E op \in Op \cup {GetState} : SqlBegin(c, op)

SqlSpec == SqlInit /\ [][SqlNext]_sqlVars

-----------------------------------------------------------------------------
(* Properties                                                              *)

(* What the call of c shows of a row is what it held after commit n - 1.   *)
Shows(c, row, n) == row \in tx[c].lost \/ tx[c].saw[row] = past[n][row]

(* GetState has no transaction, and its answer may mix states; but, rows   *)
(* that were not delivered apart, it is what the tables held at three      *)
(* moments of the call in the order points, badges, levels.  So a total is *)
(* never shown with a level that is older than it, from which LevelUpRule  *)
(* would derive a level-up a second time.                                  *)
SqlSnapshotOrdered ==
  \A c \in Clients : tx[c].pc = "return" =>
    \E p, b, l \in tx[c].since .. Len(past) :
      /\ p <= b /\ b <= l
      /\ Shows(c, "points", p) /\ Shows(c, "badge", b) /\ Shows(c, "level", l)

(* A transaction whose row no other changed after it read it does to the   *)
(* row exactly what the operation says, and never lets a total wrap.       *)
SqlUnovertakenExact ==
  [][tables' # tables =>
       \E c \in Clients :
         /\ tx[c].pc = "commit" /\ tx'[c].pc = "idle"
         /\ tx[c].overtaken \/ /\ ~Refused(tx[c].op, tables[tx[c].op.row])
                               /\ tables' = Apply(tx[c].op, tables)]_sqlVars

(* Of two calls that both found no row, one fails: an INSERT never takes   *)
(* the place of a row.                                                     *)
SqlInsertOnce ==
  [][\A r \in Rows : tables[r] # Absent /\ tables'[r] # tables[r] =>
       \E c \in Clients : Holds(c, r) /\ tx[c].saw[r] # Absent]_sqlVars

(* Once no call is running, and if no commit reported an error after it    *)
(* took place, the total is the sum of the additions acknowledged.         *)
SqlAdditionsSum ==
  (~doubt /\ \A c \in Clients : tx[c].pc = "idle")
    => ValueOrZero(tables["points"]) = acked

(* A database that was used before can be opened again with New.           *)
SqlReopens == schema => db # "failed"
=============================================================================
