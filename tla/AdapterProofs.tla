--------------------------- MODULE AdapterProofs ---------------------------
(***************************************************************************)
(* What the storage adapters guarantee, for every number of clients and    *)
(* calls, every MaxInt and whatever statements, commands and saves fail:   *)
(* the transactions of adapters/sqlx, the cache of adapters/redis, the     *)
(* saves of adapters/jsonfile and the store gamify.New falls back to.      *)
(***************************************************************************)
EXTENDS Adapters, TLAPS

-----------------------------------------------------------------------------
(* The operations                                                           *)

(* An operation has a row and a number.                                     *)
LEMMA OpType == \A op \in Op : op.row \in Rows /\ op.arg \in Int
<1> SUFFICES ASSUME NEW op \in Op PROVE op.row \in Rows /\ op.arg \in Int
  OBVIOUS
<1>1. CASE op \in [row : {"points"}, arg : Deltas]
  BY Zenon, <1>1, StorageAssumption DEF Rows
<1>2. CASE op \in [row : {"badge"}, arg : {1}]
  BY <1>2 DEF Rows
<1>3. CASE op \in [row : {"level"}, arg : LevelValues]
  BY Zenon, <1>3, StorageAssumption DEF Rows
<1> QED BY <1>1, <1>2, <1>3 DEF Op

(* What an operation makes of a row is a number.                            *)
LEMMA NewValueType ==
  ASSUME NEW op \in Op, NEW v \in Int \cup {Absent}
  PROVE  NewValue(op, v) \in Int
BY OpType DEF NewValue, ValueOrZero

(* No record has no rows.                                                   *)
LEMMA NoRecordType == NoRecord \in State /\ \A r \in Rows : NoRecord[r] = Absent
BY DEF NoRecord, State

(* An operation leaves a state.                                             *)
LEMMA ApplyType ==
  ASSUME NEW op \in Op, NEW st \in State
  PROVE  Apply(op, st) \in State
<1>1. op.row \in Rows /\ st[op.row] \in Int \cup {Absent}
  BY OpType DEF State
<1>2. NewValue(op, st[op.row]) \in Int
  BY Zenon, <1>1, NewValueType
<1> QED BY <1>1, <1>2 DEF Apply, State

-----------------------------------------------------------------------------
(* adapters/sqlx                                                            *)

SqlCall ==
  [pc : {"idle", "select", "badges", "levels", "return", "write", "commit"},
   op : Op \cup {GetState}, saw : State, lost : SUBSET Rows, since : Nat, overtaken : BOOLEAN]

SqlType == tables \in State /\ past \in Seq(State) /\ tx \in [Clients -> SqlCall]

(* Past its SELECT a transaction has still to write what it read, unless    *)
(* overtaken; and while it holds the lock of an INSERT there is no row.     *)
CallOK(t, tabs) ==
  /\ t.pc \in {"write", "commit"} =>
       /\ t.op \in Op
       /\ t.overtaken \/ (t.saw[t.op.row] = tabs[t.op.row] /\ ~Refused(t.op, tabs[t.op.row]))
  /\ t.pc = "commit" /\ t.saw[t.op.row] = Absent => tabs[t.op.row] = Absent

(* The lock of a row has one holder.                                        *)
OneHolder ==
  \A c, d \in Clients :
    tx[c].pc = "commit" /\ tx[d].pc = "commit" /\ tx[c].op.row = tx[d].op.row => c = d

SqlInv ==
  /\ SqlType
  /\ Len(past) > 0 /\ past[Len(past)] = tables
  /\ \A c \in Clients : CallOK(tx[c], tables)
  /\ OneHolder

(* A client with no call satisfies the invariant of calls.                  *)
LEMMA IdleOK ==
  /\ SqlIdle \in SqlCall /\ SqlIdle.pc = "idle" /\ SqlIdle.since = 1
  /\ \A tabs : CallOK(SqlIdle, tabs)
BY NoRecordType DEF SqlIdle, SqlCall, CallOK

(* The invariant holds of an empty database.                                *)
LEMMA SqlInvInit == SqlInit => SqlInv
<1> SUFFICES ASSUME SqlInit PROVE SqlInv
  OBVIOUS
<1>1. past \in Seq(State) /\ Len(past) > 0 /\ past[Len(past)] = tables
  BY NoRecordType DEF SqlInit
<1> QED BY <1>1, IdleOK, NoRecordType DEF SqlInit, SqlInv, SqlType, OneHolder

(* What a call is once it has read v in a row, or lost it, and goes on.     *)
RowValue == Int \cup {Absent}
AfterPc  == {"badges", "levels", "return", "write"}

Seen(saw, row, v) == [saw EXCEPT ![row] = v]

HavingRead(t, row, v, pc) == [[t EXCEPT !.saw[row] = v] EXCEPT !.pc = pc]

HavingLost(t, row, pc) == [[t EXCEPT !.lost = @ \cup {row}] EXCEPT !.pc = pc]

(* What a record is once two of its fields were given other values.         *)
LEMMA TwoFields ==
  ASSUME NEW P, NEW O, NEW S, NEW L, NEW N, NEW B,
         NEW t \in [pc : P, op : O, saw : S, lost : L, since : N, overtaken : B],
         NEW s \in S, NEW l \in L, NEW p \in P
  PROVE  LET read == [[t EXCEPT !.saw = s] EXCEPT !.pc = p]
             miss == [[t EXCEPT !.lost = l] EXCEPT !.pc = p]
         IN  /\ read \in [pc : P, op : O, saw : S, lost : L, since : N, overtaken : B]
             /\ read.pc = p /\ read.op = t.op /\ read.saw = s /\ read.lost = t.lost
             /\ read.since = t.since /\ read.overtaken = t.overtaken
             /\ miss \in [pc : P, op : O, saw : S, lost : L, since : N, overtaken : B]
             /\ miss.pc = p /\ miss.saw = t.saw /\ miss.lost = l /\ miss.since = t.since
BY Zenon

(* The fields of a call that has read v in a row and goes on at pc.         *)
LEMMA AfterRead ==
  ASSUME NEW t \in SqlCall, NEW row \in Rows, NEW v \in RowValue, NEW pc \in AfterPc
  PROVE  /\ HavingRead(t, row, v, pc) \in SqlCall
         /\ HavingRead(t, row, v, pc).pc = pc
         /\ HavingRead(t, row, v, pc).op = t.op
         /\ HavingRead(t, row, v, pc).saw = Seen(t.saw, row, v)
         /\ HavingRead(t, row, v, pc).lost = t.lost
         /\ HavingRead(t, row, v, pc).since = t.since
         /\ HavingRead(t, row, v, pc).overtaken = t.overtaken
<1>1. [t.saw EXCEPT ![row] = v] \in State /\ t.lost \in SUBSET Rows
  BY DEF SqlCall, State, RowValue
<1> QED BY Zenon, <1>1, TwoFields DEF SqlCall, HavingRead, AfterPc, Seen

(* The fields of a call that has lost a row and goes on at pc.              *)
LEMMA AfterLoss ==
  ASSUME NEW t \in SqlCall, NEW row \in Rows, NEW pc \in AfterPc
  PROVE  /\ HavingLost(t, row, pc) \in SqlCall
         /\ HavingLost(t, row, pc).pc = pc
         /\ HavingLost(t, row, pc).saw = t.saw
         /\ HavingLost(t, row, pc).lost = t.lost \cup {row}
         /\ HavingLost(t, row, pc).since = t.since
<1>1. t.lost \cup {row} \in SUBSET Rows /\ t.saw \in State
  BY DEF SqlCall
<1> QED BY Zenon, <1>1, TwoFields DEF SqlCall, HavingLost, AfterPc

(* A step of one call that leaves the rows alone.                           *)
LEMMA CallStep ==
  ASSUME SqlInv, NEW c \in Clients, NEW rec \in SqlCall, CallOK(rec, tables),
         rec.pc = "commit" => \A d \in Clients : ~Holds(d, rec.op.row),
         tx' = [tx EXCEPT ![c] = rec], UNCHANGED <<tables, past>>
  PROVE  SqlInv'
<1>1. tx' \in [Clients -> SqlCall] /\ \A d \in Clients : tx'[d] = IF d = c THEN rec ELSE tx[d]
  BY DEF SqlInv, SqlType
<1>2. \A d \in Clients : CallOK(tx'[d], tables')
  BY <1>1 DEF SqlInv
<1>3. OneHolder'
  BY <1>1 DEF SqlInv, OneHolder, Holds
<1> QED BY <1>1, <1>2, <1>3 DEF SqlInv, SqlType

(* Calls that end leave the invariant as it is.                             *)
LEMMA CallsEnd ==
  ASSUME SqlInv, tx' \in [Clients -> SqlCall], UNCHANGED <<tables, past>>,
         \A c \in Clients : tx'[c] = tx[c] \/ tx'[c] = SqlIdle
  PROVE  SqlInv'
<1>1. \A c \in Clients : CallOK(tx'[c], tables')
  BY IdleOK DEF SqlInv
<1>2. OneHolder'
  BY IdleOK DEF SqlInv, OneHolder
<1> QED BY <1>1, <1>2 DEF SqlInv, SqlType

(* A call that ends leaves the invariant as it is.                          *)
LEMMA CallEnds ==
  ASSUME SqlInv, NEW c \in Clients, tx' = [tx EXCEPT ![c] = SqlIdle], UNCHANGED <<tables, past>>
  PROVE  SqlInv'
BY IdleOK, CallsEnd DEF SqlInv, SqlType

(* What the commit of c makes of the other calls.                           *)
LEMMA InstallCalls ==
  ASSUME SqlType, NEW c \in Clients, Install(c)
  PROVE  /\ tx' \in [Clients -> SqlCall]
         /\ tx'[c] = SqlIdle
         /\ \A d \in Clients \ {c} :
              /\ tx'[d].pc = tx[d].pc /\ tx'[d].op = tx[d].op /\ tx'[d].saw = tx[d].saw
              /\ tx'[d].lost = tx[d].lost /\ tx'[d].since = tx[d].since
              /\ tx'[d].overtaken = (tx[d].overtaken \/ (/\ tx[d].op.row = tx[c].op.row
                                                         /\ tx[d].pc \in {"write", "commit"}))
<1> DEFINE over(d) == tx[d].overtaken \/ (/\ tx[d].op.row = tx[c].op.row
                                          /\ tx[d].pc \in {"write", "commit"})
           rec(d) == [tx[d] EXCEPT !.overtaken = over(d)]
<1>1. tx' = [d \in Clients |-> IF d = c THEN SqlIdle ELSE rec(d)]
  BY DEF Install
<1>2. ASSUME NEW d \in Clients
      PROVE  /\ rec(d) \in SqlCall
             /\ rec(d).pc = tx[d].pc /\ rec(d).op = tx[d].op /\ rec(d).saw = tx[d].saw
             /\ rec(d).lost = tx[d].lost /\ rec(d).since = tx[d].since
             /\ rec(d).overtaken = over(d)
  <2>1. tx[d] \in SqlCall
    BY DEF SqlType
  <2> QED BY Zenon, <2>1 DEF SqlCall
<1> HIDE DEF rec
<1>3. tx' \in [Clients -> SqlCall] /\ tx'[c] = SqlIdle /\ \A d \in Clients \ {c} : tx'[d] = rec(d)
  BY <1>1, <1>2, IdleOK
<1> QED BY <1>2, <1>3

(* What the commit of c installs.                                           *)
LEMMA InstallStep ==
  ASSUME SqlInv, NEW c \in Clients, tx[c].pc = "commit", Install(c)
  PROVE  SqlInv'
<1> DEFINE row == tx[c].op.row
           val == Pending(c)
<1>1. tx[c] \in SqlCall /\ tx[c].op \in Op /\ row \in Rows
  BY OpType DEF SqlInv, SqlType, CallOK
<1>2. val \in Int
  <2>1. tx[c].saw[row] \in Int \cup {Absent}
    BY <1>1 DEF SqlCall, State
  <2> QED BY Zenon, <1>1, <2>1, NewValueType DEF Pending
<1> HIDE DEF val
<1>3. tables' = [tables EXCEPT ![row] = val]
  BY DEF Install, val
<1>4. tables' \in State /\ \A r \in Rows : r # row => tables'[r] = tables[r]
  BY <1>1, <1>2, <1>3 DEF SqlInv, SqlType, State
<1>5. /\ tx' \in [Clients -> SqlCall]
      /\ tx'[c] = SqlIdle
      /\ \A d \in Clients \ {c} :
           /\ tx'[d].pc = tx[d].pc /\ tx'[d].op = tx[d].op /\ tx'[d].saw = tx[d].saw
           /\ tx'[d].overtaken = (tx[d].overtaken \/ (/\ tx[d].op.row = row
                                                      /\ tx[d].pc \in {"write", "commit"}))
  BY Zenon, InstallCalls DEF SqlInv
<1>6. ASSUME NEW d \in Clients, d # c PROVE CallOK(tx'[d], tables')
  <2>1. CallOK(tx[d], tables)
    BY DEF SqlInv
  <2>2. /\ tx'[d].pc = tx[d].pc /\ tx'[d].op = tx[d].op /\ tx'[d].saw = tx[d].saw
        /\ tx'[d].overtaken = (tx[d].overtaken \/ (/\ tx[d].op.row = row
                                                   /\ tx[d].pc \in {"write", "commit"}))
    BY <1>5, <1>6
  <2>3. ASSUME tx'[d].pc \in {"write", "commit"}
        PROVE  /\ tx'[d].op \in Op
               /\ \/ tx'[d].overtaken
                  \/ /\ tx'[d].saw[tx'[d].op.row] = tables'[tx'[d].op.row]
                     /\ ~Refused(tx'[d].op, tables'[tx'[d].op.row])
    <3>1. tx[d].pc \in {"write", "commit"} /\ tx[d].op \in Op /\ tx[d].op.row \in Rows
      BY <2>1, <2>2, <2>3, OpType DEF CallOK
    <3>2. CASE tx[d].op.row = row
      BY Zenon, <2>2, <3>1, <3>2
    <3>3. CASE tx[d].op.row # row
      <4>1. tables'[tx[d].op.row] = tables[tx[d].op.row]
        BY <1>4, <3>1, <3>3
      <4> QED BY Zenon, <2>1, <2>2, <3>1, <4>1 DEF CallOK
    <3> QED BY <3>2, <3>3
  <2>4. ASSUME tx'[d].pc = "commit", tx'[d].saw[tx'[d].op.row] = Absent
        PROVE  tables'[tx'[d].op.row] = Absent
    <3>1. tx[d].pc = "commit" /\ tx[d].saw[tx[d].op.row] = Absent
      BY <2>2, <2>4
    <3>2. tx[d].op \in Op /\ tables[tx[d].op.row] = Absent
      BY <2>1, <3>1 DEF CallOK
    <3>3. tx[d].op.row # row
      BY <1>6, <3>1 DEF SqlInv, OneHolder
    <3> QED BY <1>4, <2>2, <3>2, <3>3, OpType
  <2> QED BY <2>3, <2>4 DEF CallOK
<1>7. \A d \in Clients : CallOK(tx'[d], tables')
  BY <1>5, <1>6, IdleOK
<1>8. OneHolder'
  <2>1. \A d \in Clients : tx'[d].pc = "commit" => tx[d].pc = "commit" /\ tx'[d].op = tx[d].op
    BY <1>5, IdleOK
  <2> QED BY <2>1 DEF SqlInv, OneHolder
<1>9. past' \in Seq(State) /\ Len(past') > 0 /\ past'[Len(past')] = tables'
  <2>1. past \in Seq(State) /\ past' = Append(past, tables')
    BY DEF SqlInv, SqlType, Install
  <2> QED BY <1>4, <2>1
<1> QED BY <1>4, <1>5, <1>7, <1>8, <1>9 DEF SqlInv, SqlType

(* Every statement, commit and failure keeps the invariant.                 *)
LEMMA SqlInvNext == SqlInv /\ [SqlNext]_sqlVars => SqlInv'
<1> SUFFICES ASSUME SqlInv, [SqlNext]_sqlVars PROVE SqlInv'
  OBVIOUS
<1>0. /\ tables \in State /\ tx \in [Clients -> SqlCall] /\ Len(past) \in Nat
      /\ \A c \in Clients : CallOK(tx[c], tables)
  BY DEF SqlInv, SqlType
<1>1. ASSUME UNCHANGED <<tables, past, tx>> PROVE SqlInv'
  BY <1>1 DEF SqlInv, SqlType, OneHolder
<1>2. CASE SqlNew \/ SqlNewWithDB \/ UNCHANGED sqlVars
  BY <1>1, <1>2 DEF SqlNew, SqlNewWithDB, sqlVars, sqlHist
<1>3. CASE SqlClose \/ SqlCrash
  <2>1. UNCHANGED <<tables, past>>
    BY <1>3 DEF SqlClose, SqlCrash, sqlHist
  <2>2. tx' \in [Clients -> SqlCall] /\ \A c \in Clients : tx'[c] = tx[c] \/ tx'[c] = SqlIdle
    BY <1>0, <1>3, IdleOK DEF SqlClose, SqlCrash
  <2> QED BY <2>1, <2>2, CallsEnd
<1>4. ASSUME NEW c \in Clients, NEW op \in Op \cup {GetState}, SqlBegin(c, op) PROVE SqlInv'
  <2> DEFINE rec == [SqlIdle EXCEPT !.pc = "select", !.op = op, !.since = Len(past)]
  <2>1. tx' = [tx EXCEPT ![c] = rec] /\ UNCHANGED <<tables, past>>
    BY <1>4 DEF SqlBegin
  <2>2. rec \in SqlCall /\ rec.pc = "select"
    BY <1>0, NoRecordType DEF SqlIdle, SqlCall
  <2> HIDE DEF rec
  <2>3. CallOK(rec, tables)
    BY <2>2 DEF CallOK
  <2> QED BY Zenon, <2>1, <2>2, <2>3, CallStep
<1>5. ASSUME NEW c \in Clients, SqlSelect(c) PROVE SqlInv'
  <2> DEFINE op == tx[c].op
             v == tables[op.row]
             rec == HavingRead(tx[c], op.row, v, "write")
  <2>1. tx[c] \in SqlCall /\ tx[c].pc = "select" /\ op \in Op /\ op.row \in Rows
    BY <1>0, <1>5 DEF SqlSelect, SqlCall, GetState, Rows
  <2>2. UNCHANGED <<tables, past>>
    BY <1>5 DEF SqlSelect, sqlHist
  <2>3. CASE tx' = [tx EXCEPT ![c] = SqlIdle]
    BY Zenon, <2>2, <2>3, CallEnds
  <2>4. CASE ~Refused(op, v) /\ tx' = [tx EXCEPT ![c].saw[op.row] = v, ![c].pc = "write"]
    <3>1. tx' = [tx EXCEPT ![c] = rec]
      BY Zenon, <1>0, <2>4 DEF HavingRead
    <3>2. v \in RowValue /\ "write" \in AfterPc
      BY <1>0, <2>1 DEF State, RowValue, AfterPc
    <3>3. /\ rec \in SqlCall /\ rec.pc = "write" /\ rec.op = op
          /\ rec.saw = Seen(tx[c].saw, op.row, v)
      <4> HIDE DEF v
      <4> QED BY ZenonT(60), <2>1, <3>2, AfterRead
    <3>4. rec.saw[op.row] = v
      BY Zenon, <2>1, <3>3 DEF SqlCall, State, Seen
    <3> HIDE DEF rec
    <3>5. CallOK(rec, tables)
      BY Zenon, <2>1, <2>4, <3>3, <3>4 DEF CallOK
    <3> QED BY Zenon, <2>2, <3>1, <3>3, <3>5, CallStep
  <2> QED BY Zenon, <1>5, <2>3, <2>4 DEF SqlSelect
<1>6. ASSUME NEW c \in Clients, SqlWrite(c) PROVE SqlInv'
  <2> DEFINE op == tx[c].op
             rec == [tx[c] EXCEPT !.pc = "commit"]
  <2>1. /\ tx[c] \in SqlCall /\ CallOK(tx[c], tables)
        /\ tx[c].pc = "write" /\ UNCHANGED <<tables, past>>
        /\ \A d \in Clients : ~Holds(d, op.row)
    BY <1>0, <1>6 DEF SqlWrite, sqlHist
  <2>2. CASE tx' = [tx EXCEPT ![c] = SqlIdle]
    BY Zenon, <2>1, <2>2, CallEnds
  <2>3. CASE /\ ~(tx[c].saw[op.row] = Absent /\ tables[op.row] # Absent)
             /\ tx' = [tx EXCEPT ![c].pc = "commit"]
    <3>1. tx' = [tx EXCEPT ![c] = rec]
      BY <1>0, <2>3
    <3>2. /\ rec \in SqlCall /\ rec.pc = "commit" /\ rec.op = op
          /\ rec.saw = tx[c].saw /\ rec.overtaken = tx[c].overtaken
      BY <2>1 DEF SqlCall
    <3> HIDE DEF rec
    <3>3. CallOK(rec, tables)
      BY <2>1, <2>3, <3>2 DEF CallOK
    <3> QED BY Zenon, <2>1, <3>1, <3>2, <3>3, CallStep
  <2> QED BY <1>6, <2>2, <2>3 DEF SqlWrite
<1>7. ASSUME NEW c \in Clients, SqlCommit(c) PROVE SqlInv'
  BY <1>7, InstallStep DEF SqlCommit
<1>8. ASSUME NEW c \in Clients, SqlRollback(c) \/ SqlReturn(c) PROVE SqlInv'
  BY Zenon, <1>8, CallEnds DEF SqlRollback, SqlReturn, sqlHist
<1>9. ASSUME NEW c \in Clients, NEW row \in Rows, NEW from,
             NEW to \in {"badges", "levels", "return"}, SqlQuery(c, from, row, to)
      PROVE  SqlInv'
  <2> DEFINE v == tables[row]
  <2>1. tx[c] \in SqlCall /\ UNCHANGED <<tables, past>> /\ v \in RowValue /\ to \in AfterPc
    BY <1>0, <1>9 DEF SqlQuery, sqlHist, State, RowValue, AfterPc
  <2>2. PICK rec \in {HavingRead(tx[c], row, v, to), HavingLost(tx[c], row, to)} :
          tx' = [tx EXCEPT ![c] = rec]
    BY Zenon, <1>0, <1>9 DEF SqlQuery, HavingRead, HavingLost
  <2> HIDE DEF v
  <2>3. rec \in SqlCall /\ rec.pc = to
    <3>1. CASE rec = HavingRead(tx[c], row, v, to)
      BY ZenonT(60), <2>1, <3>1, AfterRead
    <3>2. CASE rec = HavingLost(tx[c], row, to)
      BY <2>1, <3>2, AfterLoss
    <3> QED BY <2>2, <3>1, <3>2
  <2>4. CallOK(rec, tables) /\ rec.pc # "commit"
    BY <1>9, <2>3 DEF CallOK
  <2> QED BY Zenon, <2>1, <2>2, <2>3, <2>4, CallStep
<1>10. ASSUME NEW c \in Clients, SqlGetState(c) PROVE SqlInv'
  BY <1>8, <1>9, <1>10 DEF SqlGetState, Rows
<1> QED BY <1>2, <1>3, <1>4, <1>5, <1>6, <1>7, <1>8, <1>10 DEF SqlNext, SqlAdvance

-----------------------------------------------------------------------------
(* What GetState shows                                                      *)

(* What call t shows of a row is what it held in state n of history h.      *)
ShowsIn(t, h, row, n) == row \in t.lost \/ t.saw[row] = h[n][row]

(* What the queries made so far show, they show of moments in their order.  *)
Ordered(t, h) ==
  /\ t.since \in 1 .. Len(h)
  /\ t.pc = "badges" => \E p \in t.since .. Len(h) : ShowsIn(t, h, "points", p)
  /\ t.pc = "levels" =>
       \E p, b \in t.since .. Len(h) :
         p <= b /\ ShowsIn(t, h, "points", p) /\ ShowsIn(t, h, "badge", b)
  /\ t.pc = "return" =>
       \E p, b, l \in t.since .. Len(h) :
         /\ p <= b /\ b <= l
         /\ ShowsIn(t, h, "points", p) /\ ShowsIn(t, h, "badge", b) /\ ShowsIn(t, h, "level", l)

AllOrdered == \A c \in Clients : Ordered(tx[c], past)

(* A commit adds to the history, and what was shown of it stays.            *)
LEMMA OrderedGrows ==
  ASSUME NEW h \in Seq(State), NEW st \in State, NEW t, NEW u, Ordered(t, h),
         u.pc = t.pc, u.saw = t.saw, u.lost = t.lost, u.since = t.since
  PROVE  Ordered(u, Append(h, st))
<1> DEFINE g == Append(h, st)
<1>1. /\ Len(g) = Len(h) + 1 /\ Len(h) \in Nat
      /\ \A n \in 1 .. Len(h) : g[n] = h[n]
  OBVIOUS
<1> HIDE DEF g
<1>2. t.since \in 1 .. Len(h)
  BY DEF Ordered
<1>3. \A n \in t.since .. Len(h) :
        n \in u.since .. Len(g) /\ \A r \in Rows : ShowsIn(t, h, r, n) => ShowsIn(u, g, r, n)
  BY <1>1, <1>2 DEF ShowsIn
<1>4. u.since \in 1 .. Len(g)
  BY <1>1, <1>2
<1>5. ASSUME u.pc = "badges" PROVE \E p \in u.since .. Len(g) : ShowsIn(u, g, "points", p)
  BY <1>3, <1>5 DEF Ordered, Rows
<1>6. ASSUME u.pc = "levels"
      PROVE  \E p, b \in u.since .. Len(g) :
               p <= b /\ ShowsIn(u, g, "points", p) /\ ShowsIn(u, g, "badge", b)
  BY <1>3, <1>6 DEF Ordered, Rows
<1>7. ASSUME u.pc = "return"
      PROVE  \E p, b, l \in u.since .. Len(g) :
               /\ p <= b /\ b <= l
               /\ ShowsIn(u, g, "points", p) /\ ShowsIn(u, g, "badge", b)
               /\ ShowsIn(u, g, "level", l)
  BY <1>3, <1>7 DEF Ordered, Rows
<1> QED BY <1>4, <1>5, <1>6, <1>7 DEF Ordered, g

(* A query of GetState shows its row as it is, and the others as before.    *)
LEMMA QueryShows ==
  ASSUME SqlInv, NEW c \in Clients, NEW row \in Rows, NEW from,
         NEW to \in {"badges", "levels", "return"}, SqlQuery(c, from, row, to)
  PROVE  /\ tx'[c].pc = to /\ tx'[c].since = tx[c].since
         /\ ShowsIn(tx'[c], past, row, Len(past))
         /\ \A r \in Rows \ {row}, n \in Nat :
              ShowsIn(tx[c], past, r, n) => ShowsIn(tx'[c], past, r, n)
         /\ \A d \in Clients \ {c} : tx'[d] = tx[d]
<1> DEFINE v == tables[row]
<1>1. tx \in [Clients -> SqlCall] /\ tx[c] \in SqlCall /\ v \in RowValue /\ to \in AfterPc
  BY DEF SqlInv, SqlType, State, RowValue, AfterPc
<1>2. PICK rec \in {HavingRead(tx[c], row, v, to), HavingLost(tx[c], row, to)} :
        tx' = [tx EXCEPT ![c] = rec]
  BY Zenon, <1>1 DEF SqlQuery, HavingRead, HavingLost
<1>3. past[Len(past)][row] = v
  BY DEF SqlInv
<1> HIDE DEF v
<1>4. tx'[c] = rec /\ \A d \in Clients \ {c} : tx'[d] = tx[d]
  BY <1>1, <1>2
<1>5. CASE rec = HavingRead(tx[c], row, v, to)
  <2>1. /\ rec.pc = to /\ rec.since = tx[c].since /\ rec.lost = tx[c].lost
        /\ rec.saw = Seen(tx[c].saw, row, v)
    BY ZenonT(60), <1>1, <1>5, AfterRead
  <2>2. rec.saw[row] = v /\ \A r \in Rows \ {row} : rec.saw[r] = tx[c].saw[r]
    BY <1>1, <2>1 DEF SqlCall, State, Seen
  <2> QED BY <1>3, <1>4, <2>1, <2>2 DEF ShowsIn
<1>6. CASE rec = HavingLost(tx[c], row, to)
  <2>1. /\ rec.pc = to /\ rec.since = tx[c].since /\ rec.saw = tx[c].saw
        /\ rec.lost = tx[c].lost \cup {row}
    BY <1>1, <1>6, AfterLoss
  <2> QED BY <1>4, <2>1 DEF ShowsIn
<1> QED BY <1>2, <1>5, <1>6

(* The history starts with the state the calls of nobody have seen.         *)
LEMMA OrderedIdle == ASSUME SqlInv PROVE Ordered(SqlIdle, past)
BY IdleOK DEF SqlInv, SqlType, Ordered

(* Every statement and every commit of another call keeps the order.        *)
LEMMA OrderedNext ==
  ASSUME SqlInv, AllOrdered, [SqlNext]_sqlVars
  PROVE  AllOrdered'
<1>0. /\ tx \in [Clients -> SqlCall] /\ past \in Seq(State) /\ Len(past) \in Nat /\ Len(past) > 0
      /\ \A c \in Clients : Ordered(tx[c], past) /\ tx[c].since \in 1 .. Len(past)
  BY DEF SqlInv, SqlType, AllOrdered, Ordered
<1>1. ASSUME UNCHANGED past,
             \A c \in Clients : tx'[c] = tx[c] \/ tx'[c] = SqlIdle \/ Ordered(tx'[c], past)
      PROVE  AllOrdered'
  BY <1>0, <1>1, OrderedIdle DEF AllOrdered
<1>2. CASE SqlNew \/ SqlNewWithDB \/ UNCHANGED sqlVars
  BY <1>1, <1>2 DEF SqlNew, SqlNewWithDB, sqlVars, sqlHist
<1>3. CASE SqlClose \/ SqlCrash
  BY <1>1, <1>3 DEF SqlClose, SqlCrash, sqlHist
<1>4. ASSUME NEW c \in Clients, NEW op \in Op \cup {GetState}, SqlBegin(c, op) PROVE AllOrdered'
  <2> DEFINE rec == [SqlIdle EXCEPT !.pc = "select", !.op = op, !.since = Len(past)]
  <2>1. tx' = [tx EXCEPT ![c] = rec] /\ UNCHANGED past
    BY <1>4 DEF SqlBegin
  <2>2. rec.pc = "select" /\ rec.since = Len(past)
    BY DEF SqlIdle
  <2> HIDE DEF rec
  <2>3. Ordered(rec, past)
    BY <1>0, <2>2 DEF Ordered
  <2> QED BY <1>0, <1>1, <2>1, <2>3
<1>5. ASSUME NEW c \in Clients, SqlSelect(c) \/ SqlWrite(c) PROVE AllOrdered'
  <2>1. PICK rec : /\ tx' = [tx EXCEPT ![c] = rec] /\ UNCHANGED past
                   /\ rec = SqlIdle \/ (rec.pc \in {"write", "commit"} /\ rec.since = tx[c].since)
    <3>1. ASSUME tx' = [tx EXCEPT ![c].saw[tx[c].op.row] = tables[tx[c].op.row], ![c].pc = "write"]
          PROVE  /\ tx' = [tx EXCEPT ![c] = HavingRead(tx[c], tx[c].op.row, tables[tx[c].op.row], "write")]
                 /\ HavingRead(tx[c], tx[c].op.row, tables[tx[c].op.row], "write").pc = "write"
                 /\ HavingRead(tx[c], tx[c].op.row, tables[tx[c].op.row], "write").since = tx[c].since
      BY Zenon, <1>0, <3>1 DEF HavingRead, SqlCall
    <3>2. ASSUME tx' = [tx EXCEPT ![c].pc = "commit"]
          PROVE  /\ tx' = [tx EXCEPT ![c] = [tx[c] EXCEPT !.pc = "commit"]]
                 /\ [tx[c] EXCEPT !.pc = "commit"].pc = "commit"
                 /\ [tx[c] EXCEPT !.pc = "commit"].since = tx[c].since
      BY Zenon, <1>0, <3>2 DEF SqlCall
    <3> QED BY Zenon, <1>5, <3>1, <3>2 DEF SqlSelect, SqlWrite, sqlHist
  <2>2. rec = SqlIdle \/ Ordered(rec, past)
    BY <1>0, <2>1 DEF Ordered
  <2> QED BY <1>0, <1>1, <2>1, <2>2
<1>6. ASSUME NEW c \in Clients, SqlCommit(c) PROVE AllOrdered'
  <2>1. Install(c) /\ tx[c].pc = "commit" /\ past' = Append(past, tables')
    BY <1>6 DEF SqlCommit, Install
  <2>2. SqlInv' /\ tables' \in State
    BY <2>1, InstallStep DEF SqlInv, SqlType
  <2>3. /\ tx'[c] = SqlIdle
        /\ \A d \in Clients \ {c} :
             /\ tx'[d].pc = tx[d].pc /\ tx'[d].saw = tx[d].saw
             /\ tx'[d].lost = tx[d].lost /\ tx'[d].since = tx[d].since
    BY Zenon, <2>1, InstallCalls DEF SqlInv
  <2>4. Ordered(SqlIdle, past')
    BY <2>2, IdleOK DEF SqlInv, SqlType, Ordered
  <2>5. ASSUME NEW d \in Clients, d # c PROVE Ordered(tx'[d], past')
    BY Zenon, <1>0, <2>1, <2>2, <2>3, <2>5, OrderedGrows
  <2> QED BY <2>3, <2>4, <2>5 DEF AllOrdered
<1>7. ASSUME NEW c \in Clients, SqlRollback(c) \/ SqlReturn(c) PROVE AllOrdered'
  BY <1>0, <1>1, <1>7 DEF SqlRollback, SqlReturn, sqlHist
<1>8. ASSUME NEW c \in Clients, SqlGetState(c) PROVE AllOrdered'
  <2> DEFINE n == Len(past)
  <2>1. CASE SqlQuery(c, "select", "points", "badges")
    <3>1. /\ tx'[c].pc = "badges" /\ tx'[c].since = tx[c].since
          /\ ShowsIn(tx'[c], past, "points", n)
          /\ \A d \in Clients \ {c} : tx'[d] = tx[d]
      BY <2>1, QueryShows DEF Rows
    <3>2. Ordered(tx'[c], past)
      BY <1>0, <3>1 DEF Ordered
    <3> QED BY <1>1, <2>1, <3>1, <3>2 DEF SqlQuery, sqlHist
  <2>2. CASE SqlQuery(c, "badges", "badge", "levels")
    <3>1. /\ tx'[c].pc = "levels" /\ tx'[c].since = tx[c].since
          /\ ShowsIn(tx'[c], past, "badge", n)
          /\ \A p \in Nat : ShowsIn(tx[c], past, "points", p) => ShowsIn(tx'[c], past, "points", p)
          /\ \A d \in Clients \ {c} : tx'[d] = tx[d]
      BY <2>2, QueryShows DEF Rows
    <3>2. PICK p \in tx[c].since .. n : ShowsIn(tx[c], past, "points", p)
      BY <1>0, <2>2 DEF SqlQuery, Ordered
    <3>3. p \in Nat /\ p <= n /\ n \in tx[c].since .. n
      BY <1>0, <3>2
    <3>4. Ordered(tx'[c], past)
      BY <1>0, <3>1, <3>2, <3>3 DEF Ordered
    <3> QED BY <1>1, <2>2, <3>1, <3>4 DEF SqlQuery, sqlHist
  <2>3. CASE SqlQuery(c, "levels", "level", "return")
    <3>1. /\ tx'[c].pc = "return" /\ tx'[c].since = tx[c].since
          /\ ShowsIn(tx'[c], past, "level", n)
          /\ \A p \in Nat : ShowsIn(tx[c], past, "points", p) => ShowsIn(tx'[c], past, "points", p)
          /\ \A b \in Nat : ShowsIn(tx[c], past, "badge", b) => ShowsIn(tx'[c], past, "badge", b)
          /\ \A d \in Clients \ {c} : tx'[d] = tx[d]
      BY <2>3, QueryShows DEF Rows
    <3>2. PICK p, b \in tx[c].since .. n :
            p <= b /\ ShowsIn(tx[c], past, "points", p) /\ ShowsIn(tx[c], past, "badge", b)
      BY <1>0, <2>3 DEF SqlQuery, Ordered
    <3>3. p \in Nat /\ b \in Nat /\ b <= n /\ n \in tx[c].since .. n
      BY <1>0, <3>2
    <3>4. Ordered(tx'[c], past)
      BY <1>0, <3>1, <3>2, <3>3 DEF Ordered
    <3> QED BY <1>1, <2>3, <3>1, <3>4 DEF SqlQuery, sqlHist
  <2> QED BY <1>7, <1>8, <2>1, <2>2, <2>3 DEF SqlGetState
<1> QED BY <1>2, <1>3, <1>4, <1>5, <1>6, <1>7, <1>8 DEF SqlNext, SqlAdvance

(* However transactions commit between its queries, GetState of sqlx.Store  *)
(* returns what the tables held at three moments of the call, in the order  *)
(* points, badges, levels, but for rows that were not delivered.            *)
THEOREM SnapshotsAreOrdered == SqlSpec => []SqlSnapshotOrdered
<1>1. SqlInit => AllOrdered
  <2> SUFFICES ASSUME SqlInit PROVE AllOrdered
    OBVIOUS
  <2>1. SqlInv /\ \A c \in Clients : tx[c] = SqlIdle
    BY SqlInvInit DEF SqlInit
  <2> QED BY <2>1, OrderedIdle DEF AllOrdered
<1>2. AllOrdered => SqlSnapshotOrdered
  BY DEF AllOrdered, Ordered, SqlSnapshotOrdered, Shows, ShowsIn
<1> QED BY <1>1, <1>2, SqlInvInit, SqlInvNext, OrderedNext, PTL DEF SqlSpec

(* Only a commit changes the rows.                                          *)
LEMMA RowsChangeAtCommit ==
  ASSUME [SqlNext]_sqlVars, tables' # tables
  PROVE  \E c \in Clients : tx[c].pc = "commit" /\ Install(c)
<1>1. PICK c \in Clients : SqlCommit(c)
  BY Zenon DEF SqlNext, SqlAdvance, SqlNew, SqlNewWithDB, SqlClose, SqlCrash, SqlBegin, SqlSelect,
         SqlWrite, SqlRollback, SqlGetState, SqlQuery, SqlReturn, sqlVars
<1> QED BY SMTT(30), <1>1 DEF SqlCommit

(* Where nobody came between, AddPoints, AwardBadge and SetLevel of         *)
(* sqlx.Store do exactly what they say, overflow included: what an          *)
(* overlapping call overtook is the only loss there is.                     *)
THEOREM UnovertakenIsExact == SqlSpec => SqlUnovertakenExact
<1>1. ASSUME SqlInv, [SqlNext]_sqlVars, tables' # tables
      PROVE  \E c \in Clients :
               /\ tx[c].pc = "commit" /\ tx'[c].pc = "idle"
               /\ tx[c].overtaken \/ /\ ~Refused(tx[c].op, tables[tx[c].op.row])
                                     /\ tables' = Apply(tx[c].op, tables)
  <2>1. PICK c \in Clients : tx[c].pc = "commit" /\ Install(c)
    BY <1>1, RowsChangeAtCommit
  <2>2. CallOK(tx[c], tables) /\ tx'[c].pc = "idle"
    BY <1>1, <2>1, InstallCalls, IdleOK DEF SqlInv
  <2>3. CASE ~tx[c].overtaken
    <3>1. /\ tx[c].saw[tx[c].op.row] = tables[tx[c].op.row]
          /\ ~Refused(tx[c].op, tables[tx[c].op.row])
      BY <2>1, <2>2, <2>3 DEF CallOK
    <3>2. tables' = Apply(tx[c].op, tables)
      BY <2>1, <3>1 DEF Install, Pending, Apply
    <3> QED BY <2>1, <2>2, <3>1, <3>2
  <2> QED BY <2>1, <2>2, <2>3
<1> QED BY <1>1, SqlInvInit, SqlInvNext, PTL DEF SqlSpec, SqlUnovertakenExact

(* An INSERT of sqlx.Store never takes the place of a row: of two calls     *)
(* that found none, one fails.                                              *)
THEOREM InsertsAreOnce == SqlSpec => SqlInsertOnce
<1>1. ASSUME SqlInv, [SqlNext]_sqlVars, NEW r \in Rows,
             tables[r] # Absent, tables'[r] # tables[r]
      PROVE  \E c \in Clients : Holds(c, r) /\ tx[c].saw[r] # Absent
  <2>1. PICK c \in Clients : tx[c].pc = "commit" /\ Install(c)
    BY <1>1, RowsChangeAtCommit
  <2>2. CallOK(tx[c], tables) /\ tables \in State
    BY <1>1 DEF SqlInv, SqlType
  <2>3. tx[c].op.row = r
    BY <1>1, <2>1, <2>2 DEF Install, State
  <2> QED BY <1>1, <2>1, <2>2, <2>3 DEF CallOK, Holds
<1>2. SqlInv /\ [SqlNext]_sqlVars =>
        \A r \in Rows : tables[r] # Absent /\ tables'[r] # tables[r] =>
          \E c \in Clients : Holds(c, r) /\ tx[c].saw[r] # Absent
  BY <1>1
<1> QED BY <1>2, SqlInvInit, SqlInvNext, PTL DEF SqlSpec, SqlInsertOnce

-----------------------------------------------------------------------------
(* adapters/redis                                                           *)

(* The rows a reader has behind it.                                         *)
ReadBy(pc) ==
  IF pc = "badges" THEN {"points"}
  ELSE IF pc = "levels" THEN {"points", "badge"}
  ELSE IF pc = "store" THEN Rows ELSE {}

RedisCall ==
  [pc : {"idle", "invalidate", "points", "badges", "levels", "store"},
   got : State, suspect : BOOLEAN]

Blob == [state : State, excused : BOOLEAN, ttl : BOOLEAN]

RedisType ==
  /\ keys \in State
  /\ blob = NoCache \/ blob \in Blob
  /\ rcall \in [Clients -> RedisCall]

(* A reader that nothing overtook, and that skipped nothing, holds of the   *)
(* rows behind it what the server still has.                                *)
Gathered(rc, ks) == ~rc.suspect => \A r \in ReadBy(rc.pc) : rc.got[r] = ks[r]

RedisInv ==
  /\ RedisType
  /\ \A c \in Clients : Gathered(rcall[c], keys)
  /\ RedisStaleExplained

(* A client with no call has gathered nothing.                              *)
LEMMA IdleType == RedisIdle \in RedisCall /\ \A ks : Gathered(RedisIdle, ks)
<1>1. NoRecord \in State
  BY DEF NoRecord, State
<1> QED BY <1>1 DEF RedisIdle, RedisCall, Gathered, ReadBy

(* The invariant holds of an empty server.                                  *)
LEMMA RedisInvInit == RedisInit => RedisInv
<1> SUFFICES ASSUME RedisInit PROVE RedisInv
  OBVIOUS
<1>1. NoRecord \in State
  BY DEF NoRecord, State
<1>2. RedisType
  BY <1>1, IdleType DEF RedisInit, RedisType
<1>3. \A c \in Clients : Gathered(rcall[c], keys)
  BY IdleType DEF RedisInit
<1>4. RedisStaleExplained
  BY DEF RedisInit, RedisStaleExplained, Stale
<1> QED BY <1>2, <1>3, <1>4 DEF RedisInv

(* A write that takes effect makes every reader under way suspect, and      *)
(* touches nothing else of them.                                            *)
LEMMA ChangeKeepsReaders ==
  ASSUME RedisInv, NEW c \in Clients, NEW op \in Op, NEW pc \in {"idle", "invalidate"},
         Change(c, op, pc)
  PROVE  /\ keys' \in State
         /\ rcall' \in [Clients -> RedisCall]
         /\ \A d \in Clients : Gathered(rcall'[d], keys')
         /\ rcall'[c].pc = pc
         /\ \A d \in Clients : d # c => rcall'[d].pc = rcall[d].pc
<1>1. keys' \in State
  BY ApplyType DEF Change, RedisInv, RedisType
<1> DEFINE mine == [RedisIdle EXCEPT !.pc = pc]
           other(d) == [rcall[d] EXCEPT !.suspect = @ \/ Building(d)]
<1>2. rcall' = [d \in Clients |-> IF d = c THEN mine ELSE other(d)]
  BY DEF Change
<1>3. mine \in RedisCall /\ mine.pc = pc /\ Gathered(mine, keys')
  BY Zenon, IdleType DEF RedisCall, RedisIdle, Gathered, ReadBy
<1>4. ASSUME NEW d \in Clients
      PROVE  other(d) \in RedisCall /\ other(d).pc = rcall[d].pc /\ Gathered(other(d), keys')
  <2>1. rcall[d] \in RedisCall
    BY DEF RedisInv, RedisType
  <2>2. other(d) \in RedisCall /\ other(d).pc = rcall[d].pc
    BY Zenon, <2>1 DEF RedisCall, Building
  <2>3. CASE Building(d)
    <3>1. other(d).suspect
      BY Zenon, <2>1, <2>3 DEF RedisCall
    <3> QED BY <2>2, <3>1 DEF Gathered
  <2>4. CASE ~Building(d)
    <3>1. ReadBy(rcall[d].pc) = {}
      BY <2>1, <2>4 DEF RedisCall, Building, ReadBy
    <3> QED BY <2>2, <3>1 DEF Gathered
  <2> QED BY <2>2, <2>3, <2>4
<1> QED BY Zenon, <1>1, <1>2, <1>3, <1>4

(* Every command, failing or not, keeps the invariant.                      *)
LEMMA RedisInvNext == RedisInv /\ [RedisNext]_redisVars => RedisInv'
<1> SUFFICES ASSUME RedisInv, [RedisNext]_redisVars PROVE RedisInv'
  OBVIOUS
<1>0. /\ keys \in State
      /\ blob = NoCache \/ blob \in Blob
      /\ rcall \in [Clients -> RedisCall]
      /\ \A c \in Clients : Gathered(rcall[c], keys)
      /\ RedisStaleExplained
  BY DEF RedisInv, RedisType
<1>1. CASE UNCHANGED redisVars
  BY <1>0, <1>1 DEF redisVars, RedisInv, RedisType, RedisStaleExplained, Stale
<1>2. CASE RedisExpire
  BY <1>0, <1>2 DEF RedisExpire, RedisInv, RedisType, RedisStaleExplained, Stale
<1>3. ASSUME NEW c \in Clients, NEW op \in Op, RedisWrite(c, op) PROVE RedisInv'
  <2>1. Change(c, op, "invalidate") /\ UNCHANGED blob
    BY <1>3 DEF RedisWrite
  <2>2. /\ keys' \in State
        /\ rcall' \in [Clients -> RedisCall]
        /\ \A d \in Clients : Gathered(rcall'[d], keys')
        /\ rcall'[c].pc = "invalidate"
    BY <2>1, ChangeKeepsReaders
  <2>3. RedisStaleExplained'
    BY <2>2 DEF RedisStaleExplained
  <2> QED BY <1>0, <2>1, <2>2, <2>3 DEF RedisInv, RedisType
<1>4. ASSUME NEW c \in Clients, NEW op \in Op, RedisWriteUnsure(c, op) PROVE RedisInv'
  <2>1. /\ Change(c, op, "idle")
        /\ blob' = Excused
    BY <1>4 DEF RedisWriteUnsure
  <2>2. /\ keys' \in State
        /\ rcall' \in [Clients -> RedisCall]
        /\ \A d \in Clients : Gathered(rcall'[d], keys')
    BY <2>1, ChangeKeepsReaders
  <2>3. /\ blob' = NoCache \/ blob' \in Blob
        /\ blob' = NoCache \/ blob'.excused
    BY Zenon, <1>0, <2>1 DEF Excused, Blob
  <2>4. RedisStaleExplained'
    BY <2>3 DEF RedisStaleExplained, Stale
  <2> QED BY <2>2, <2>3, <2>4 DEF RedisInv, RedisType
<1>5. ASSUME NEW c \in Clients, RedisInvalidate(c) \/ RedisInvalidateFails(c) PROVE RedisInv'
  <2>1. rcall' = [rcall EXCEPT ![c] = RedisIdle] /\ UNCHANGED keys
    BY <1>5 DEF RedisInvalidate, RedisInvalidateFails
  <2>2. /\ rcall' \in [Clients -> RedisCall]
        /\ \A d \in Clients : Gathered(rcall'[d], keys')
    BY <1>0, <2>1, IdleType
  <2>3. /\ blob' = NoCache \/ blob' \in Blob
        /\ blob' = NoCache \/ blob'.excused
    BY Zenon, <1>0, <1>5 DEF RedisInvalidate, RedisInvalidateFails, Excused, Blob
  <2>4. RedisStaleExplained'
    BY <2>3 DEF RedisStaleExplained, Stale
  <2> QED BY <1>0, <2>1, <2>2, <2>3, <2>4 DEF RedisInv, RedisType
<1>6. ASSUME NEW c \in Clients, RedisGetState(c) \/ RedisGetFails(c) PROVE RedisInv'
  <2>1. /\ rcall[c] \in RedisCall /\ rcall[c].pc = "idle"
        /\ rcall' = [rcall EXCEPT ![c].pc = "points"]
        /\ UNCHANGED <<keys, blob>>
    BY <1>0, <1>6 DEF RedisGetState, RedisGetFails
  <2>2. /\ rcall'[c] \in RedisCall /\ rcall'[c].pc = "points"
        /\ \A d \in Clients \ {c} : rcall'[d] = rcall[d]
        /\ rcall' \in [Clients -> RedisCall]
    BY <1>0, <2>1 DEF RedisCall
  <2>3. Gathered(rcall'[c], keys')
    BY <2>2 DEF Gathered, ReadBy
  <2>4. RedisStaleExplained'
    BY <1>0, <2>1, <2>2 DEF RedisStaleExplained, Stale
  <2> QED BY <1>0, <2>1, <2>2, <2>3, <2>4 DEF RedisInv, RedisType
<1>7. ASSUME NEW c \in Clients, NEW row \in Rows,
             NEW from \in {"points", "badges", "levels"},
             NEW to \in {"badges", "levels", "store"},
             ReadBy(to) = ReadBy(from) \cup {row},
             RedisRead(c, from, row, to)
      PROVE  RedisInv'
  <2>1. rcall[c] \in RedisCall /\ rcall[c].pc = from /\ UNCHANGED <<keys, blob>>
    BY <1>0, <1>7 DEF RedisRead
  <2>2. /\ rcall'[c] = [[rcall[c] EXCEPT !.got[row] = keys[row]] EXCEPT !.pc = to]
        /\ \A d \in Clients \ {c} : rcall'[d] = rcall[d]
    BY <1>0, <1>7 DEF RedisRead
  <2>3. rcall'[c] \in RedisCall /\ rcall'[c].pc = to /\ rcall'[c].suspect = rcall[c].suspect
    <3>1. [rcall[c].got EXCEPT ![row] = keys[row]] \in State
      BY <1>0, <2>1 DEF RedisCall, State
    <3>2. /\ DOMAIN rcall'[c] = {"pc", "got", "suspect"}
          /\ rcall'[c].got = [rcall[c].got EXCEPT ![row] = keys[row]]
          /\ rcall'[c].pc = to
          /\ rcall'[c].suspect = rcall[c].suspect
      BY <2>1, <2>2 DEF RedisCall
    <3>3. rcall'[c] = [pc |-> to, got |-> [rcall[c].got EXCEPT ![row] = keys[row]],
                       suspect |-> rcall[c].suspect]
      BY Zenon, <2>1, <2>2 DEF RedisCall
    <3> QED BY <2>1, <3>1, <3>2, <3>3 DEF RedisCall
  <2>4. \A r \in Rows : rcall'[c].got[r] = IF r = row THEN keys[row] ELSE rcall[c].got[r]
    BY <2>1, <2>2 DEF RedisCall, State
  <2>5. Gathered(rcall'[c], keys')
    BY <1>0, <1>7, <2>1, <2>3, <2>4 DEF Gathered, ReadBy, Rows
  <2>6. rcall' \in [Clients -> RedisCall]
    BY <1>0, <1>7, <2>2, <2>3 DEF RedisRead
  <2>7. RedisStaleExplained'
    BY <1>0, <2>1, <2>2, <2>3 DEF RedisStaleExplained, Stale
  <2> QED BY <1>0, <2>1, <2>2, <2>5, <2>6, <2>7 DEF RedisInv, RedisType
<1>8. ASSUME NEW c \in Clients, NEW from \in {"points", "badges", "levels"},
             NEW to \in {"badges", "levels", "store"}, RedisSkip(c, from, to)
      PROVE  RedisInv'
  <2>1. /\ rcall[c] \in RedisCall /\ rcall[c].pc = from /\ UNCHANGED <<keys, blob>>
        /\ rcall' = [rcall EXCEPT ![c].suspect = TRUE, ![c].pc = to]
    BY <1>0, <1>8 DEF RedisSkip
  <2>2. /\ rcall'[c] = [[rcall[c] EXCEPT !.suspect = TRUE] EXCEPT !.pc = to]
        /\ \A d \in Clients \ {c} : rcall'[d] = rcall[d]
    BY <1>0, <2>1
  <2>3. rcall'[c] \in RedisCall /\ rcall'[c].suspect
    BY Zenon, <1>0, <2>1, <2>2 DEF RedisCall
  <2>4. rcall' \in [Clients -> RedisCall]
    BY <1>0, <2>1, <2>2, <2>3
  <2>5. RedisStaleExplained'
    BY <1>0, <2>1, <2>2 DEF RedisStaleExplained, Stale
  <2>6. \A d \in Clients : Gathered(rcall'[d], keys')
    <3>1. Gathered(rcall'[c], keys')
      BY <2>3 DEF Gathered
    <3> QED BY <1>0, <2>1, <2>2, <3>1
  <2> QED BY <1>0, <2>1, <2>4, <2>5, <2>6 DEF RedisInv, RedisType
<1>9. ASSUME NEW c \in Clients, RedisStoreState(c) PROVE RedisInv'
  <2>1. /\ rcall[c] \in RedisCall /\ rcall[c].pc = "store"
        /\ rcall' = [rcall EXCEPT ![c] = RedisIdle]
        /\ blob' = [state |-> rcall[c].got, excused |-> rcall[c].suspect, ttl |-> TRUE]
        /\ UNCHANGED keys
    BY <1>0, <1>9 DEF RedisStoreState
  <2>2. /\ rcall' \in [Clients -> RedisCall]
        /\ \A d \in Clients : Gathered(rcall'[d], keys')
    BY <1>0, <2>1, IdleType
  <2>3. blob' \in Blob
    BY <2>1 DEF RedisCall, Blob
  <2>4. ~rcall[c].suspect => rcall[c].got = keys
    <3>1. ReadBy("store") = Rows
      BY DEF ReadBy
    <3>2. ~rcall[c].suspect => \A r \in Rows : rcall[c].got[r] = keys[r]
      BY <1>0, <2>1, <3>1 DEF Gathered
    <3>3. rcall[c].got \in State
      BY <2>1 DEF RedisCall
    <3> QED BY <1>0, <3>2, <3>3 DEF State
  <2>5. RedisStaleExplained'
    BY <2>1, <2>4 DEF RedisStaleExplained, Stale
  <2> QED BY <1>0, <2>1, <2>2, <2>3, <2>5 DEF RedisInv, RedisType
<1>10. ASSUME NEW c \in Clients, RedisStoreFails(c) \/ RedisKeysFail(c) PROVE RedisInv'
  <2>1. /\ rcall[c] \in RedisCall /\ rcall[c].pc # "invalidate"
        /\ rcall' = [rcall EXCEPT ![c] = RedisIdle]
        /\ UNCHANGED <<keys, blob>>
    BY <1>0, <1>10 DEF RedisStoreFails, RedisKeysFail
  <2>2. /\ rcall' \in [Clients -> RedisCall]
        /\ \A d \in Clients : Gathered(rcall'[d], keys')
    BY <1>0, <2>1, IdleType
  <2>3. RedisStaleExplained'
    BY <1>0, <2>1 DEF RedisStaleExplained, Stale
  <2> QED BY <1>0, <2>1, <2>2, <2>3 DEF RedisInv, RedisType
<1>11. ASSUME NEW c \in Clients, RedisAdvance(c) PROVE RedisInv'
  <2>1. CASE RedisRead(c, "points", "points", "badges")
    BY <1>7, <2>1 DEF ReadBy, Rows
  <2>2. CASE RedisRead(c, "badges", "badge", "levels")
    BY <1>7, <2>2 DEF ReadBy, Rows
  <2>3. CASE RedisRead(c, "levels", "level", "store")
    BY <1>7, <2>3 DEF ReadBy, Rows
  <2> QED BY <1>5, <1>9, <1>11, <2>1, <2>2, <2>3 DEF RedisAdvance
<1>12. ASSUME NEW c \in Clients, RedisFault(c) PROVE RedisInv'
  BY <1>4, <1>5, <1>6, <1>8, <1>10, <1>12 DEF RedisFault
<1> QED BY <1>1, <1>2, <1>3, <1>6, <1>11, <1>12 DEF RedisNext

(* The cached blob of redis.Store disagrees with the keys only while a      *)
(* writer has still to delete it, or because a write overtook its reader,   *)
(* its reader skipped a row or a deletion failed: there is no fourth way.   *)
THEOREM StalenessIsExplained == RedisSpec => []RedisStaleExplained
<1>1. RedisInv => RedisStaleExplained
  BY DEF RedisInv
<1> QED BY <1>1, RedisInvInit, RedisInvNext, PTL DEF RedisSpec

-----------------------------------------------------------------------------
(* adapters/jsonfile                                                        *)

(* The change being saved is an operation applied to what was there before, *)
(* and the temporary file that is renamed holds the whole of it.            *)
FileInv ==
  /\ data \in State
  /\ file \in State
  /\ tmp \in State \cup {Torn}
  /\ saving \in [pc : FileStep, before : State]
  /\ saving.pc \in {"write", "rename"} =>
       \E op \in Op : /\ ~Refused(op, saving.before[op.row])
                      /\ data = Apply(op, saving.before)
  /\ saving.pc = "rename" => tmp = data

(* The contract speaks of the same operations.                              *)
LEMMA SameOperations ==
  /\ C!Op = Op
  /\ C!NoRecord = NoRecord
  /\ \A op, st : C!Apply(op, st) = Apply(op, st)
  /\ \A op, v : C!Refused(op, v) <=> Refused(op, v)
BY DEF C!Op, Op, C!NoRecord, NoRecord, C!Rows, Rows, C!Apply, Apply, C!NewValue,
       NewValue, C!ValueOrZero, ValueOrZero, C!Refused, Refused, C!Overflows,
       Overflows, C!MinInt, MinInt

(* The invariant holds before the first call.                               *)
LEMMA FileInvInit == FileInit => FileInv
BY SMTT(30), NoRecordType DEF FileInit, FileInv, Released, FileStep

(* Every step of the adapter, crashes included, keeps the invariant.        *)
LEMMA FileInvNext == FileInv /\ [FileNext]_fileVars => FileInv'
<1> SUFFICES ASSUME FileInv, [FileNext]_fileVars PROVE FileInv'
  OBVIOUS
<1> USE NoRecordType DEF FileInv, FileStep, Released
<1>1. CASE \E op \in Op : FileChange(op)
  <2>1. PICK op \in Op : FileChange(op)
    BY <1>1
  <2>2. data' \in State
    BY <2>1, ApplyType DEF FileChange
  <2>3. /\ saving' = [pc |-> "write", before |-> data]
        /\ ~Refused(op, data[op.row])
        /\ data' = Apply(op, data)
        /\ UNCHANGED <<tmp, file>>
    BY <2>1 DEF FileChange
  <2> QED BY <2>2, <2>3
<1>2. CASE FileWrite
  BY <1>2 DEF FileWrite
<1>3. CASE FileRename
  BY <1>3 DEF FileRename
<1>4. CASE FileReturn
  BY <1>4 DEF FileReturn
<1>5. CASE FileCrash
  BY <1>5 DEF FileCrash
<1>6. CASE FileNew
  BY <1>6 DEF FileNew
<1>7. CASE UNCHANGED fileVars
  BY <1>7 DEF fileVars
<1> QED BY <1>1, <1>2, <1>3, <1>4, <1>5, <1>6, <1>7 DEF FileNext

(* Each step of the adapter is a step of the contract or leaves what the    *)
(* contract sees alone: a failing save is FailShown, a rename is Do, the    *)
(* end of the process is Restart.                                           *)
LEMMA FileStepsKeepContract ==
  FileInv /\ [FileNext]_fileVars => [C!Next]_<<Shown, file>>
<1> SUFFICES ASSUME FileInv, [FileNext]_fileVars PROVE [C!Next]_<<Shown, file>>
  OBVIOUS
<1> USE DEF FileInv, FileStep
<1>0. ASSUME saving.pc \in {"write", "rename"}, Shown = saving.before, Shown' = data,
             UNCHANGED file \/ file' = data
      PROVE  C!Next
  <2>1. PICK op \in Op : /\ ~Refused(op, saving.before[op.row])
                         /\ data = Apply(op, saving.before)
    BY <1>0
  <2>2. /\ ~C!Refused(op, Shown[op.row])
        /\ Shown' = C!Apply(op, Shown)
    BY <1>0, <2>1, SameOperations
  <2>3. CASE UNCHANGED file
    <3>1. C!FailShown(op)
      BY <2>2, <2>3 DEF C!FailShown
    <3> QED BY <3>1, SameOperations DEF C!Next
  <2>4. CASE file' = data
    <3>1. C!Do(op)
      BY Zenon, <1>0, <2>2, <2>4 DEF C!Do
    <3> QED BY <3>1, SameOperations DEF C!Next
  <2> QED BY <1>0, <2>3, <2>4
<1>1. ASSUME NEW op \in Op, FileChange(op) PROVE UNCHANGED <<Shown, file>>
  BY <1>1 DEF FileChange, Shown
<1>2. CASE FileWrite
  <2>1. CASE saving'.pc = "rename"
    BY <1>2, <2>1 DEF FileWrite, Shown, Released
  <2>2. CASE saving'.pc = "idle"
    <3>1. Shown = saving.before /\ Shown' = data /\ UNCHANGED file
      BY <1>2, <2>2 DEF FileWrite, Shown
    <3> QED BY <1>0, <1>2, <3>1 DEF FileWrite
  <2> QED BY <1>2, <2>1, <2>2 DEF FileWrite, Released
<1>3. CASE FileRename
  <2>1. /\ Shown = saving.before
        /\ Shown' = data
        /\ UNCHANGED file \/ file' = data
    BY <1>3 DEF FileRename, Shown, Released
  <2> QED BY <1>0, <1>3, <2>1 DEF FileRename
<1>4. CASE FileReturn
  BY <1>4 DEF FileReturn, Shown, Released
<1>5. CASE FileCrash
  <2>1. Shown' = file /\ UNCHANGED file
    BY <1>5 DEF FileCrash, Shown, Released
  <2> QED BY <2>1 DEF C!Next, C!Restart
<1>6. CASE FileNew
  BY <1>6 DEF FileNew, Shown, Released
<1>7. CASE UNCHANGED fileVars
  BY <1>7 DEF fileVars, Shown
<1> QED BY <1>1, <1>2, <1>3, <1>4, <1>5, <1>6, <1>7 DEF FileNext

(* jsonfile.Store is a durable Storage: whatever step a crash hits, what    *)
(* was acknowledged is there after the restart, and nothing half done is.   *)
THEOREM FileContractKept == FileSpec => FileKeepsContract
<1>1. FileInit => C!Init
  BY SameOperations DEF FileInit, C!Init, Shown, Released
<1> QED
  BY <1>1, FileInvInit, FileInvNext, FileStepsKeepContract, PTL
     DEF FileSpec, FileKeepsContract, C!Spec

-----------------------------------------------------------------------------
(* gamify.inMemoryFallback                                                  *)

FbCall ==
  [pc : {"idle", "newstore", "map", "newmap", "find", "newrecord", "read", "write"},
   op : Op \cup {ReadOnly}, store : Numbers \cup {Nil}, rec : Numbers \cup {Nil},
   next : Int \cup {Absent}]

(* A call in progress has a store and a record.                             *)
FbPlace(f) ==
  /\ f.pc # "idle" => f.store \in Numbers /\ f.rec \in Numbers
  /\ f.pc = "write" => f.op \in Op /\ f.next \in Int

FbType ==
  /\ mem \in Numbers \cup {Nil}
  /\ mapped \in [Numbers -> BOOLEAN]
  /\ entry \in [Numbers -> Numbers \cup {Nil}]
  /\ record \in [Numbers -> State]
  /\ fcall \in [Clients -> FbCall]
  /\ \A c \in Clients : FbPlace(fcall[c])
  /\ fbCalls \in Nat
  /\ fbAcked \in Int
  /\ overlapped \in BOOLEAN

(* There is no entry without a map and no map without a store, and what a   *)
(* later call will create has not been written.                             *)
FbFresh ==
  /\ mem = Nil => \A s \in Numbers : entry[s] = Nil
  /\ \A s \in Numbers : ~mapped[s] => entry[s] = Nil
  /\ \A s \in Numbers : entry[s] <= fbCalls
  /\ \A n \in Numbers : n > fbCalls => record[n] = NoRecord

(* A lone call works on the store and on the record that others would find, *)
(* and is about to write the sum of its delta and what is there.            *)
FbAlone(c) ==
  LET f == fcall[c]
  IN  /\ f.pc # "idle" => f.rec <= fbCalls
      /\ f.pc = "newstore" => mem = Nil
      /\ f.pc \notin {"idle", "newstore"} => f.store = mem /\ mem \in Numbers
      /\ f.pc = "newmap" => ~mapped[mem]
      /\ f.pc \in {"find", "newrecord", "read", "write"} => mapped[mem]
      /\ f.pc = "newrecord" => entry[mem] = Nil
      /\ f.pc \in {"newstore", "map", "newmap", "find", "newrecord"} => record[f.rec] = NoRecord
      /\ f.pc \in {"read", "write"} => f.rec = entry[mem]
      /\ f.pc = "write" => /\ f.op \in Op
                           /\ f.next = NewValue(f.op, record[f.rec][f.op.row])

FbInv ==
  /\ FbType
  /\ ~overlapped => /\ ~faulted
                    /\ \A c, d \in Running : c = d
                    /\ \A c \in Clients : FbAlone(c)
                    /\ FbFresh
                    /\ FbTotal = fbAcked

(* A client with no call, and the numbers of calls.                         *)
LEMMA FbIdleType ==
  /\ FbIdle \in FbCall /\ FbPlace(FbIdle) /\ FbIdle.pc = "idle" /\ ReadOnly \notin Op
  /\ Nil \notin Numbers /\ Numbers \subseteq Nat
BY OpType, StorageAssumption DEF FbIdle, FbCall, FbPlace, ReadOnly, Rows, Nil, Numbers

(* The invariant holds before the first call.                               *)
LEMMA FbInvInit == FbInit => FbInv
<1> SUFFICES ASSUME FbInit PROVE FbInv
  OBVIOUS
<1>1. FbType
  <2>1. fcall \in [Clients -> FbCall] /\ \A c \in Clients : FbPlace(fcall[c])
    BY FbIdleType DEF FbInit
  <2>2. record \in [Numbers -> State]
    BY NoRecordType DEF FbInit
  <2>3. entry \in [Numbers -> Numbers \cup {Nil}] /\ mem \in Numbers \cup {Nil}
    BY DEF FbInit
  <2>4. fbAcked \in Int /\ fbCalls \in Nat
    BY DEF FbInit
  <2>5. overlapped \in BOOLEAN /\ mapped \in [Numbers -> BOOLEAN]
    BY Zenon DEF FbInit
  <2> QED BY <2>1, <2>2, <2>3, <2>4, <2>5 DEF FbType
<1>2. Running = {} /\ \A c \in Clients : fcall[c].pc = "idle"
  BY FbIdleType DEF FbInit, Running
<1>3. FbFresh /\ FbTotal = fbAcked
  BY DEF FbInit, FbFresh, FbTotal, Nil
<1> QED BY <1>1, <1>2, <1>3 DEF FbInit, FbInv, FbAlone

(* A step of one call leaves the others where they are, so that a lone call *)
(* stays alone.                                                             *)
LEMMA FbCallStep ==
  ASSUME FbInv, NEW c \in Clients, NEW f \in FbCall, FbPlace(f),
         fcall[c].pc # "idle" \/ Running = {}, fcall' = [fcall EXCEPT ![c] = f]
  PROVE  /\ fcall' \in [Clients -> FbCall] /\ fcall'[c] = f
         /\ \A d \in Clients : FbPlace(fcall'[d])
         /\ ~overlapped => /\ \A a, b \in Running' : a = b
                           /\ \A d \in Clients : d # c => fcall'[d].pc = "idle"
<1>1. fcall' \in [Clients -> FbCall] /\ fcall'[c] = f
      /\ \A d \in Clients : d # c => fcall'[d] = fcall[d]
  BY DEF FbInv, FbType
<1>2. ASSUME ~overlapped, NEW d \in Clients, d # c PROVE fcall'[d].pc = "idle"
  BY <1>1, <1>2 DEF FbInv, Running
<1>3. ASSUME ~overlapped, NEW a \in Running', NEW b \in Running' PROVE a = b
  BY <1>2, <1>3 DEF Running
<1>4. ASSUME NEW d \in Clients PROVE FbPlace(fcall'[d])
  BY <1>1 DEF FbInv, FbType
<1> QED BY <1>1, <1>2, <1>3, <1>4

(* What the steps of a call do keeps the invariant.                         *)
LEMMA FbAdvanceKeeps ==
  ASSUME FbInv, NEW c \in Clients, FbAdvance(c)
  PROVE  FbInv'
<1> DEFINE f == fcall[c]
           g == fcall'[c]
<1>0. /\ f \in FbCall /\ FbPlace(f) /\ f.pc # "idle" /\ c \in Running
      /\ f.store \in Numbers /\ f.rec \in Numbers
      /\ overlapped' = overlapped /\ faulted' = faulted /\ fbCalls' = fbCalls
  BY DEF FbInv, FbType, FbPlace, FbAdvance, FbNewStore, FbMap, FbNewMap, FbFind, FbNewRecord,
         FbRead, FbWrite, At, Running
<1>1. ASSUME FbType', ~overlapped => FbAlone(c)' /\ FbFresh' /\ FbTotal' = fbAcked',
             \E h \in FbCall : FbPlace(h) /\ fcall' = [fcall EXCEPT ![c] = h]
      PROVE  FbInv'
  <2>1. PICK h \in FbCall : FbPlace(h) /\ fcall' = [fcall EXCEPT ![c] = h]
    BY Zenon, <1>1
  <2>2. ~overlapped => /\ \A a, b \in Running' : a = b
                       /\ \A d \in Clients : d # c => fcall'[d].pc = "idle"
    BY ZenonT(40), <1>0, <2>1, FbCallStep
  <2>3. ASSUME ~overlapped, NEW d \in Clients PROVE FbAlone(d)'
    BY <1>1, <2>2, <2>3 DEF FbAlone
  <2> QED BY <1>0, <1>1, <2>2, <2>3 DEF FbInv
<1>2. ASSUME NEW pc \in {"map", "newmap", "find", "newrecord", "read"},
             fcall' = [fcall EXCEPT ![c].pc = pc], f.pc # "write"
      PROVE  /\ \E h \in FbCall : FbPlace(h) /\ fcall' = [fcall EXCEPT ![c] = h]
             /\ fcall' \in [Clients -> FbCall] /\ \A d \in Clients : FbPlace(fcall'[d])
             /\ g.pc = pc /\ g.store = f.store /\ g.rec = f.rec /\ g.op = f.op
  <2> DEFINE h == [f EXCEPT !.pc = pc]
  <2>1. h \in FbCall /\ h.pc = pc /\ h.store = f.store /\ h.rec = f.rec /\ h.op = f.op
    BY <1>0, <1>2 DEF FbCall
  <2>2. fcall' = [fcall EXCEPT ![c] = h]
    BY <1>2
  <2> HIDE DEF h
  <2>3. FbPlace(h)
    BY <1>0, <1>2, <2>1 DEF FbPlace
  <2>4. fcall' \in [Clients -> FbCall] /\ g = h /\ \A d \in Clients : FbPlace(fcall'[d])
    BY ZenonT(40), <1>0, <2>1, <2>2, <2>3, FbCallStep
  <2> QED BY Zenon, <2>1, <2>2, <2>3, <2>4
<1>3. CASE FbNewStore(c)
  <2>1. /\ f.pc = "newstore" /\ mem' = f.store /\ fcall' = [fcall EXCEPT ![c].pc = "map"]
        /\ UNCHANGED <<mapped, entry, record, fbAcked>>
    BY <1>3 DEF FbNewStore, At
  <2>2. FbType'
    BY Zenon, <1>0, <1>2, <2>1 DEF FbInv, FbType
  <2>3. ASSUME ~overlapped PROVE FbAlone(c)' /\ FbFresh' /\ FbTotal' = fbAcked'
    <3>1. mem = Nil /\ FbAlone(c) /\ FbFresh /\ FbTotal = fbAcked /\ entry[f.store] = Nil
      BY <1>0, <2>1, <2>3 DEF FbInv, FbAlone, FbFresh
    <3>2. FbTotal' = fbAcked'
      BY <2>1, <3>1 DEF FbTotal
    <3>3. FbFresh'
      BY <1>0, <2>1, <3>1 DEF FbFresh
    <3>4. FbAlone(c)'
      BY <1>0, <1>2, <2>1, <3>1 DEF FbAlone
    <3> QED BY <3>2, <3>3, <3>4
  <2> QED BY Zenon, <1>1, <1>2, <2>1, <2>2, <2>3
<1>4. CASE FbMap(c)
  <2>1. PICK pc \in {"find", "newmap"} :
          /\ f.pc = "map" /\ fcall' = [fcall EXCEPT ![c].pc = pc]
          /\ pc = "find" => mapped[f.store]
          /\ pc = "newmap" => ~mapped[f.store]
          /\ UNCHANGED <<mem, mapped, entry, record, fbAcked>>
    BY <1>4 DEF FbMap, At
  <2>2. FbType'
    BY Zenon, <1>0, <1>2, <2>1 DEF FbInv, FbType
  <2>3. ASSUME ~overlapped PROVE FbAlone(c)' /\ FbFresh' /\ FbTotal' = fbAcked'
    <3>1. FbAlone(c) /\ FbFresh /\ FbTotal = fbAcked
      BY <2>3 DEF FbInv
    <3>2. FbTotal' = fbAcked' /\ FbFresh'
      BY <1>0, <2>1, <3>1 DEF FbTotal, FbFresh
    <3>3. FbAlone(c)'
      BY <1>0, <1>2, <2>1, <3>1 DEF FbAlone
    <3> QED BY <3>2, <3>3
  <2> QED BY Zenon, <1>1, <1>2, <2>1, <2>2, <2>3
<1>5. CASE FbNewMap(c)
  <2>1. /\ f.pc = "newmap" /\ fcall' = [fcall EXCEPT ![c].pc = "find"]
        /\ mapped' = [mapped EXCEPT ![f.store] = TRUE]
        /\ entry' = [entry EXCEPT ![f.store] = Nil]
        /\ UNCHANGED <<mem, record, fbAcked>>
    BY <1>5 DEF FbNewMap, At
  <2>2. FbType'
    <3>1. mapped' \in [Numbers -> BOOLEAN] /\ entry' \in [Numbers -> Numbers \cup {Nil}]
      BY Zenon, <2>1 DEF FbInv, FbType
    <3> QED BY Zenon, <1>0, <1>2, <2>1, <3>1 DEF FbInv, FbType
  <2>3. ASSUME ~overlapped PROVE FbAlone(c)' /\ FbFresh' /\ FbTotal' = fbAcked'
    <3>1. FbAlone(c) /\ FbFresh /\ FbTotal = fbAcked
      BY <2>3 DEF FbInv
    <3>2. f.store = mem /\ mem \in Numbers /\ ~mapped[mem] /\ entry[mem] = Nil
      BY <2>1, <3>1 DEF FbAlone, FbFresh
    <3>3. entry' = entry
      BY <2>1, <3>2 DEF FbInv, FbType
    <3>4. mapped'[mem] /\ \A s \in Numbers : ~mapped'[s] => ~mapped[s]
      BY Zenon, <2>1, <3>2 DEF FbInv, FbType
    <3>5. FbTotal' = fbAcked' /\ FbFresh'
      BY <1>0, <2>1, <3>1, <3>3, <3>4 DEF FbTotal, FbFresh
    <3>6. FbAlone(c)'
      BY <1>0, <1>2, <2>1, <3>1, <3>4 DEF FbAlone
    <3> QED BY <3>5, <3>6
  <2> QED BY Zenon, <1>1, <1>2, <2>1, <2>2, <2>3
<1>6. CASE FbFind(c)
  <2> DEFINE r == entry[f.store]
             h == [f EXCEPT !.pc = "read", !.rec = r]
  <2>1. /\ f.pc = "find"
        /\ UNCHANGED <<mem, mapped, entry, record, fbAcked>>
        /\ r \in Numbers \cup {Nil}
    BY <1>0, <1>6 DEF FbFind, At, FbInv, FbType
  <2>2. CASE r = Nil /\ fcall' = [fcall EXCEPT ![c].pc = "newrecord"]
    <3>1. FbType'
      BY Zenon, <1>0, <1>2, <2>1, <2>2 DEF FbInv, FbType
    <3>2. ASSUME ~overlapped PROVE FbAlone(c)' /\ FbFresh' /\ FbTotal' = fbAcked'
      <4>1. FbAlone(c) /\ FbFresh /\ FbTotal = fbAcked
        BY <3>2 DEF FbInv
      <4>2. FbTotal' = fbAcked' /\ FbFresh'
        BY <1>0, <2>1, <4>1 DEF FbTotal, FbFresh
      <4>3. FbAlone(c)'
        BY <1>0, <1>2, <2>1, <2>2, <4>1 DEF FbAlone
      <4> QED BY <4>2, <4>3
    <3> QED BY Zenon, <1>1, <1>2, <2>1, <2>2, <3>1, <3>2
  <2>3. CASE r # Nil /\ fcall' = [fcall EXCEPT ![c] = h]
    <3>1. /\ h \in FbCall /\ FbPlace(h)
          /\ h.pc = "read" /\ h.store = f.store /\ h.rec = r
      <4> HIDE DEF r
      <4> QED BY Zenon, <1>0, <2>1, <2>3 DEF FbCall, FbPlace
    <3> HIDE DEF h
    <3>2. fcall' \in [Clients -> FbCall] /\ g = h /\ \A d \in Clients : FbPlace(fcall'[d])
      BY ZenonT(40), <1>0, <2>3, <3>1, FbCallStep
    <3>3. FbType'
      BY Zenon, <1>0, <2>1, <3>2 DEF FbInv, FbType
    <3>4. ASSUME ~overlapped PROVE FbAlone(c)' /\ FbFresh' /\ FbTotal' = fbAcked'
      <4>1. FbAlone(c) /\ FbFresh /\ FbTotal = fbAcked
        BY <3>4 DEF FbInv
      <4>2. f.store = mem /\ mem \in Numbers /\ mapped[mem] /\ r <= fbCalls
        BY <1>0, <2>1, <4>1 DEF FbAlone, FbFresh
      <4>3. FbTotal' = fbAcked' /\ FbFresh'
        BY <1>0, <2>1, <4>1 DEF FbTotal, FbFresh
      <4>4. FbAlone(c)'
        BY <1>0, <2>1, <3>1, <3>2, <4>2 DEF FbAlone
      <4> QED BY <4>3, <4>4
    <3> QED BY Zenon, <1>1, <2>3, <3>1, <3>3, <3>4
  <2>4. r # Nil => [fcall EXCEPT ![c].pc = "read", ![c].rec = r] = [fcall EXCEPT ![c] = h]
    BY Zenon DEF FbInv, FbType
  <2> QED BY Zenon, <1>6, <2>2, <2>3, <2>4 DEF FbFind
<1>7. CASE FbNewRecord(c)
  <2>1. /\ f.pc = "newrecord" /\ fcall' = [fcall EXCEPT ![c].pc = "read"]
        /\ entry' = [entry EXCEPT ![f.store] = f.rec]
        /\ UNCHANGED <<mem, mapped, record, fbAcked>>
    BY <1>7 DEF FbNewRecord, At
  <2>2. FbType'
    <3>1. entry' \in [Numbers -> Numbers \cup {Nil}]
      BY Zenon, <1>0, <2>1 DEF FbInv, FbType
    <3> QED BY Zenon, <1>0, <1>2, <2>1, <3>1 DEF FbInv, FbType
  <2>3. ASSUME ~overlapped PROVE FbAlone(c)' /\ FbFresh' /\ FbTotal' = fbAcked'
    <3>1. FbAlone(c) /\ FbFresh /\ FbTotal = fbAcked
      BY <2>3 DEF FbInv
    <3>2. /\ f.store = mem /\ mem \in Numbers /\ entry[mem] = Nil /\ mapped[mem]
          /\ record[f.rec] = NoRecord /\ f.rec <= fbCalls
      BY <1>0, <2>1, <3>1 DEF FbAlone
    <3>3. entry'[mem] = f.rec /\ \A s \in Numbers : s # mem => entry'[s] = entry[s]
      BY <2>1, <3>2 DEF FbInv, FbType
    <3>4. FbTotal = 0 /\ record[f.rec]["points"] = Absent
      BY <3>2, NoRecordType DEF FbTotal, Rows
    <3>5. FbTotal' = 0
      BY <1>0, <2>1, <3>2, <3>3, <3>4, FbIdleType DEF FbTotal, ValueOrZero
    <3>6. FbFresh'
      BY <1>0, <2>1, <3>1, <3>2, <3>3, FbIdleType DEF FbFresh
    <3>7. FbAlone(c)'
      BY <1>0, <1>2, <2>1, <3>2, <3>3 DEF FbAlone
    <3> QED BY <2>1, <3>1, <3>4, <3>5, <3>6, <3>7
  <2> QED BY Zenon, <1>1, <1>2, <2>1, <2>2, <2>3
<1>8. CASE FbRead(c)
  <2> DEFINE v == record[f.rec][f.op.row]
             w == [f EXCEPT !.pc = "write", !.next = NewValue(f.op, v)]
             h == IF f.op = ReadOnly \/ Refused(f.op, v) THEN FbIdle ELSE w
  <2>1. /\ f.pc = "read" /\ fcall' = [fcall EXCEPT ![c] = h]
        /\ UNCHANGED <<mem, mapped, entry, record, fbAcked>>
    BY <1>8 DEF FbRead, At
  <2>2. f.op # ReadOnly => f.op \in Op
    BY <1>0 DEF FbCall
  <2>3. f.op # ReadOnly => v \in Int \cup {Absent} /\ NewValue(f.op, v) \in Int
    <3>1. record[f.rec] \in State
      BY <1>0 DEF FbInv, FbType
    <3> QED BY Zenon, <2>2, <3>1, OpType, NewValueType DEF State
  <2> HIDE DEF v
  <2>4. f.op # ReadOnly => /\ w \in FbCall /\ FbPlace(w) /\ w.pc = "write"
                           /\ w.next = NewValue(f.op, v)
                           /\ w.op = f.op /\ w.store = f.store /\ w.rec = f.rec
    BY Zenon, <1>0, <2>1, <2>2, <2>3 DEF FbCall, FbPlace
  <2> HIDE DEF w
  <2>5. h \in FbCall /\ FbPlace(h)
    BY <2>4, FbIdleType
  <2>6. fcall' \in [Clients -> FbCall] /\ g = h /\ \A d \in Clients : FbPlace(fcall'[d])
    BY ZenonT(40), <1>0, <2>1, <2>5, FbCallStep
  <2>7. FbType'
    BY <1>0, <2>1, <2>6 DEF FbInv, FbType
  <2>8. ASSUME ~overlapped PROVE FbAlone(c)' /\ FbFresh' /\ FbTotal' = fbAcked'
    <3>1. f.store = mem /\ mem \in Numbers /\ f.rec = entry[mem] /\ f.rec <= fbCalls
          /\ mapped[mem]
      BY <1>0, <2>1, <2>8 DEF FbInv, FbAlone
    <3>2. h = FbIdle \/ (h = w /\ f.op # ReadOnly)
      OBVIOUS
    <3>3. CASE h = FbIdle
      BY ZenonT(40), <1>0, <2>1, <2>6, <2>8, <3>3, FbIdleType DEF FbInv, FbAlone, FbFresh, FbTotal
    <3>4. CASE h = w /\ f.op # ReadOnly
      <4>1. v = record[f.rec][f.op.row]
        BY Zenon DEF v
      <4>2. FbAlone(c)'
        BY ZenonT(40), <1>0, <2>1, <2>2, <2>4, <2>6, <3>1, <3>4, <4>1 DEF FbAlone
      <4> QED BY Zenon, <1>0, <2>1, <2>8, <4>2 DEF FbInv, FbFresh, FbTotal
    <3> QED BY Zenon, <3>2, <3>3, <3>4
  <2> QED BY ZenonT(40), <1>1, <2>1, <2>5, <2>7, <2>8
<1>9. CASE FbWrite(c)
  <2> DEFINE sum == IF f.op.row = "points" THEN f.op.arg ELSE 0
  <2>1. /\ f.pc = "write" /\ fcall' = [fcall EXCEPT ![c] = FbIdle]
        /\ record' = [record EXCEPT ![f.rec][f.op.row] = f.next]
        /\ entry' = [entry EXCEPT ![f.store] = f.rec]
        /\ fbAcked' = fbAcked + sum
        /\ mem' = mem /\ mapped' = mapped
    BY <1>9 DEF FbWrite, At
  <2>2. /\ f.op \in Op /\ f.next \in Int
        /\ f.op.row \in Rows /\ f.op.arg \in Int /\ sum \in Int
    BY <1>0, <2>1, OpType DEF FbPlace
  <2>3. fcall' \in [Clients -> FbCall] /\ g = FbIdle /\ \A d \in Clients : FbPlace(fcall'[d])
    BY Zenon, <1>0, <2>1, FbIdleType, FbCallStep
  <2>4. record' \in [Numbers -> State]
    BY Zenon, <1>0, <2>1, <2>2 DEF FbInv, FbType, State
  <2> HIDE DEF sum
  <2>5. FbType'
    <3>1. /\ mem \in Numbers \cup {Nil} /\ entry \in [Numbers -> Numbers \cup {Nil}]
          /\ mapped \in [Numbers -> BOOLEAN] /\ fbCalls \in Nat
          /\ fbAcked \in Int /\ overlapped \in BOOLEAN
      BY Zenon DEF FbInv, FbType
    <3>2. entry' \in [Numbers -> Numbers \cup {Nil}]
      BY <1>0, <2>1, <3>1
    <3>3. fbAcked' \in Int
      BY <2>1, <2>2, <3>1
    <3>4. mem' = mem /\ mapped' = mapped /\ overlapped' = overlapped /\ fbCalls' = fbCalls
      BY Zenon, <1>0, <2>1
    <3> QED BY Zenon, <2>3, <2>4, <3>1, <3>2, <3>3, <3>4 DEF FbType
  <2>6. ASSUME ~overlapped PROVE FbAlone(c)' /\ FbFresh' /\ FbTotal' = fbAcked'
    <3> DEFINE old == record[f.rec]["points"]
    <3>1. /\ f.store = mem /\ mem \in Numbers /\ f.rec = entry[mem] /\ f.rec <= fbCalls
          /\ f.next = NewValue(f.op, record[f.rec][f.op.row])
      BY Zenon, <1>0, <2>1, <2>6 DEF FbInv, FbAlone
    <3>2. entry' = entry
      BY Zenon, <2>1, <3>1 DEF FbInv, FbType
    <3>3. mem # Nil /\ entry[mem] # Nil /\ entry[mem] = f.rec
      BY Zenon, <1>0, <3>1, FbIdleType
    <3>4. FbTotal = ValueOrZero(old) /\ FbTotal' = ValueOrZero(record'[f.rec]["points"])
      BY Zenon, <2>1, <3>2, <3>3 DEF FbTotal
    <3>5. old \in Int \cup {Absent} /\ record[f.rec] \in State
      BY SMTT(30), <1>0 DEF FbInv, FbType, State, Rows
    <3>6. record'[f.rec]["points"] = IF f.op.row = "points" THEN f.next ELSE old
      BY Zenon, <1>0, <2>1, <2>2, <3>1, <3>5 DEF FbInv, FbType, State, Rows
    <3>7. FbTotal' = FbTotal + sum
      <4>1. CASE f.op.row = "points"
        <5>1. f.next = ValueOrZero(old) + f.op.arg
          BY Zenon, <3>1, <4>1 DEF NewValue
        <5> HIDE DEF old
        <5> QED BY <2>2, <3>4, <3>6, <4>1, <5>1, StorageAssumption DEF ValueOrZero, sum
      <4>2. CASE f.op.row # "points"
        BY <3>4, <3>5, <3>6, <4>2, StorageAssumption DEF ValueOrZero, sum
      <4> QED BY Zenon, <4>1, <4>2
    <3>8. FbFresh'
      <4>1. ASSUME NEW n \in Numbers, n > fbCalls PROVE record'[n] = NoRecord
        <5>1. n # f.rec
          BY <3>1, <4>1, <1>0, FbIdleType DEF FbInv, FbType
        <5>2. record'[n] = record[n]
          BY <2>1, <4>1, <5>1 DEF FbInv, FbType
        <5> QED BY <2>6, <4>1, <5>2 DEF FbInv, FbFresh
      <4> QED BY Zenon, <1>0, <2>1, <2>6, <3>2, <3>3, <4>1 DEF FbInv, FbFresh
    <3>9. FbTotal = fbAcked
      BY <2>6 DEF FbInv
    <3> QED BY Zenon, <2>1, <2>3, <3>7, <3>8, <3>9, FbIdleType DEF FbAlone
  <2> QED BY Zenon, <1>1, <2>1, <2>5, <2>6, FbIdleType
<1> QED BY ZenonT(40), <1>3, <1>4, <1>5, <1>6, <1>7, <1>8, <1>9 DEF FbAdvance

(* A call that starts while none is running finds the store as it is.       *)
LEMMA FbStartKeeps ==
  ASSUME FbInv, NEW c \in Clients, NEW op \in Op \cup {ReadOnly}, FbStart(c, op)
  PROVE  FbInv'
<1> DEFINE n == fbCalls + 1
           h == [FbIdle EXCEPT !.pc = IF mem = Nil THEN "newstore" ELSE "map", !.op = op,
                               !.store = IF mem = Nil THEN n ELSE mem, !.rec = n]
<1>1. /\ fcall' = [fcall EXCEPT ![c] = h] /\ fbCalls' = n /\ fbCalls < MaxCalls
      /\ overlapped' = (overlapped \/ Running # {})
      /\ UNCHANGED <<mem, mapped, entry, record, fbAcked, faulted>>
  BY DEF FbStart
<1>2. fbCalls \in Nat /\ n \in Numbers /\ mem \in Numbers \cup {Nil}
  BY <1>1, StorageAssumption DEF FbInv, FbType, Numbers
<1>3. /\ h \in FbCall /\ FbPlace(h) /\ h.rec = n
      /\ \/ h.pc = "newstore" /\ mem = Nil
         \/ h.pc = "map" /\ h.store = mem /\ mem \in Numbers
  <2> HIDE DEF n
  <2>1. CASE mem = Nil
    <3>1. h = [FbIdle EXCEPT !.pc = "newstore", !.op = op, !.store = n, !.rec = n]
      BY Zenon, <2>1
    <3> HIDE DEF h
    <3> QED BY <1>2, <2>1, <3>1 DEF FbIdle, FbCall, FbPlace
  <2>2. CASE mem \in Numbers
    <3>1. h = [FbIdle EXCEPT !.pc = "map", !.op = op, !.store = mem, !.rec = n]
      BY Zenon, <2>2, FbIdleType
    <3> HIDE DEF h
    <3> QED BY <1>2, <2>2, <3>1 DEF FbIdle, FbCall, FbPlace
  <2> QED BY <1>2, <2>1, <2>2
<1> HIDE DEF h
<1>4. fcall' \in [Clients -> FbCall] /\ \A d \in Clients : FbPlace(fcall'[d])
  BY <1>1, <1>3 DEF FbInv, FbType
<1>5. FbType'
  <2>1. fbCalls' \in Nat
    BY <1>1, <1>2
  <2>2. overlapped' \in BOOLEAN
    BY Zenon, <1>1
  <2> QED BY Zenon, <1>1, <1>4, <2>1, <2>2 DEF FbInv, FbType
<1>6. ASSUME ~overlapped'
      PROVE  /\ ~faulted' /\ \A x, y \in Running' : x = y
             /\ \A d \in Clients : FbAlone(d)'
             /\ FbFresh' /\ FbTotal' = fbAcked'
  <2>1. ~overlapped /\ Running = {}
    BY Zenon, <1>1, <1>6 DEF FbInv, FbType
  <2>2. /\ fcall'[c] = h /\ \A x, y \in Running' : x = y
        /\ \A d \in Clients : d # c => fcall'[d].pc = "idle"
    BY ZenonT(40), <1>1, <1>3, <2>1, FbCallStep
  <2>3. FbFresh /\ record[n] = NoRecord
    BY <1>2, <2>1 DEF FbInv, FbFresh
  <2>4. FbAlone(c)'
    BY <1>1, <1>2, <1>3, <2>2, <2>3 DEF FbAlone
  <2>5. ASSUME NEW d \in Clients, d # c PROVE FbAlone(d)'
    BY <2>2, <2>5 DEF FbAlone
  <2>6. FbFresh'
    <3>1. entry \in [Numbers -> Numbers \cup {Nil}] /\ Numbers \cup {Nil} \subseteq Int
      BY FbIdleType DEF FbInv, FbType, Nil
    <3> QED BY <1>1, <1>2, <2>3, <3>1, FbIdleType DEF FbFresh
  <2> QED BY <1>1, <2>1, <2>2, <2>4, <2>5, <2>6 DEF FbInv, FbTotal
<1> QED BY <1>5, <1>6 DEF FbInv

(* Every step keeps the invariant; a fault needs two calls at once.         *)
LEMMA FbInvNext == FbInv /\ [FbNext]_fbVars => FbInv'
<1> SUFFICES ASSUME FbInv, [FbNext]_fbVars PROVE FbInv'
  OBVIOUS
<1>1. CASE FbFault
  <2>1. overlapped
    BY Zenon, <1>1 DEF FbFault, FbInv
  <2> QED BY Zenon, <1>1, <2>1 DEF FbFault, FbInv, FbType
<1>2. CASE UNCHANGED fbVars
  BY Zenon, <1>2 DEF fbVars, FbInv, FbType, FbAlone, FbFresh, FbTotal, Running
<1> QED BY <1>1, <1>2, FbAdvanceKeeps, FbStartKeeps DEF FbNext

(* The store gamify.New falls back to is right, without any lock, for calls *)
(* that do not overlap: no fault, and a total that is the sum of the        *)
(* additions that returned.                                                 *)
THEOREM FallbackIsSeriallySafe == FbSpec => []FallbackSerialSafe
<1>1. FbInv => FallbackSerialSafe
  BY DEF FbInv, FallbackSerialSafe
<1> QED BY <1>1, FbInvInit, FbInvNext, PTL DEF FbSpec

-----------------------------------------------------------------------------
(* The process                                                              *)

(* Whichever adapter the process has, what it does to the storage is what   *)
(* that adapter's specification allows, so what is proved of each adapter   *)
(* holds in the process.                                                    *)
THEOREM ProcessKeepsAdapters == Spec => SqlSpec /\ RedisSpec /\ FileSpec /\ FbSpec
<1>1. Init => SqlInit /\ RedisInit /\ FileInit /\ FbInit
  BY DEF Init
<1>2. [Next]_storageVars => /\ [SqlNext]_sqlVars /\ [RedisNext]_redisVars
                            /\ [FileNext]_fileVars /\ [FbNext]_fbVars
  BY DEF Next, storageVars
<1> QED BY <1>1, <1>2, PTL DEF Spec, SqlSpec, RedisSpec, FileSpec, FbSpec
=============================================================================
