--------------------------- MODULE FallbackStore ---------------------------
(***************************************************************************)
(* gamify.inMemoryFallback and its memStore, which gamify.New uses when no *)
(* storage is given.  Neither has a lock.  The store, its map and the      *)
(* user's record in it are created by the first call that finds none; a    *)
(* new store or record has the number of the call that creates it.         *)
(***************************************************************************)
EXTENDS Storage

Nil == 0   \* a nil pointer, or a missing map entry

Numbers == 1 .. MaxCalls

VARIABLES
  mem,        \* inMemoryFallback.mem: a store
  mapped,     \* per store: memStore.data is a map
  entry,      \* per store: the user's record in memStore.data
  record,     \* content of each record
  fcall,      \* per client: its call
  fbCalls,    \* history: calls started
  fbAcked,    \* history: sum of the additions that returned
  overlapped, \* history: some call started while another was running
  faulted     \* the runtime has ended the process: concurrent map access

fbVars == <<mem, mapped, entry, record, fcall, fbCalls, fbAcked, overlapped, faulted>>

ReadOnly == [row |-> "get", arg |-> 0]

(* rec is the call's own number until the call has found a record.         *)
FbIdle == [pc |-> "idle", op |-> ReadOnly, store |-> Nil, rec |-> Nil, next |-> Absent]

FbInit ==
  /\ mem = Nil
  /\ mapped = [s \in Numbers |-> FALSE]
  /\ entry = [s \in Numbers |-> Nil]
  /\ record = [r \in Numbers |-> NoRecord]
  /\ fcall = [c \in Clients |-> FbIdle]
  /\ fbCalls = 0
  /\ fbAcked = 0
  /\ overlapped = FALSE
  /\ faulted = FALSE

Running == {c \in Clients : fcall[c].pc # "idle"}

At(c, pc) == fcall[c].pc = pc /\ ~faulted

(* inMemoryFallback.ensure: look at m.mem.                                 *)
FbStart(c, op) ==
  /\ At(c, "idle")
  /\ fbCalls < MaxCalls
  /\ fbCalls' = fbCalls + 1
  /\ fcall' = [fcall EXCEPT ![c] =
       [FbIdle EXCEPT !.pc = IF mem = Nil THEN "newstore" ELSE "map",
                      !.op = op,
                      !.store = IF mem = Nil THEN fbCalls' ELSE mem,
                      !.rec = fbCalls']]
  /\ overlapped' = (overlapped \/ Running # {})
  /\ UNCHANGED <<mem, mapped, entry, record, fbAcked, faulted>>

FbNewStore(c) ==
  /\ At(c, "newstore")
  /\ mem' = fcall[c].store
  /\ fcall' = [fcall EXCEPT ![c].pc = "map"]
  /\ UNCHANGED <<mapped, entry, record, fbCalls, fbAcked, overlapped, faulted>>

(* memStore.ensure: look at s.data.                                        *)
FbMap(c) ==
  /\ At(c, "map")
  /\ fcall' = [fcall EXCEPT ![c].pc = IF mapped[fcall[c].store] THEN "find" ELSE "newmap"]
  /\ UNCHANGED <<mem, mapped, entry, record, fbCalls, fbAcked, overlapped, faulted>>

(* A new map takes the place of one another call has made meanwhile.       *)
FbNewMap(c) ==
  LET s == fcall[c].store
  IN  /\ At(c, "newmap")
      /\ mapped' = [mapped EXCEPT ![s] = TRUE]
      /\ entry' = [entry EXCEPT ![s] = Nil]
      /\ fcall' = [fcall EXCEPT ![c].pc = "find"]
      /\ UNCHANGED <<mem, record, fbCalls, fbAcked, overlapped, faulted>>

(* A bug: ensure does not look whether the user has a record.              *)
FbFindNone(c) ==
  /\ At(c, "find")
  /\ fcall' = [fcall EXCEPT ![c].pc = "newrecord"]
  /\ UNCHANGED <<mem, mapped, entry, record, fbCalls, fbAcked, overlapped, faulted>>

(* Look for the user's record.                                             *)
FbFind(c) ==
  LET r == entry[fcall[c].store]
  IN  /\ At(c, "find")
      /\ fcall' = IF r = Nil THEN [fcall EXCEPT ![c].pc = "newrecord"]
                  ELSE [fcall EXCEPT ![c].pc = "read", ![c].rec = r]
      /\ UNCHANGED <<mem, mapped, entry, record, fbCalls, fbAcked, overlapped, faulted>>

FbNewRecord(c) ==
  /\ At(c, "newrecord")
  /\ entry' = [entry EXCEPT ![fcall[c].store] = fcall[c].rec]
  /\ fcall' = [fcall EXCEPT ![c].pc = "read"]
  /\ UNCHANGED <<mem, mapped, record, fbCalls, fbAcked, overlapped, faulted>>

(* AddPoints reads the total and checks the sum; GetState copies and       *)
(* returns.                                                                *)
FbRead(c) ==
  LET f == fcall[c]
      v == record[f.rec][f.op.row]
  IN  /\ At(c, "read")
      /\ fcall' = [fcall EXCEPT ![c] =
           IF f.op = ReadOnly \/ Refused(f.op, v) THEN FbIdle
           ELSE [f EXCEPT !.pc = "write", !.next = NewValue(f.op, v)]]
      /\ UNCHANGED <<mem, mapped, entry, record, fbCalls, fbAcked, overlapped, faulted>>

FbWrite(c) ==
  LET f == fcall[c]
  IN  /\ At(c, "write")
      /\ record' = [record EXCEPT ![f.rec][f.op.row] = f.next]
      /\ entry' = [entry EXCEPT ![f.store] = f.rec]
      /\ fcall' = [fcall EXCEPT ![c] = FbIdle]
      /\ fbAcked' = fbAcked + IF f.op.row = "points" THEN f.op.arg ELSE 0
      /\ UNCHANGED <<mem, mapped, fbCalls, overlapped, faulted>>

(* The runtime may detect that a map is written while another goroutine    *)
(* uses it.                                                                *)
FbFault ==
  /\ ~faulted
  /\ \E c, d \in Running :
       /\ c # d
       /\ fcall[c].store = fcall[d].store
       /\ fcall[c].pc \in {"newrecord", "write"}
       /\ fcall[d].pc \in {"find", "newrecord", "read", "write"}
  /\ faulted' = TRUE
  /\ UNCHANGED <<mem, mapped, entry, record, fcall, fbCalls, fbAcked, overlapped>>

FbAdvance(c) ==
  \/ FbNewStore(c) \/ FbMap(c) \/ FbNewMap(c) \/ FbFind(c)
  \/ FbNewRecord(c) \/ FbRead(c) \/ FbWrite(c)

FbNext ==
  \/ FbFault
  \/ \E c \in Clients :
       FbAdvance(c) \/ \E op \in Op \cup {ReadOnly} : FbStart(c, op)

FbSpec == FbInit /\ [][FbNext]_fbVars

-----------------------------------------------------------------------------
(* Properties                                                              *)

FbTotal ==
  IF mem = Nil \/ entry[mem] = Nil THEN 0
  ELSE ValueOrZero(record[entry[mem]]["points"])

(* Without a lock the fallback store is still right for calls that never   *)
(* overlap: it does not fault, and the total is the sum of the additions   *)
(* that returned.                                                          *)
FallbackSerialSafe ==
  ~overlapped => /\ ~faulted
                 /\ Running = {} => FbTotal = fbAcked
=============================================================================
