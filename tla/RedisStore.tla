----------------------------- MODULE RedisStore -----------------------------
(***************************************************************************)
(* adapters/redis.  Each command is atomic on the server; a call is one or *)
(* more commands.  The state blob is a cache over the keys: a write        *)
(* deletes it after its effect, a reader that misses rebuilds and stores   *)
(* it, and it expires.                                                     *)
(***************************************************************************)
EXTENDS Storage

CONSTANT NoCache   \* the state key does not exist

VARIABLES
  keys,     \* user:*:points:*, :badges and :levels:*
  blob,     \* user:*:state, with a history of why it may be out of date
  rcall     \* per client: its call

redisVars == <<keys, blob, rcall>>

RedisIdle == [pc |-> "idle", got |-> NoRecord, suspect |-> FALSE]

RedisInit ==
  /\ keys = NoRecord
  /\ blob = NoCache
  /\ rcall = [c \in Clients |-> RedisIdle]

Building(c) == rcall[c].pc \in {"points", "badges", "levels", "store"}

(* A write takes effect: what readers have gathered so far is overtaken.   *)
Change(c, op, pc) ==
  /\ keys' = Apply(op, keys)
  /\ rcall' = [d \in Clients |->
                IF d = c THEN [RedisIdle EXCEPT !.pc = pc]
                ELSE [rcall[d] EXCEPT !.suspect = @ \/ Building(d)]]

(* A bug: the cache is invalidated before the write.                       *)
RedisWriteLast(c, op) ==
  /\ rcall[c].pc = "idle"
  /\ \/ /\ blob # NoCache
        /\ blob' = NoCache
        /\ UNCHANGED <<keys, rcall>>
     \/ /\ ~Refused(op, keys[op.row])
        /\ Change(c, op, "idle")
        /\ UNCHANGED blob

(* The Lua script of AddPoints, the SADD of AwardBadge, the SET of          *)
(* SetLevel.                                                                *)
RedisWrite(c, op) ==
  /\ rcall[c].pc = "idle"
  /\ ~Refused(op, keys[op.row])
  /\ Change(c, op, "invalidate")
  /\ UNCHANGED blob

(* The blob, if there is one, is not deleted though a write took effect.   *)
Excused == IF blob = NoCache THEN blob ELSE [blob EXCEPT !.excused = TRUE]

(* The command took effect but its reply was lost: the call returns the    *)
(* error and does not come to the invalidation.                            *)
RedisWriteUnsure(c, op) ==
  /\ Faults
  /\ rcall[c].pc = "idle"
  /\ ~Refused(op, keys[op.row])
  /\ Change(c, op, "idle")
  /\ blob' = Excused

(* invalidateStateCache: DEL.                                              *)
RedisInvalidate(c) ==
  /\ rcall[c].pc = "invalidate"
  /\ rcall' = [rcall EXCEPT ![c] = RedisIdle]
  /\ blob' = NoCache
  /\ UNCHANGED keys

(* The error of DEL is not looked at.                                      *)
RedisInvalidateFails(c) ==
  /\ Faults
  /\ rcall[c].pc = "invalidate"
  /\ rcall' = [rcall EXCEPT ![c] = RedisIdle]
  /\ blob' = Excused
  /\ UNCHANGED keys

(* GetState: a hit returns the blob; after a miss the keys are read, one   *)
(* command after the other.                                                *)
RedisGetState(c) ==
  /\ rcall[c].pc = "idle"
  /\ blob = NoCache
  /\ rcall' = [rcall EXCEPT ![c].pc = "points"]
  /\ UNCHANGED <<keys, blob>>

(* The GET of the blob fails: the keys are read although there is one.     *)
RedisGetFails(c) ==
  /\ Faults
  /\ rcall[c].pc = "idle"
  /\ blob # NoCache
  /\ rcall' = [rcall EXCEPT ![c].pc = "points"]
  /\ UNCHANGED <<keys, blob>>

RedisRead(c, from, row, to) ==
  /\ rcall[c].pc = from
  /\ rcall' = [rcall EXCEPT ![c].got[row] = keys[row], ![c].pc = to]
  /\ UNCHANGED <<keys, blob>>

(* buildStateFromKeys returns the error of its first KEYS.                 *)
RedisKeysFail(c) ==
  /\ Faults
  /\ rcall[c].pc = "points"
  /\ rcall' = [rcall EXCEPT ![c] = RedisIdle]
  /\ UNCHANGED <<keys, blob>>

(* Any other of its commands that fails, be it that the server did not     *)
(* answer or that the caller's ctx has ended, it skips.                    *)
RedisSkip(c, from, to) ==
  /\ Faults
  /\ rcall[c].pc = from
  /\ rcall' = [rcall EXCEPT ![c].suspect = TRUE, ![c].pc = to]
  /\ UNCHANGED <<keys, blob>>

(* A bug: the blob is stored without a time to live.                       *)
RedisStoreForever(c) ==
  /\ rcall[c].pc = "store"
  /\ rcall' = [rcall EXCEPT ![c] = RedisIdle]
  /\ blob' = [state |-> rcall[c].got, excused |-> rcall[c].suspect, ttl |-> FALSE]
  /\ UNCHANGED keys

(* updateStateCache: SET with a time to live, under a context of its own.  *)
RedisStoreState(c) ==
  /\ rcall[c].pc = "store"
  /\ rcall' = [rcall EXCEPT ![c] = RedisIdle]
  /\ blob' = [state |-> rcall[c].got, excused |-> rcall[c].suspect, ttl |-> TRUE]
  /\ UNCHANGED keys

(* Its error is not looked at either.                                      *)
RedisStoreFails(c) ==
  /\ Faults
  /\ rcall[c].pc = "store"
  /\ rcall' = [rcall EXCEPT ![c] = RedisIdle]
  /\ UNCHANGED <<keys, blob>>

(* The time to live has passed since the blob was last stored.             *)
RedisExpire ==
  /\ blob # NoCache
  /\ blob.ttl
  /\ blob' = NoCache
  /\ UNCHANGED <<keys, rcall>>

(* A call goes on after its first command.                                  *)
RedisAdvance(c) ==
  \/ RedisInvalidate(c)
  \/ RedisRead(c, "points", "points", "badges")
  \/ RedisRead(c, "badges", "badge", "levels")
  \/ RedisRead(c, "levels", "level", "store")
  \/ RedisStoreState(c)

(* A command fails.                                                         *)
RedisFault(c) ==
  \/ RedisInvalidateFails(c)
  \/ RedisGetFails(c)
  \/ RedisKeysFail(c)
  \/ RedisSkip(c, "points", "badges")
  \/ RedisSkip(c, "badges", "levels")
  \/ RedisSkip(c, "levels", "store")
  \/ RedisStoreFails(c)
  \/ \E op \in Op : RedisWriteUnsure(c, op)

RedisNext ==
  \/ RedisExpire
  \/ \E c \in Clients :
       \/ RedisAdvance(c)
       \/ RedisGetState(c)
       \/ RedisFault(c)
       \/ \E op \in Op : RedisWrite(c, op)

RedisSpec == RedisInit /\ [][RedisNext]_redisVars

-----------------------------------------------------------------------------
(* Properties                                                              *)

Stale == blob # NoCache /\ blob.state # keys

(* The cache disagrees with the keys only while a writer has still to      *)
(* invalidate it, or for one of three reasons: a write overtook the reader *)
(* that stored it, that reader skipped rows it failed to read, or an       *)
(* invalidation did not get through.                                       *)
RedisStaleExplained ==
  Stale => blob.excused \/ \E c \in Clients : rcall[c].pc = "invalidate"

(* Once commands stop failing and nobody writes any more, the cache is in  *)
(* the end never stale again: whatever was stored by a reader that skipped *)
(* rows, or that a write overtook, goes away and is not put back.          *)
RedisCacheSettles ==
  <>[][keys' = keys /\ \A c \in Clients : ~RedisFault(c)]_redisVars => <>[]~Stale
=============================================================================
