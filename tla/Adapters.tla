------------------------------ MODULE Adapters ------------------------------
(***************************************************************************)
(* The storage adapters side by side.  A process has one of them: the one  *)
(* setupStorage or gamify.New chose.                                       *)
(***************************************************************************)
EXTENDS SqlStore, RedisStore, JsonFileStore, FallbackStore

CONSTANT Chosen   \* the adapters the process may have

VARIABLE adapter

storageVars == <<adapter, sqlVars, redisVars, fileVars, fbVars>>

Init ==
  /\ adapter \in Chosen
  /\ SqlInit
  /\ RedisInit
  /\ FileInit
  /\ FbInit

Next ==
  /\ UNCHANGED adapter
  /\ \/ /\ adapter = "sql"
        /\ SqlNext
        /\ UNCHANGED <<redisVars, fileVars, fbVars>>
     \/ /\ adapter = "redis"
        /\ RedisNext
        /\ UNCHANGED <<sqlVars, fileVars, fbVars>>
     \/ /\ adapter = "file"
        /\ FileNext
        /\ UNCHANGED <<sqlVars, redisVars, fbVars>>
     \/ /\ adapter = "fallback"
        /\ FbNext
        /\ UNCHANGED <<sqlVars, redisVars, fileVars>>

Spec == Init /\ [][Next]_storageVars

(* A call on Redis goes on, and a blob that is not stored again, which      *)
(* renews its time to live, expires.                                        *)
FairSpec ==
  /\ Spec
  /\ WF_redisVars(RedisExpire \/ \E c \in Clients : RedisStoreState(c))
  /\ \A c \in Clients : WF_redisVars(RedisAdvance(c))
=============================================================================
