---------------------------- MODULE ContractStore ----------------------------
(***************************************************************************)
(* What the code cache promises the node.  There is a set of stored codes  *)
(* that only grows.  A save that returns Ok has stored its code; a lookup  *)
(* that returns Ok found its code in the store; a lookup that reports the  *)
(* code as missing or damaged is for code that is not stored.  Lookups of  *)
(* stored code may fail for other reasons, and a stop of the node ends the *)
(* calls that are in progress without touching the store.                  *)
(***************************************************************************)
CONSTANTS Threads, Checksums, Accepted

VARIABLES stored,   \* the codes that can be loaded
          call,     \* the call each thread is in, or NoCall
          answer    \* the answer to its last call

NoCall == [op |-> "none", code |-> "none"]

Missing == {"notFound", "integrity"}

Failures == {"io", "deserialize", "compile", "tooBig", "instantiation"}

StoreInit ==
  /\ stored = {}
  /\ call = [t \in Threads |-> NoCall]
  /\ answer = [t \in Threads |-> "ok"]

Begin(t, op, c) ==
  /\ call[t] = NoCall
  /\ op = "save" => c \in Accepted
  /\ call' = [call EXCEPT ![t] = [op |-> op, code |-> c]]
  /\ answer' = [answer EXCEPT ![t] = "pending"]
  /\ UNCHANGED stored

Reject(t) ==
  /\ call[t] = NoCall
  /\ answer' = [answer EXCEPT ![t] = "rejected"]
  /\ UNCHANGED <<stored, call>>

(* A save may take effect and still not return Ok.                           *)
Store(t) ==
  /\ call[t].op = "save"
  /\ stored' = stored \cup {call[t].code}
  /\ UNCHANGED <<call, answer>>

Answer(t, r) ==
  /\ call[t] # NoCall
  /\ r = "ok" => call[t].op = "unpin" \/ call[t].code \in stored
  /\ r \in Missing => call[t].code \notin stored
  /\ call' = [call EXCEPT ![t] = NoCall]
  /\ answer' = [answer EXCEPT ![t] = r]
  /\ UNCHANGED stored

Stop ==
  /\ call' = [t \in Threads |-> NoCall]
  /\ answer' = [t \in Threads |-> IF call[t] = NoCall THEN answer[t] ELSE "lost"]
  /\ UNCHANGED stored

StoreNext ==
  \/ \E t \in Threads, op \in {"save", "load", "get", "pin", "unpin"}, c \in Checksums :
       Begin(t, op, c)
  \/ \E t \in Threads : Reject(t) \/ Store(t)
  \/ \E t \in Threads, r \in {"ok"} \cup Missing \cup Failures : Answer(t, r)
  \/ Stop

StoreSpec == StoreInit /\ [][StoreNext]_<<stored, call, answer>>
==============================================================================
