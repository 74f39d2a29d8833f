-------------------------------- MODULE Reflect --------------------------------
(***************************************************************************)
(* The reflect contract on a chain that dispatches its messages.  The      *)
(* owner has it send messages in its own name; the replies to those sent   *)
(* as submessages are stored by id for a later query.  The receiver of a   *)
(* message may be a contract that calls back, as the owner perhaps.  The   *)
(* chain (external) dispatches the messages of a response one by one,      *)
(* depth first, undoes what a failed message did and fails the call that   *)
(* sent it unless its failure is replied to.                               *)
(***************************************************************************)
EXTENDS Messages, Functions

CONSTANTS Addresses,        \* names addr_validate accepts, the contract aside
          Contract,         \* the contract's own address
          BadAddress,       \* a name addr_validate refuses
          Ids,              \* ids of submessages
          MaxTransactions   \* bound on the transactions of a behaviour

VARIABLES owner,         \* the config singleton
          results,       \* the bucket "result": id -> TRUE for Ok, FALSE for Err
          replied,       \* the replies received so far, undone ones excluded
          calls,         \* the calls being processed, the outermost first
          verdict,       \* whether the message being processed succeeded, an option
          transactions   \* the number of transactions so far

contractVars == <<owner, results, replied>>
callVars == <<calls, verdict, transactions>>
reflectVars == <<contractVars, callVars>>

(* addr_validate *)
ValidAddress(name) == name \in Addresses \cup {Contract}

(* Messages by what their receivers do: succeed or fail on their own, or     *)
(* call back.                                                                *)
OtherMsg == [does |-> "other"]
ChangeOwnerMsg(sender, name) == [does |-> "change_owner", sender |-> sender, owner |-> name]
ReflectMsg(sender, submsg) == [does |-> "reflect", sender |-> sender, submsg |-> submsg]

(* The state of the contract, which the chain saves and restores.            *)
State == [owner |-> owner, results |-> results, replied |-> replied]

Restore(saved) ==
  /\ owner' = saved.owner
  /\ results' = saved.results
  /\ replied' = saved.replied

(* A call that returned a response: its messages are to be dispatched.       *)
CallReturned(response) ==
  /\ calls' = Append(calls, [saved |-> State, todo |-> response.messages])
  /\ verdict' = <<>>
  /\ UNCHANGED contractVars

try_reflect(sender, msgs) ==
  /\ sender = owner /\ msgs # <<>>
  /\ CallReturned(add_messages(NewResponse, msgs))

try_reflect_subcall(sender, submsgs) ==
  /\ sender = owner /\ submsgs # <<>>
  /\ CallReturned(add_submessages(NewResponse, submsgs))

try_change_owner(sender, new_owner) ==
  /\ sender = owner /\ ValidAddress(new_owner)
  /\ owner' = new_owner
  /\ UNCHANGED <<results, replied>>

(* A seeded defect: the result of a reused id is not replaced.               *)
reply_kept(id, ok) ==
  /\ results' = [i \in DOMAIN results \cup {id} |-> IF i \in DOMAIN results THEN results[i] ELSE ok]
  /\ replied' = Append(replied, [id |-> id, ok |-> ok])
  /\ UNCHANGED owner

(* Stores the result under the big-endian bytes of the id.                   *)
reply(id, ok) ==
  /\ results' = [i \in DOMAIN results \cup {id} |-> IF i = id THEN ok ELSE results[i]]
  /\ replied' = Append(replied, [id |-> id, ok |-> ok])
  /\ UNCHANGED owner

query_subcall(id) == IF id \in DOMAIN results THEN <<results[id]>> ELSE <<>>

------------------------------------------------------------------------------
(* The chain (external).                                                     *)
Top == calls[Len(calls)]
Pop == SubSeq(calls, 1, Len(calls) - 1)

(* A first message of each kind and a second one under the same id.          *)
SubMsgLists ==
  LET inner == {SubMsgOf(OtherMsg, id, on) : id \in Ids, on \in {"never", "always"}}
      msgs == {OtherMsg} \cup {ChangeOwnerMsg(a, b) : a, b \in Addresses}
                \cup {ReflectMsg(a, m) : a \in Addresses, m \in inner}
  IN  {<<SubMsgOf(msg, id, on), SubMsgOf(OtherMsg, id, "success")>> :
         msg \in msgs, id \in Ids, on \in ReplyOn}

Transaction ==
  /\ calls = <<>> /\ transactions < MaxTransactions
  /\ transactions' = transactions + 1
  /\ \E sender \in Addresses :
       \/ try_reflect(sender, <<OtherMsg>>)
       \/ \E submsgs \in SubMsgLists : try_reflect_subcall(sender, submsgs)
       \/ \E name \in Addresses \cup {Contract, BadAddress} :
            try_change_owner(sender, name) /\ UNCHANGED <<calls, verdict>>

(* Processes the next message of the innermost call.                         *)
Dispatch ==
  /\ calls # <<>> /\ Top.todo # <<>> /\ verdict = <<>>
  /\ LET msg == Top.todo[1].msg
     IN  \/ /\ msg.does = "other" /\ verdict' \in {<<TRUE>>, <<FALSE>>}
            /\ UNCHANGED <<contractVars, calls>>
         \/ /\ msg.does = "change_owner" /\ try_change_owner(msg.sender, msg.owner)
            /\ verdict' = <<TRUE>> /\ UNCHANGED calls
         \/ msg.does = "reflect" /\ try_reflect_subcall(msg.sender, <<msg.submsg>>)
         \/ /\ msg.does # "other" /\ owner # msg.sender
            /\ verdict' = <<FALSE>> /\ UNCHANGED <<contractVars, calls>>
  /\ UNCHANGED transactions

(* The message is done.  A failure that is not replied to fails the call:    *)
(* what it did is undone, and it was itself a message of the call below.     *)
Settle ==
  /\ verdict # <<>>
  /\ LET submsg == Top.todo[1]
         ok == verdict[1]
     IN  IF ok \/ CallsBack(submsg.reply_on, ok)
         THEN /\ calls' = [calls EXCEPT ![Len(calls)].todo = Tail(@)]
              /\ verdict' = <<>>
              /\ IF CallsBack(submsg.reply_on, ok) THEN reply(submsg.id, ok)
                 ELSE UNCHANGED contractVars
         ELSE /\ Restore(Top.saved)
              /\ calls' = Pop
              /\ verdict' = IF Pop = <<>> THEN <<>> ELSE <<FALSE>>
  /\ UNCHANGED transactions

(* All messages of a call succeeded.                                         *)
Complete ==
  /\ calls # <<>> /\ Top.todo = <<>>
  /\ calls' = Pop
  /\ verdict' = IF Pop = <<>> THEN <<>> ELSE <<TRUE>>
  /\ UNCHANGED <<contractVars, transactions>>

(* instantiate: the sender is the owner.                                     *)
ReflectInit ==
  /\ owner \in Addresses
  /\ results = <<>> /\ replied = <<>> /\ calls = <<>> /\ verdict = <<>>
  /\ transactions = 0

ReflectNext == Transaction \/ Dispatch \/ Settle \/ Complete

ReflectSpec == ReflectInit /\ [][ReflectNext]_reflectVars

------------------------------------------------------------------------------
(* Properties.                                                               *)

(* A query for an id finds the outcome of the last submessage with this id   *)
(* that was replied to, and nothing if there was none: replies of calls that *)
(* were undone later do not show, those to earlier uses of the id are        *)
(* replaced (reply, query_subcall).                                          *)
QueryFindsLastReply ==
  \A id \in Ids :
    LET of == {i \in DOMAIN replied : replied[i].id = id}
    IN  /\ of = {} => query_subcall(id) = <<>>
        /\ \A last \in of :
             (\A i \in of : i <= last) => query_subcall(id) = <<replied[last].ok>>
==============================================================================
