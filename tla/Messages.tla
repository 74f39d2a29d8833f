-------------------------------- MODULE Messages -------------------------------
(***************************************************************************)
(* What an entry point returns: a Response with the messages the chain is  *)
(* to dispatch, each a SubMsg that says when the contract is called back.  *)
(* Attributes, events and data are not told apart and left out.            *)
(***************************************************************************)
EXTENDS Integers, Sequences

ReplyOn == {"always", "error", "success", "never"}

(* Whether the contract's reply is called after the message was processed.   *)
CallsBack(reply_on, ok) ==
  \/ reply_on = "always"
  \/ reply_on = "success" /\ ok
  \/ reply_on = "error" /\ ~ok

UNUSED_MSG_ID == 0

SubMsgOf(msg, id, reply_on) == [msg |-> msg, id |-> id, reply_on |-> reply_on]

(* SubMsg::new: fire and forget.                                             *)
NewSubMsg(msg) == SubMsgOf(msg, UNUSED_MSG_ID, "never")

(* Response::new and Response::default.                                      *)
NewResponse == [messages |-> <<>>]

add_submessages(response, submsgs) == [response EXCEPT !.messages = @ \o submsgs]

add_messages(response, msgs) ==
  add_submessages(response, [i \in DOMAIN msgs |-> NewSubMsg(msgs[i])])
==============================================================================
