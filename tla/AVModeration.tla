----------------------------- MODULE AVModeration -----------------------------
(***************************************************************************)
(* AVModeration for one type of media: what a moderator's client keeps of  *)
(* the moderation component's state.  v.enabled and v.whitelist are the    *)
(* fields of the class, v.approved and v.may what the application has been *)
(* told, since moderation was last switched, of who may unmute: the others *)
(* and the user himself.  v.kept is the list left from before the switch.  *)
(***************************************************************************)

NoModeration == [enabled |-> FALSE, whitelist |-> {}, approved |-> {}, kept |-> {}, may |-> FALSE]

\* Faulty: the new list is compared and not kept.
WhitelistCompared(v, list, removed) ==
  IF removed THEN [v EXCEPT !.approved = @ \ (v.whitelist \ list)]
  ELSE [v EXCEPT !.approved = @ \cup (list \ v.whitelist)]

\* A message with whitelists: those new on the list, or gone from it, are told of.
Whitelist(v, list, removed) ==
  IF removed THEN [v EXCEPT !.whitelist = list, !.approved = @ \ (v.whitelist \ list)]
  ELSE [v EXCEPT !.whitelist = list, !.approved = @ \cup (list \ v.whitelist)]

\* A message with enabled.  The list outlives the moderation it was made in.
Switched(v, on) ==
  IF v.enabled = on THEN v ELSE [v EXCEPT !.enabled = on, !.approved = {}, !.kept = v.whitelist, !.may = FALSE]

\* _onMessage.
OnMessage(v, msg) ==
  CASE msg.kind = "whitelist" -> Whitelist(v, msg.list, msg.removed)
    [] msg.kind = "enabled"   -> Switched(v, msg.on)
    [] msg.kind = "removed"   -> [v EXCEPT !.may = FALSE]
    [] msg.kind = "approved"  -> [v EXCEPT !.may = TRUE]

\* enable(), for a moderator: nothing is sent when the state is already the one asked for,
\* as far as the messages received say.
Sends(v, on) == v.enabled # on

\* approve() and reject() ask the component, whatever is known of its list.
Approval(p) == [kind |-> "approve", id |-> p]
Rejection(p) == [kind |-> "reject", id |-> p]

===============================================================================
