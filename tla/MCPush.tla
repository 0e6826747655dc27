------------------------------- MODULE MCPush -------------------------------
(* The settings of WebhookPush that the peer of TLC's run asks for: one, and *)
(* for each setting another that differs from it in that one.                *)
EXTENDS WebhookPush

CONSTANTS a, b, closure, works, slow

\* Works are dropped by the filter, and slow entries are not the priority channel's.
MCPriority == {closure, works}

One == [webhook |-> TRUE, filter |-> {closure, slow}, inbox |-> a, priorityOnly |-> FALSE]

MCAsked ==
  {One, [One EXCEPT !.webhook = FALSE], [One EXCEPT !.filter = Kinds],
   [One EXCEPT !.inbox = b], [One EXCEPT !.priorityOnly = TRUE]}
=============================================================================
