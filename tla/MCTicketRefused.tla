--------------------------- MODULE MCTicketRefused ---------------------------
(* The order ticket where a bracket is retried while the market moves.  The     *)
(* search keeps to the states of one kind of order: a limit bracket with the    *)
(* book of the feed aside.                                                      *)
EXTENDS Ticket

LimitBracket ==
  /\ ticket.type = "limit" /\ ticket.bbo = "custom" /\ ~ticket.edited /\ ~ticket.reduceOnly
  /\ ticket.tp = 0
  /\ book.depth = 0 /\ book.centre = 0
=============================================================================
