------------------------- MODULE PublicationTicket -------------------------
(***************************************************************************)
(* What the attachment scan work store promises about one confirmed        *)
(* attachment, seen from outside: the work is open until the permission to *)
(* publish it is granted, the permission is granted once and never taken   *)
(* back, and the work settles as completed only after a grant.  Claims,    *)
(* leases, redeliveries and the outbox do not exist at this level.         *)
(***************************************************************************)
CONSTANT Works          \* identifiers of scan works

VARIABLE ticket         \* ticket[w]: how far work w has come

TicketStates == {"unborn", "open", "granted", "completed", "failed", "gone"}

TicketTypeOK == ticket \in [Works -> TicketStates]

Init == ticket = [w \in Works |-> "unborn"]

\* One step of a work: the pairs of states it may move between.
Moves ==
  {<<"unborn", "open">>, <<"open", "granted">>, <<"open", "failed">>,
   <<"granted", "completed">>, <<"granted", "failed">>}
    \cup ({"open", "granted", "completed", "failed"} \X {"gone"})

\* Retention ends for several works at once, so a step may move any set of them.
Next ==
  /\ ticket' \in [Works -> TicketStates]
  /\ \A w \in Works : ticket'[w] = ticket[w] \/ <<ticket[w], ticket'[w]>> \in Moves

Spec == Init /\ [][Next]_ticket

=============================================================================
