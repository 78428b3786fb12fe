--------------------------- MODULE RecordTransfer ---------------------------
(***************************************************************************)
(* What two programs that share a version 4 schema get from wire_format:   *)
(* a record that was sent arrives as it was, unless the octets were        *)
(* damaged on the way, and then nothing is accepted and they can be sent   *)
(* again.                                                                  *)
(***************************************************************************)
CONSTANT Nothing

VARIABLES state,      \* "ready", "sent", "refused", "delivered", "rejected"
          message,    \* the contents that were sent
          received,   \* the contents that were accepted
          damaged

vars == <<state, message, received, damaged>>

Init == state = "ready" /\ message = Nothing /\ received = Nothing /\ damaged = FALSE

\* The schema or the record is refused before an octet is sent.
Refuse == state = "ready" /\ state' = "refused" /\ UNCHANGED <<message, received, damaged>>

Send ==
  /\ state = "ready" /\ state' = "sent"
  /\ message' # Nothing
  /\ UNCHANGED <<received, damaged>>

Damage ==
  /\ state = "sent" /\ ~damaged /\ damaged'
  /\ UNCHANGED <<state, message, received>>

Deliver ==
  /\ state = "sent" /\ ~damaged
  /\ state' = "delivered" /\ received' = message
  /\ UNCHANGED <<message, damaged>>

Reject ==
  /\ state = "sent" /\ damaged
  /\ state' = "rejected"
  /\ UNCHANGED <<message, received, damaged>>

Resend ==
  /\ state = "rejected"
  /\ state' = "sent" /\ damaged' = FALSE
  /\ UNCHANGED <<message, received>>

Next == Refuse \/ Send \/ Damage \/ Deliver \/ Reject \/ Resend

\* Every transfer comes to an end.
Ends == <>(state \in {"refused", "delivered"})

Spec == Init /\ [][Next]_vars /\ Ends
=============================================================================
