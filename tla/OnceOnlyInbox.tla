---------------------------- MODULE OnceOnlyInbox ----------------------------
(***************************************************************************)
(* What the shortcut door promises, without saying how: every request      *)
(* reaches at most one disposition, keeps it for ever, and the client is   *)
(* told a disposition only if it is the one the request has.  Only a       *)
(* failure between the two takes the promise back, and the client is told. *)
(***************************************************************************)
CONSTANT Request

VARIABLES
  disposition,   \* what became of each request
  acked          \* what the client was told became of it

Disposition == {"recorded", "queued", "nothing"}

Init ==
  /\ disposition = [r \in Request |-> "open"]
  /\ acked = [r \in Request |-> "open"]

\* The request gets its disposition; the answer may go out in the same step.
Settle(r, d) ==
  /\ disposition[r] = "open"
  /\ disposition' = [disposition EXCEPT ![r] = d]
  /\ acked' \in {acked, [acked EXCEPT ![r] = d]}

\* The client is told the disposition the request has.
Acknowledge(r) ==
  /\ disposition[r] # "open"
  /\ acked' = [acked EXCEPT ![r] = disposition[r]]
  /\ UNCHANGED disposition

\* An internal error: nothing more is promised about the request.
GiveUp(r) ==
  /\ acked[r] = "open"
  /\ disposition' = [disposition EXCEPT ![r] = "unsure"]
  /\ acked' = [acked EXCEPT ![r] = "unsure"]

Next ==
  \E r \in Request :
    Acknowledge(r) \/ GiveUp(r) \/ \E d \in Disposition : Settle(r, d)

Spec == Init /\ [][Next]_<<disposition, acked>>
=============================================================================
