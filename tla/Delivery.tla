------------------------------ MODULE Delivery ------------------------------
(***************************************************************************)
(* What @middy/ecs-batch promises of a source's records (the ecs-batch      *)
(* documentation's "Batch failures and retries"): a record leaves the       *)
(* source for good only once the handler has succeeded with it, or its loss *)
(* has been reported through onError.  Nothing here says how a source       *)
(* delivers, retries or acknowledges: records leave in any order, several   *)
(* at a time, and may be handled any number of times.                       *)
(***************************************************************************)
CONSTANT Records

VARIABLES
  handled,   \* the records the handler has succeeded with
  reported,  \* the records whose loss onError was told of
  gone       \* the records the source will not deliver again

Init == handled = {} /\ reported = {} /\ gone = {}

Progress ==
  /\ handled \subseteq handled' /\ handled' \subseteq Records
  /\ reported \subseteq reported' /\ reported' \subseteq Records
  /\ gone \subseteq gone' /\ gone' \subseteq handled' \cup reported'

Spec == Init /\ [][Progress]_<<handled, reported, gone>>
=============================================================================
