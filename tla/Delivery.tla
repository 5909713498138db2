----------------------------- MODULE Delivery ------------------------------
(***************************************************************************)
(* What the on-chain jobs promise to those who paid for an item, without   *)
(* their mechanism: no jobs, no bundles, no table of transactions, no      *)
(* retry, no lost or repeated transaction, no crash.                       *)
(*                                                                         *)
(* Orders are never withdrawn.  Only items that somebody ordered are sent, *)
(* only sent ones are mined, and what is mined stays.  An order is called  *)
(* pending when its item was sent and successful when it was mined, all    *)
(* orders of an item at once, and is never put back to waiting; a late     *)
(* report may call a successful order pending again.                       *)
(***************************************************************************)
EXTENDS Sequences

CONSTANT Items

VARIABLES
  order,   \* the orders, with their items and status
  sent,    \* the items handed to the network
  mined    \* the items on chain

delivery == <<order, sent, mined>>

Init == order = <<>> /\ sent = {} /\ mined = {}

\* Somebody pays for an item.
Place(i) ==
  /\ order' = Append(order, [item |-> i, status |-> "waiting"])
  /\ UNCHANGED <<sent, mined>>

Send(S) ==
  /\ \A i \in S : \E o \in DOMAIN order : order[o].item = i
  /\ sent' = sent \cup S
  /\ UNCHANGED <<order, mined>>

Mine(S) ==
  /\ S \subseteq sent
  /\ mined' = mined \cup S
  /\ UNCHANGED <<order, sent>>

\* The orders of some items are given a status that the items have reached.
Report(S, st) ==
  /\ S \subseteq IF st = "success" THEN mined ELSE sent
  /\ order' = [o \in DOMAIN order |->
                 IF order[o].item \in S THEN [order[o] EXCEPT !.status = st] ELSE order[o]]
  /\ UNCHANGED <<sent, mined>>

Next ==
  \/ \E i \in Items : Place(i)
  \/ \E S \in SUBSET Items :
       Send(S) \/ Mine(S) \/ \E st \in {"pending", "success"} : Report(S, st)

Spec == Init /\ [][Next]_delivery
=============================================================================
