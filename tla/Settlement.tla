----------------------------- MODULE Settlement -----------------------------
(***************************************************************************)
(* What becomes of the money customers send, without the mechanism: no     *)
(* sweeps, no items looked up one by one, no lost answers, no crashes.     *)
(*                                                                         *)
(* A payment buys one order or more of every item it names, in its own     *)
(* currency, together for no more than it brought, and none that another   *)
(* payment has bought; or, if it is a deposit, it is credited, perhaps     *)
(* more than once, before it counts as spent; or it is rejected and sent   *)
(* back, at most once.  Every decision is final.                           *)
(***************************************************************************)
EXTENDS Integers, Sequences, Functions

CONSTANTS
  Items, Fees, Symbols,
  Wanted,     \* the items a payment names
  Amount,     \* what it brings
  Currency,   \* and in which currency
  Deposits,   \* payments for the balance of an api key
  None

VARIABLES
  order,    \* the orders: item, fee, currency
  fate,     \* how far a payment is, None when the bundler does not know of it
  bought,   \* the orders it has bought
  credit,   \* how often it was credited
  back      \* how often it was sent back

settlement == <<order, fate, bought, credit, back>>

Incoming == DOMAIN Amount
Fee == [o \in DOMAIN order |-> order[o].fee]

Init ==
  /\ order = <<>>
  /\ fate = [r \in Incoming |-> None]
  /\ bought = [r \in Incoming |-> {}]
  /\ credit = [r \in Incoming |-> 0]
  /\ back = [r \in Incoming |-> 0]

\* A decision on a payment that had come as far as from.
Decide(r, from, to) == fate[r] = from /\ fate' = [fate EXCEPT ![r] = to]

Open(i, n, c) ==
  /\ order' = Append(order, [item |-> i, fee |-> n, cur |-> c])
  /\ UNCHANGED <<fate, bought, credit, back>>

Receive(r) == Decide(r, None, "unspent") /\ UNCHANGED <<order, bought, credit, back>>

Buy(r, S) ==
  /\ Decide(r, "unspent", "spent")
  /\ S # {} /\ \A q \in Incoming : bought[q] \cap S = {}
  /\ {order[o].item : o \in S} = Wanted[r]
  /\ \A o \in S : order[o].cur = Currency[r]
  /\ SumFunctionOnSet(Fee, S) <= Amount[r]
  /\ bought' = [bought EXCEPT ![r] = S]
  /\ UNCHANGED <<order, credit, back>>

Credit(r) ==
  /\ r \in Deposits /\ fate[r] = "unspent"
  /\ credit' = [credit EXCEPT ![r] = @ + 1]
  /\ UNCHANGED <<order, fate, bought, back>>

Close(r) ==
  /\ Decide(r, "unspent", "spent")
  /\ credit[r] > 0
  /\ UNCHANGED <<order, bought, credit, back>>

Reject(r) ==
  /\ Decide(r, "unspent", "unrefund")
  /\ credit[r] = 0
  /\ UNCHANGED <<order, bought, credit, back>>

\* The refund is announced before it is made; it may turn out to have failed.
Announce(r) == Decide(r, "unrefund", "refunded") /\ UNCHANGED <<order, bought, credit, back>>

SendBack(r) ==
  /\ fate[r] = "refunded" /\ back[r] = 0
  /\ back' = [back EXCEPT ![r] = 1]
  /\ UNCHANGED <<order, fate, bought, credit>>

Doubt(r) == Decide(r, "refunded", "refundErr") /\ UNCHANGED <<order, bought, credit, back>>

Next ==
  \/ \E i \in Items, n \in Fees, c \in Symbols : Open(i, n, c)
  \/ \E r \in Incoming :
       \/ Receive(r) \/ Credit(r) \/ Close(r) \/ Reject(r)
       \/ Announce(r) \/ SendBack(r) \/ Doubt(r)
       \/ \E S \in SUBSET (DOMAIN order) : Buy(r, S)

Spec == Init /\ [][Next]_settlement
=============================================================================
