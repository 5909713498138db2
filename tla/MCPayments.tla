----------------------------- MODULE MCPayments -----------------------------
(* Small instances of Payments for TLC. *)
EXTENDS Payments

Money(k, is, n, c, a) ==
  [kind |-> k, items |-> is, amount |-> n, symbol |-> c, from |-> a]

\* A payment of two items and one of the first item alone.
ItemPays ==
  <<Money("items", <<"i1", "i2">>, 3, "AR", "u1"),
    Money("items", <<"i1">>, 1, "AR", "u1")>>

\* A deposit, data that parseTxData refuses, a deposit in a currency without fees.
KeyPays ==
  <<Money("apikey", <<>>, 1, "AR", "u1"),
    Money("bad", <<>>, 1, "AR", "u1"),
    Money("apikey", <<>>, 1, "ETH", "u1")>>

\* A transfer whose data is not JSON, then a payment of one item.
OnePay ==
  <<Money("garbage", <<>>, 1, "AR", "u1"), Money("items", <<"i1">>, 1, "AR", "u1")>>
=============================================================================
