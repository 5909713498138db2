------------------------------ MODULE Archive ------------------------------
(***************************************************************************)
(* What the chunk store promises to its users, without its mechanism: no   *)
(* locks, no global end offset, no read loop, no rollback, no crash.       *)
(*                                                                         *)
(* A payload is given a region of the address space once and for all, its  *)
(* chunks arrive in any order and are never lost, and a request is         *)
(* answered with a payload only when every chunk of it is in the archive.  *)
(* Nothing of this is promised to a payload among whose addresses a        *)
(* foreign chunk was put; what happens to one payload leaves the others    *)
(* alone.                                                                  *)
(***************************************************************************)
EXTENDS Integers

CONSTANTS
  Actors,   \* those who ask
  Keys,     \* payloads
  Size,     \* payload size in bytes, per key
  Chunks,   \* the chunks of a payload
  None

VARIABLES
  region,   \* the first address of each payload, None before allocation
  held,     \* the chunks of each payload that can be read back
  reply,    \* the payload last answered to each actor, or None
  spoiled   \* the payloads that a foreign chunk was put among

archive == <<region, held, reply, spoiled>>

Init ==
  /\ region = [k \in Keys |-> None]
  /\ held = [k \in Keys |-> {}]
  /\ reply = [a \in Actors |-> None]
  /\ spoiled = {}

\* The addresses of payload k, when its region starts at n.
Addresses(k, n) == n .. (n + Size[k] - 1)

\* A payload gets addresses that no other payload has, though a foreign chunk
\* may be there already.
Allocate(k) ==
  /\ region[k] = None
  /\ region'[k] \in Nat
  /\ region' = [region EXCEPT ![k] = region'[k]]
  /\ \A l \in Keys \ {k} :
       region[l] # None =>
         Addresses(k, region'[k]) \cap Addresses(l, region[l]) = {}
  /\ spoiled' \in {spoiled, spoiled \cup {k}}
  /\ UNCHANGED <<held, reply>>

\* A chunk of an allocated payload arrives; nothing else changes.
Deposit(k, c) ==
  /\ region[k] # None
  /\ c \in Chunks[k] \ held[k]
  /\ held' = [held EXCEPT ![k] = @ \cup {c}]
  /\ UNCHANGED <<region, reply, spoiled>>

\* A foreign chunk is put among the addresses of one payload, and may replace
\* one of its chunks.
Spoil(k) ==
  /\ region[k] # None
  /\ spoiled' = spoiled \cup {k}
  /\ \/ UNCHANGED held
     \/ \E c \in held[k] : held' = [held EXCEPT ![k] = @ \ {c}]
  /\ UNCHANGED <<region, reply>>

\* The whole payload is answered, or what a spoiled one has become.
Answer(a, k) ==
  /\ reply[a] = None
  /\ held[k] = Chunks[k] \/ k \in spoiled
  /\ reply' = [reply EXCEPT ![a] = k]
  /\ UNCHANGED <<region, held, spoiled>>

\* Some actors turn to something else, or are gone.
Leave(S) ==
  /\ reply' = [a \in Actors |-> IF a \in S THEN None ELSE reply[a]]
  /\ UNCHANGED <<region, held, spoiled>>

Next ==
  \/ \E S \in SUBSET Actors : Leave(S)
  \/ \E k \in Keys : Allocate(k) \/ Spoil(k)
  \/ \E k \in Keys : \E c \in Chunks[k] : Deposit(k, c)
  \/ \E a \in Actors, k \in Keys : Answer(a, k)

Spec == Init /\ [][Next]_archive
=============================================================================
