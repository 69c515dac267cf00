----------------------------- MODULE Catalogue -----------------------------
(***************************************************************************)
(* What the index server promises to its peers, and IndexServer implements *)
(* with a queue, two locks and a walk over a vector: every request takes   *)
(* effect in one step, a search is answered with a holder whenever there   *)
(* is one at that moment, and orders to replicate go from holders of a     *)
(* file to users of the system, for each registration as many as it found *)
(* to be missing and no more.                                              *)
(***************************************************************************)
EXTENDS Naturals, Sequences

CONSTANTS Peers, Files, ReplicationFactor, NoPeer, NoReply

VARIABLES
  running,   \* the server has not been killed
  users,     \* who said NEW_USER
  holders,   \* who registered each file
  copies,    \* how often it was registered
  budget,    \* the orders that may still be given for each of these registrations
  orders,    \* the orders each peer was given
  last       \* the last answer to each peer

vars == <<running, users, holders, copies, budget, orders, last>>

\* The registrations of a file that leave it short of copies, by number.
Short == 1..(ReplicationFactor - 1)

Init ==
  /\ running = TRUE
  /\ users = {}
  /\ holders = [f \in Files |-> {}]
  /\ copies = [f \in Files |-> 0]
  /\ budget = [f \in Files |-> [n \in Short |-> 0]]
  /\ orders = [p \in Peers |-> <<>>]
  /\ last = [p \in Peers |-> NoReply]

Join(p) ==
  /\ users' = users \cup {p}
  /\ UNCHANGED <<running, holders, copies, budget, orders, last>>

\* What a registration finds to be missing may be ordered for it.
Register(f, p) ==
  /\ holders' = [holders EXCEPT ![f] = @ \cup {p}]
  /\ copies' = [copies EXCEPT ![f] = @ + 1]
  /\ budget' = IF copies'[f] \in Short
               THEN [budget EXCEPT ![f][copies'[f]] = ReplicationFactor - copies'[f]] ELSE budget
  /\ UNCHANGED <<running, users, orders, last>>

Search(f, p) ==
  /\ \E h \in IF holders[f] = {} THEN {NoPeer} ELSE holders[f] : last' = [last EXCEPT ![p] = h]
  /\ UNCHANGED <<running, users, holders, copies, budget, orders>>

\* A user p is told to download f from a holder h, for the n-th registration.
Order(f, p, h, n) ==
  /\ p \in users
  /\ h \in holders[f]
  /\ budget[f][n] > 0
  /\ budget' = [budget EXCEPT ![f][n] = @ - 1]
  /\ orders' = [orders EXCEPT ![p] = Append(@, [type |-> "REPLICATION_REQ", file |-> f, holder |-> h])]
  /\ UNCHANGED <<running, users, holders, copies, last>>

\* What a registration could not order is never ordered.
GiveUp(f, n) ==
  /\ budget[f][n] > 0
  /\ \E m \in 0..(budget[f][n] - 1) : budget' = [budget EXCEPT ![f][n] = m]
  /\ UNCHANGED <<running, users, holders, copies, orders, last>>

Stop ==
  /\ running' = FALSE
  /\ UNCHANGED <<users, holders, copies, budget, orders, last>>

Next ==
  /\ running
  /\ \/ Stop
     \/ \E p \in Peers : Join(p)
     \/ \E f \in Files, p \in Peers : Register(f, p) \/ Search(f, p)
     \/ \E f \in Files, n \in Short : GiveUp(f, n) \/ \E p, h \in Peers : Order(f, p, h, n)

Spec == Init /\ [][Next]_vars
=============================================================================
