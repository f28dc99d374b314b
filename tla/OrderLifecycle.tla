--------------------------- MODULE OrderLifecycle ---------------------------
(***************************************************************************)
(* What an execution venue promises of orders and positions, without       *)
(* prices, cash or margin: an order is admitted or refused once, is filled *)
(* by amounts that never exceed what remains of it, is never touched again *)
(* once it is FILLED, CANCELLED or REJECTED, and the net position of a     *)
(* symbol moves by exactly the amounts filled.                             *)
(***************************************************************************)
EXTENDS Integers, Sequences, OrderStates

CONSTANTS Symbols, Quantities

VARIABLES
  book,   \* the orders, in the order of their creation
  net     \* net[s]: the signed position in symbol s

vars == <<book, net>>

Direction(side) == IF side = "BUY" THEN 1 ELSE -1

Init ==
  /\ book = <<>>
  /\ net = [s \in Symbols |-> 0]

Place(symbol, side, qty) ==
  /\ book' = Append(book, [symbol |-> symbol, side |-> side, qty |-> qty,
                           status |-> "CREATED", filled |-> 0])
  /\ UNCHANGED net

Move(o, status) ==
  /\ CanTransition(book[o].status, status)
  /\ book' = [book EXCEPT ![o].status = status]
  /\ UNCHANGED net

Admit(o)  == Move(o, "SUBMITTED")
Refuse(o) == book[o].status = "CREATED" /\ Move(o, "REJECTED")
Cancel(o) == Move(o, "CANCELLED")

(* A fill of k units; an order may be admitted and filled in one step. *)
Fill(o, k) ==
  /\ book[o].status \in Open \cup {"CREATED"}
  /\ k \in 1 .. book[o].qty - book[o].filled
  /\ LET filled == book[o].filled + k
     IN  book' = [book EXCEPT
           ![o].filled = filled,
           ![o].status = IF filled = book[o].qty THEN "FILLED"
                                                 ELSE "PARTIALLY_FILLED"]
  /\ net' = [net EXCEPT ![book[o].symbol] = @ + Direction(book[o].side) * k]

Next ==
  \/ \E symbol \in Symbols, side \in {"BUY", "SELL"}, qty \in Quantities :
       Place(symbol, side, qty)
  \/ \E o \in DOMAIN book :
       \/ Admit(o) \/ Refuse(o) \/ Cancel(o)
       \/ \E k \in 1 .. book[o].qty : Fill(o, k)

Spec == Init /\ [][Next]_vars
=============================================================================
