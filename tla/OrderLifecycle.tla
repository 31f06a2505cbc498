--------------------------- MODULE OrderLifecycle ---------------------------
(***************************************************************************)
(* What an execution venue promises about every order it has accepted: the *)
(* order moves only along the state machine of the order domain, its       *)
(* filled quantity never shrinks and never passes the ordered quantity,    *)
(* status and filled quantity agree, and a terminal order is frozen.       *)
(* PaperEngine is shown to implement this specification with its orders,   *)
(* and TradingRuntime with the orders in its store.                        *)
(***************************************************************************)
EXTENDS Integers, OrderStatus

CONSTANTS OrderIds,    \* every id an order may have
          Quantities   \* the quantities that are ordered, positive

VARIABLE life   \* one record for every order the venue knows

\* The venue answers an order with any record a submitted order may reach.
Admit(o) ==
  /\ o \notin DOMAIN life
  /\ DOMAIN life' = DOMAIN life \cup {o}
  /\ \E q \in Quantities, s \in Successors["submitted"] : \E f \in 0..q :
       /\ StatusAgreesWithFills(s, f, q)
       /\ life' = [x \in DOMAIN life \cup {o} |->
                     IF x = o THEN [status |-> s, filled |-> f, quantity |-> q]
                              ELSE life[x]]

\* A fill or a cancellation moves the order one legal step.
Advance(o) ==
  /\ o \in DOMAIN life
  /\ \E s \in Successors[life[o].status],
        f \in life[o].filled .. life[o].quantity :
       /\ StatusAgreesWithFills(s, f, life[o].quantity)
       /\ life' = [life EXCEPT ![o].status = s, ![o].filled = f]

Init == life = [o \in {} |-> 0]

Next == \E o \in OrderIds : Admit(o) \/ Advance(o)

Spec == Init /\ [][Next]_life

=============================================================================
