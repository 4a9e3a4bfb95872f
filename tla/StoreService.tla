---------------------------- MODULE StoreService ----------------------------
(***************************************************************************)
(* What the store promises its clients, whatever caches stand between them *)
(* and the database.  A client is told the price of an item and a quantity *)
(* that may be out of date, but never below what is left nor above what    *)
(* there was.  It then gives up, because it was told that nothing is left, *)
(* or purchases one piece; a purchase is refused only if the item is sold  *)
(* out.                                                                    *)
(***************************************************************************)
EXTENDS Integers

CONSTANTS Clients, Items, Stock, Price

VARIABLES
    left,       \* pieces of each item that are for sale
    visit       \* what each client was told last

Away           == [phase |-> "away"]
Offer(i, p, q) == [phase |-> "offer", item |-> i, price |-> p, qty |-> q]
Refusal(i)     == [phase |-> "refused", item |-> i]

Init ==
    /\ left = Stock
    /\ visit = [c \in Clients |-> Away]

Turn(c, to) == visit' = [visit EXCEPT ![c] = to]

Inform(c) ==
    /\ visit[c] = Away
    /\ \E i \in Items : \E q \in left[i] .. Stock[i] : Turn(c, Offer(i, Price[i], q))
    /\ UNCHANGED left

GiveUp(c) ==
    /\ visit[c].phase = "offer" /\ visit[c].qty = 0
    /\ Turn(c, Away)
    /\ UNCHANGED left

Buy(c) ==
    /\ visit[c].phase = "offer" /\ visit[c].qty > 0
    /\ left[visit[c].item] > 0
    /\ left' = [left EXCEPT ![visit[c].item] = @ - 1]
    /\ Turn(c, Away)

Refuse(c) ==
    /\ visit[c].phase = "offer" /\ visit[c].qty > 0
    /\ left[visit[c].item] = 0
    /\ Turn(c, Refusal(visit[c].item))
    /\ UNCHANGED left

Retire(c) ==
    /\ visit[c].phase = "refused"
    /\ Turn(c, Away)
    /\ UNCHANGED left

Next ==
    \E c \in Clients : Inform(c) \/ GiveUp(c) \/ Buy(c) \/ Refuse(c) \/ Retire(c)

Spec == Init /\ [][Next]_<<left, visit>>
=============================================================================
