--------------------------- MODULE CacheTierProofs ---------------------------
(***************************************************************************)
(* The safety invariants of CacheTier, proved for every set of clients and *)
(* items, every stock and every price.                                     *)
(***************************************************************************)
EXTENDS CacheTier, TLAPS

(* The cached price and the quantities known of item i are what they may   *)
(* be: the price exact, a quantity not below the stock nor above what there *)
(* was at the start.                                                       *)
Allowed(i, k, v) ==
    v = Absent \/ (v \in Nat /\ IF k = PRICE THEN v = Price[i]
                                 ELSE v >= stock[i] /\ v <= Stock[i])

\* What the map holds.
MapInv == \A i \in Items, k \in Parts : Allowed(i, k, cacheMap[i][k])

\* What each request holds: val between DB.get and put, and the answer so far.
RequestInv ==
    \A c \in Clients :
        /\ pc[c] = "put" => val[c] # Absent /\ Allowed(item[c], part[c], val[c])
        /\ pc[c] = "hit" => cacheMap[item[c]][part[c]] # Absent
        /\ \/ pc[c] \in {"told", "transaction", "refused"}
           \/ pc[c] \in {"get", "hit", "miss", "put"} /\ part[c] = QTY
           => reply[c][PRICE] = Price[item[c]]
        /\ pc[c] = "told" => reply[c][QTY] # Absent /\ Allowed(item[c], QTY, reply[c][QTY])
        /\ pc[c] = "transaction" => reply[c][QTY] >= 1

\* A piece is in stock or sold.
Ledger == \A i \in Items : stock[i] + sold[i] = Stock[i]

IInv == TypeOK /\ Ledger /\ MapInv /\ RequestInv /\ RefusedOnlySoldOut

-----------------------------------------------------------------------------
(* The initial states satisfy the invariant: nothing is cached or sold.    *)
LEMMA InitIInv == Init => IInv
  BY StockAssumption, PriceAssumption
  DEF Init, IInv, TypeOK, Ledger, MapInv, RequestInv, RefusedOnlySoldOut,
      Allowed, Parts, PRICE, QTY, Absent, PC

(* The database's value of a key is one that may be cached, and not Absent. *)
LEMMA DBAllowed ==
  ASSUME TypeOK, Ledger, NEW i \in Items, NEW k \in Parts
  PROVE  DB(i, k) \in Nat /\ Allowed(i, k, DB(i, k))
  BY PriceAssumption, StockAssumption
  DEF TypeOK, Ledger, DB, Allowed, Parts, PRICE, QTY

(* A get that returns an allowed value keeps the invariant, whether it put *)
(* the value into the map or left the map alone.                           *)
LEMMA ReturnStep ==
  ASSUME IInv, NEW c \in Clients, NEW v \in Nat,
         pc[c] \in {"hit", "miss", "put"},
         Allowed(item[c], part[c], v),
         Return(c, v),
         \/ cacheMap' = cacheMap
         \/ cacheMap' = [cacheMap EXCEPT ![item[c]][part[c]] = v],
         UNCHANGED <<stock, cached, item, sold>>
  PROVE  IInv'
<1> USE DEF IInv
<1>1. /\ item[c] \in Items /\ part[c] \in Parts /\ v # Absent
      /\ part[c] # PRICE => part[c] = QTY
  BY DEF TypeOK, Parts, PRICE, QTY, Absent
<1>2. TypeOK'
  <2>1. cacheMap' \in [Items -> [Parts -> Nat \cup {Absent}]]
    <3>1. CASE cacheMap' = cacheMap
      BY <3>1 DEF TypeOK
    <3>2. CASE cacheMap' = [cacheMap EXCEPT ![item[c]][part[c]] = v]
      BY <1>1, <3>2 DEF TypeOK
    <3> QED  BY <3>1, <3>2
  <2>2. reply' \in [Clients -> [Parts -> Nat \cup {Absent}]]
    BY <1>1 DEF TypeOK, Return
  <2>3. val' \in [Clients -> Nat \cup {Absent}]
    BY DEF TypeOK, Return
  <2>4. pc' \in [Clients -> PC]
    <3>1. StartGet(cached[c]) \in PC /\ "told" \in PC
      BY DEF StartGet, PC
    <3>2. \E label \in PC : pc' = [pc EXCEPT ![c] = label]
      BY <3>1 DEF Return, Goto
    <3> QED  BY <3>2 DEF TypeOK
  <2>5. part' \in [Clients -> Parts]
    <3>1. part' = part \/ part' = [part EXCEPT ![c] = QTY]
      BY DEF Return
    <3> QED  BY <3>1 DEF TypeOK, Parts
  <2> QED  BY <2>1, <2>2, <2>3, <2>4, <2>5 DEF TypeOK
<1>3. Ledger'
  BY DEF Ledger
<1>4. MapInv'
  <2> SUFFICES ASSUME NEW i \in Items, NEW k \in Parts
               PROVE  Allowed(i, k, cacheMap'[i][k])
    BY DEF MapInv, Allowed
  <2>1. CASE i = item[c] /\ k = part[c]
    <3>1. cacheMap'[i][k] = cacheMap[i][k] \/ cacheMap'[i][k] = v
      BY <2>1 DEF TypeOK
    <3> QED  BY <2>1, <3>1 DEF MapInv
  <2>2. CASE ~(i = item[c] /\ k = part[c])
    <3>1. cacheMap'[i][k] = cacheMap[i][k]
      BY <2>2 DEF TypeOK
    <3> QED  BY <3>1 DEF MapInv
  <2> QED  BY <2>1, <2>2
<1>5. RefusedOnlySoldOut'
  BY <1>1 DEF RefusedOnlySoldOut, Return, StartGet, Goto, TypeOK
<1>6. RequestInv'
  <2> SUFFICES ASSUME NEW d \in Clients
               PROVE  /\ pc'[d] = "put" => val'[d] # Absent /\ Allowed(item[d], part'[d], val'[d])
                      /\ pc'[d] = "hit" => cacheMap'[item[d]][part'[d]] # Absent
                      /\ \/ pc'[d] \in {"told", "transaction", "refused"}
                         \/ pc'[d] \in {"get", "hit", "miss", "put"} /\ part'[d] = QTY
                         => reply'[d][PRICE] = Price[item[d]]
                      /\ pc'[d] = "told" => /\ reply'[d][QTY] # Absent
                                            /\ Allowed(item[d], QTY, reply'[d][QTY])
                      /\ pc'[d] = "transaction" => reply'[d][QTY] >= 1
    BY DEF RequestInv, Allowed
  <2>1. CASE d = c
    BY <1>1, <2>1 DEF RequestInv, Return, StartGet, Goto, Allowed, TypeOK, Parts,
                      PRICE, QTY, Absent
  <2>2. CASE d # c
    BY <1>1, <2>2 DEF RequestInv, Return, Goto, Allowed, TypeOK, Parts,
                      PRICE, QTY, Absent
  <2> QED  BY <2>1, <2>2
<1> QED  BY <1>2, <1>3, <1>4, <1>5, <1>6

(* Every step preserves the invariant.                                     *)
LEMMA StepIInv == IInv /\ [Next]_vars => IInv'
<1> SUFFICES ASSUME IInv, [Next]_vars PROVE IInv'
  OBVIOUS
<1>1. CASE UNCHANGED vars
  BY <1>1 DEF vars, IInv, TypeOK, Ledger, MapInv, RequestInv,
              RefusedOnlySoldOut, Allowed
<1>2. ASSUME NEW c \in Clients, ClientStep(c) PROVE IInv'
  <2> item[c] \in Items /\ part[c] \in Parts
    BY DEF IInv, TypeOK
  <2>1. CASE Browse(c)
    <3>1. TypeOK'
      <4>1. /\ item' \in [Clients -> Items] /\ cached' \in [Clients -> BOOLEAN]
            /\ part' \in [Clients -> Parts]
        BY <2>1 DEF Browse, IInv, TypeOK, Parts
      <4>2. \E label \in PC : pc' = [pc EXCEPT ![c] = label]
        BY <2>1 DEF Browse, StartGet, Goto, PC
      <4>3. pc' \in [Clients -> PC]
        BY <4>2 DEF IInv, TypeOK
      <4> QED  BY <2>1, <4>1, <4>3 DEF Browse, IInv, TypeOK
    <3>2. Ledger' /\ MapInv'
      BY <2>1 DEF Browse, IInv, Ledger, MapInv, Allowed
    <3>3. /\ pc'[c] \in {"get", "miss"} /\ part'[c] = PRICE
          /\ \A d \in Clients \ {c} : /\ pc'[d] = pc[d] /\ part'[d] = part[d]
                                      /\ item'[d] = item[d]
      BY <2>1 DEF Browse, StartGet, Goto, IInv, TypeOK
    <3>4. RequestInv'
      BY <2>1, <3>3 DEF Browse, IInv, RequestInv, Allowed, PRICE, QTY
    <3>5. RefusedOnlySoldOut'
      BY <2>1, <3>3 DEF Browse, IInv, RefusedOnlySoldOut
    <3> QED  BY <3>1, <3>2, <3>4, <3>5 DEF IInv
  <2>2. CASE ContainsKey(c)
    BY <2>2 DEF ContainsKey, Goto, IInv, TypeOK, Ledger, MapInv, RequestInv,
                RefusedOnlySoldOut, Allowed, PC
  <2>3. CASE CacheRead(c)
    BY <2>3, ReturnStep
    DEF CacheRead, IInv, MapInv, RequestInv, Allowed
  <2>4. CASE DBGet(c)
    <3>1. CASE cached[c]
      <4> DEFINE v == DB(item[c], part[c])
      <4>1. v \in Nat /\ v # Absent /\ Allowed(item[c], part[c], v)
        BY DBAllowed DEF IInv, Absent
      <4>2. /\ pc' = [pc EXCEPT ![c] = "put"] /\ val' = [val EXCEPT ![c] = v]
            /\ pc[c] = "miss"
            /\ UNCHANGED <<stock, cacheMap, cached, item, part, reply, sold>>
        BY <2>4, <3>1 DEF DBGet, Goto
      <4> HIDE DEF v
      <4> QED  BY <4>1, <4>2 DEF IInv, TypeOK, Ledger, MapInv, RequestInv,
                                 RefusedOnlySoldOut, Allowed, PC
    <3>2. CASE ~cached[c]
      <4> DEFINE v == DB(item[c], part[c])
      <4>1. v \in Nat /\ Allowed(item[c], part[c], v)
        BY DBAllowed DEF IInv
      <4>2. /\ pc[c] = "miss" /\ Return(c, v)
            /\ UNCHANGED <<stock, cacheMap, cached, item, sold>>
        BY <2>4, <3>2 DEF DBGet
      <4> HIDE DEF v
      <4> QED  BY <4>1, <4>2, ReturnStep
    <3> QED  BY <3>1, <3>2
  <2>5. CASE CachePut(c)
    BY <2>5, ReturnStep DEF CachePut, IInv, RequestInv, Allowed
  <2>6. CASE Purchase(c)
    BY <2>6 DEF Purchase, Goto, IInv, TypeOK, Ledger, MapInv, RequestInv,
                RefusedOnlySoldOut, Allowed, PC
  <2>7. CASE Leave(c)
    BY <2>7 DEF Leave, Goto, IInv, TypeOK, Ledger, MapInv, RequestInv,
                RefusedOnlySoldOut, Allowed, Parts, Absent, PC
  <2>8. CASE Transaction(c)
    <3> DEFINE i == item[c]
    <3>1. CASE stock[i] >= 1
      <4>1. /\ stock' = [stock EXCEPT ![i] = @ - 1]
            /\ sold' = [sold EXCEPT ![i] = @ + 1]
            /\ pc' = [pc EXCEPT ![c] = "idle"]
            /\ reply' = [reply EXCEPT ![c] = [k \in Parts |-> Absent]]
            /\ UNCHANGED <<cacheMap, cached, item, part, val>>
        BY <2>8, <3>1 DEF Transaction, Goto, IInv, TypeOK, RequestInv
      <4>2. /\ TypeOK'
            /\ \A j \in Items : stock'[j] <= stock[j]
        BY <3>1, <4>1 DEF IInv, TypeOK, PC
      <4>3. Ledger'
        BY <3>1, <4>1, StockAssumption DEF IInv, TypeOK, Ledger
      <4>4. \A j \in Items, k \in Parts, v \in Nat \cup {Absent} :
                Allowed(j, k, v) => Allowed(j, k, v)'
        BY <4>2 DEF Allowed, IInv, TypeOK
      <4>5. MapInv'
        BY <4>1, <4>4 DEF IInv, TypeOK, MapInv
      <4>6. RequestInv'
        <5>1. \A d \in Clients :
                 /\ item[d] \in Items /\ part[d] \in Parts /\ QTY \in Parts
                 /\ val[d] \in Nat \cup {Absent}
                 /\ (pc'[d] = pc[d] /\ reply'[d] = reply[d]) \/ pc'[d] = "idle"
                 /\ reply[d][QTY] \in Nat \cup {Absent}
          BY <4>1 DEF IInv, TypeOK, Parts
        <5>2. ASSUME NEW d \in Clients, pc'[d] = "put"
              PROVE  val'[d] # Absent /\ Allowed(item[d], part[d], val[d])'
          BY <4>1, <4>4, <5>1, <5>2 DEF IInv, RequestInv
        <5>3. ASSUME NEW d \in Clients, pc'[d] = "told"
              PROVE  reply'[d][QTY] # Absent /\ Allowed(item[d], QTY, reply[d][QTY])'
          BY <4>1, <4>4, <5>1, <5>3 DEF IInv, RequestInv
        <5>4. ASSUME NEW d \in Clients
              PROVE  /\ pc'[d] = "hit" => cacheMap'[item'[d]][part'[d]] # Absent
                     /\ \/ pc'[d] \in {"told", "transaction", "refused"}
                        \/ pc'[d] \in {"get", "hit", "miss", "put"} /\ part'[d] = QTY
                        => reply'[d][PRICE] = Price[item'[d]]
                     /\ pc'[d] = "transaction" => reply'[d][QTY] >= 1
          BY <4>1, <5>1 DEF IInv, RequestInv
        <5> QED
          BY <5>2, <5>3, <5>4 DEF RequestInv
      <4>7. RefusedOnlySoldOut'
        BY <3>1, <4>1 DEF IInv, TypeOK, RefusedOnlySoldOut
      <4> QED  BY <4>2, <4>3, <4>5, <4>6, <4>7 DEF IInv
    <3>2. CASE stock[i] < 1
      <4>1. /\ pc[c] = "transaction" /\ pc' = [pc EXCEPT ![c] = "refused"]
            /\ UNCHANGED <<stock, cacheMap, cached, item, part, val, reply, sold>>
        BY <2>8, <3>2 DEF Transaction, Goto, IInv, TypeOK
      <4>2. stock[i] = 0
        BY <3>2 DEF IInv, TypeOK
      <4> QED  BY <4>1, <4>2 DEF IInv, TypeOK, Ledger, MapInv, RequestInv,
                                 RefusedOnlySoldOut, Allowed, PC
    <3> QED  BY <3>1, <3>2 DEF IInv, TypeOK
  <2> QED  BY <1>2, <2>1, <2>2, <2>3, <2>4, <2>5, <2>6, <2>7, <2>8 DEF ClientStep
<1> QED  BY <1>1, <1>2 DEF Next

(* The inductive invariant holds in every reachable state.                 *)
THEOREM InductiveInvariant == Spec => []IInv
  BY InitIInv, StepIInv, PTL DEF Spec

(* Types and non-negative quantities, for every stock and price.           *)
THEOREM TypeCorrect == Spec => []TypeOK
<1>1. IInv => TypeOK
  BY DEF IInv
<1> QED  BY <1>1, InductiveInvariant, PTL

(* No piece is sold twice, however many clients act on stale quantities:   *)
(* what was sold is no longer in stock, and no sale finds less than one     *)
(* piece (Cache.java:42).                                                   *)
THEOREM NothingOversold == Spec => []NoOversell
<1>1. IInv => NoOversell
  <2> SUFFICES ASSUME IInv, NEW i \in Items PROVE sold[i] <= Stock[i]
    BY DEF NoOversell
  <2>1. stock[i] \in Nat /\ sold[i] \in Nat /\ Stock[i] \in Nat
    BY StockAssumption DEF IInv, TypeOK
  <2>2. stock[i] + sold[i] = Stock[i]
    BY DEF IInv, Ledger
  <2> QED
    BY <2>1, <2>2
<1> QED  BY <1>1, InductiveInvariant, PTL

(* A quantity outside of the database is never below the stock.            *)
THEOREM StaleUpwardsOnly == Spec => []NeverUnderstated
<1>1. IInv => NeverUnderstated
  BY DEF IInv, MapInv, RequestInv, NeverUnderstated, KnownQty, Allowed, Parts, PRICE, QTY
<1> QED  BY <1>1, InductiveInvariant, PTL

(* A refused purchase means that the item is sold out.                     *)
THEOREM RefusalsJustified == Spec => []RefusedOnlySoldOut
<1>1. IInv => RefusedOnlySoldOut
  BY DEF IInv
<1> QED  BY <1>1, InductiveInvariant, PTL

-----------------------------------------------------------------------------
(* CacheTier implements StoreService: what each client was told last is    *)
(* its visit, and each step turns one visit at most.                       *)

(* Nothing was told at the start.                                          *)
LEMMA StoreInit == Init => Store!Init
  BY DEF Init, Store!Init, Store!Away, storeVisit

(* Only the visit of the client that takes a step can change.              *)
LEMMA OneVisit ==
  ASSUME NEW c \in Clients,
         \A d \in Clients \ {c} :
             pc'[d] = pc[d] /\ item'[d] = item[d] /\ reply'[d] = reply[d]
  PROVE  storeVisit' = [storeVisit EXCEPT ![c] = storeVisit'[c]]
<1>1. \A d \in Clients \ {c} : storeVisit'[d] = storeVisit[d]
  BY DEF storeVisit
<1>2. /\ storeVisit = [d \in Clients |-> storeVisit[d]]
      /\ storeVisit' = [d \in Clients |-> storeVisit'[d]]
  BY DEF storeVisit
<1> QED
  BY <1>1, <1>2

(* A get that returns a value tells the client the quantity if it was the  *)
(* second one, and tells nothing yet if it was the first.                  *)
LEMMA ReturnTurn ==
  ASSUME IInv, NEW c \in Clients, NEW v \in Nat,
         pc[c] \in {"hit", "miss", "put"},
         Allowed(item[c], part[c], v),
         Return(c, v),
         UNCHANGED <<stock, item>>
  PROVE  [Store!Next]_<<stock, storeVisit>>
<1>1. /\ \A d \in Clients \ {c} : pc'[d] = pc[d] /\ item'[d] = item[d] /\ reply'[d] = reply[d]
      /\ item'[c] = item[c] /\ item[c] \in Items /\ part[c] \in Parts
  BY DEF IInv, TypeOK, Return, Goto
<1>2. storeVisit[c] = Store!Away
  BY DEF storeVisit, Store!Away
<1>3. CASE part[c] = PRICE
  <2>1. pc'[c] \in {"get", "miss"}
    BY <1>3 DEF Return, Goto, StartGet, IInv, TypeOK
  <2>2. storeVisit'[c] = Store!Away
    BY <2>1 DEF storeVisit, Store!Away
  <2> QED
    BY <1>1, <1>2, <2>2, OneVisit DEF storeVisit
<1>4. CASE part[c] = QTY
  <2>1. pc'[c] = "told" /\ reply'[c] = [reply[c] EXCEPT ![QTY] = v]
    BY <1>4 DEF Return, Goto, IInv, TypeOK, PRICE, QTY
  <2>2. reply'[c][QTY] = v /\ reply'[c][PRICE] = Price[item[c]]
    BY <1>4, <2>1 DEF IInv, TypeOK, RequestInv, Parts, PRICE, QTY
  <2>3. storeVisit'[c] = Store!Offer(item[c], Price[item[c]], v)
    BY <1>1, <2>1, <2>2 DEF storeVisit, Store!Offer
  <2>4. v \in stock[item[c]] .. Stock[item[c]]
    BY <1>1, <1>4, StockAssumption DEF Allowed, IInv, TypeOK, PRICE, QTY, Absent
  <2>5. Store!Inform(c)
    BY <1>1, <1>2, <2>3, <2>4, OneVisit DEF Store!Inform, Store!Turn
  <2> QED
    BY <2>5 DEF Store!Next
<1> QED
  BY <1>1, <1>3, <1>4 DEF Parts

(* Every step is a step of the service, or changes nothing in it.          *)
LEMMA StoreStep == IInv /\ [Next]_vars => [Store!Next]_<<stock, storeVisit>>
<1> SUFFICES ASSUME IInv, [Next]_vars PROVE [Store!Next]_<<stock, storeVisit>>
  OBVIOUS
<1>1. CASE UNCHANGED vars
  BY <1>1 DEF vars, storeVisit
<1>2. ASSUME NEW c \in Clients, ClientStep(c)
      PROVE  [Store!Next]_<<stock, storeVisit>>
  <2> item[c] \in Items /\ part[c] \in Parts
    BY DEF IInv, TypeOK
  <2>1. \A d \in Clients \ {c} :
            pc'[d] = pc[d] /\ item'[d] = item[d] /\ reply'[d] = reply[d]
    BY <1>2 DEF ClientStep, Browse, ContainsKey, CacheRead, DBGet, CachePut, Purchase,
                Leave, Transaction, Return, Goto, IInv, TypeOK
  <2>2. storeVisit' = [storeVisit EXCEPT ![c] = storeVisit'[c]]
    BY <2>1, OneVisit
  <2>3. CASE Browse(c) \/ ContainsKey(c)
    <3>1. /\ pc[c] \in {"idle", "get"} /\ pc'[c] \in {"get", "miss", "hit"}
          /\ UNCHANGED stock
      BY <2>3 DEF Browse, ContainsKey, Goto, StartGet, IInv, TypeOK
    <3>2. storeVisit'[c] = storeVisit[c]
      BY <3>1 DEF storeVisit
    <3> QED
      BY <2>2, <3>1, <3>2 DEF storeVisit
  <2>4. CASE CacheRead(c)
    BY <2>4, ReturnTurn DEF CacheRead, IInv, MapInv, RequestInv, Allowed
  <2>5. CASE DBGet(c)
    <3>1. CASE cached[c]
      <4>1. pc[c] = "miss" /\ pc'[c] = "put" /\ UNCHANGED stock
        BY <2>5, <3>1 DEF DBGet, Goto, IInv, TypeOK
      <4>2. storeVisit'[c] = storeVisit[c]
        BY <4>1 DEF storeVisit
      <4> QED
        BY <2>2, <4>1, <4>2 DEF storeVisit
    <3>2. CASE ~cached[c]
      <4> DEFINE v == DB(item[c], part[c])
      <4>1. v \in Nat /\ Allowed(item[c], part[c], v)
        BY DBAllowed DEF IInv
      <4>2. pc[c] = "miss" /\ Return(c, v) /\ UNCHANGED <<stock, item>>
        BY <2>5, <3>2 DEF DBGet
      <4> HIDE DEF v
      <4> QED
        BY <4>1, <4>2, ReturnTurn
    <3> QED
      BY <3>1, <3>2
  <2>6. CASE CachePut(c)
    BY <2>6, ReturnTurn DEF CachePut, IInv, RequestInv, Allowed
  <2>7. CASE Purchase(c)
    <3>1. /\ pc[c] = "told" /\ pc'[c] = "transaction"
          /\ item' = item /\ reply' = reply /\ UNCHANGED stock
      BY <2>7 DEF Purchase, Goto, IInv, TypeOK
    <3>2. storeVisit'[c] = storeVisit[c]
      BY <3>1 DEF storeVisit
    <3> QED
      BY <2>2, <3>1, <3>2 DEF storeVisit
  <2>8. CASE Leave(c)
    <3>1. pc'[c] = "idle" /\ UNCHANGED stock
      BY <2>8 DEF Leave, Goto, IInv, TypeOK
    <3>2. storeVisit'[c] = Store!Away
      BY <3>1 DEF storeVisit, Store!Away
    <3>3. CASE pc[c] = "told" /\ reply[c][QTY] < 1
      <4>1. reply[c][QTY] = 0
        BY <3>3 DEF IInv, RequestInv, Allowed, PRICE, QTY
      <4>2. storeVisit[c].phase = "offer" /\ storeVisit[c].qty = 0
        BY <3>3, <4>1 DEF storeVisit
      <4>3. Store!GiveUp(c)
        BY <2>2, <3>1, <3>2, <4>2 DEF Store!GiveUp, Store!Turn
      <4> QED
        BY <4>3 DEF Store!Next
    <3>4. CASE pc[c] = "refused"
      <4>1. storeVisit[c].phase = "refused"
        BY <3>4 DEF storeVisit
      <4>2. Store!Retire(c)
        BY <2>2, <3>1, <3>2, <4>1 DEF Store!Retire, Store!Turn
      <4> QED
        BY <4>2 DEF Store!Next
    <3> QED
      BY <2>8, <3>3, <3>4 DEF Leave
  <2>9. CASE Transaction(c)
    <3>1. /\ pc[c] = "transaction" /\ item' = item
          /\ reply[c][PRICE] = Price[item[c]] /\ reply[c][QTY] >= 1
          /\ reply[c][QTY] \in Nat \cup {Absent}
      BY <2>9 DEF Transaction, IInv, RequestInv, TypeOK, Parts, QTY
    <3>2. /\ storeVisit[c].phase = "offer" /\ storeVisit[c].item = item[c]
          /\ storeVisit[c].qty = reply[c][QTY] /\ storeVisit[c].qty > 0
      BY <3>1 DEF storeVisit, Absent
    <3>3. CASE stock[item[c]] >= 1
      <4>1. /\ stock' = [stock EXCEPT ![item[c]] = @ - 1]
            /\ pc'[c] = "idle"
        BY <2>9, <3>1, <3>3 DEF Transaction, Goto, IInv, TypeOK
      <4>2. storeVisit'[c] = Store!Away
        BY <4>1 DEF storeVisit, Store!Away
      <4>3. Store!Buy(c)
        BY <2>2, <3>2, <3>3, <4>1, <4>2 DEF Store!Buy, Store!Turn, IInv, TypeOK
      <4> QED
        BY <4>3 DEF Store!Next
    <3>4. CASE stock[item[c]] < 1
      <4>1. UNCHANGED stock /\ pc'[c] = "refused" /\ stock[item[c]] = 0
        BY <2>9, <3>1, <3>4 DEF Transaction, Goto, IInv, TypeOK
      <4>2. storeVisit'[c] = Store!Refusal(item[c])
        BY <3>1, <4>1 DEF storeVisit, Store!Refusal
      <4>3. Store!Refuse(c)
        BY <2>2, <3>2, <4>1, <4>2 DEF Store!Refuse, Store!Turn
      <4> QED
        BY <4>3 DEF Store!Next
    <3> QED
      BY <3>3, <3>4 DEF IInv, TypeOK
  <2> QED
    BY <1>2, <2>3, <2>4, <2>5, <2>6, <2>7, <2>8, <2>9 DEF ClientStep
<1> QED
  BY <1>1, <1>2 DEF Next

(* The cache, the database and the master's direct access together are a   *)
(* StoreService, for any clients, items, stock and prices.                 *)
THEOREM Implements == Spec => ImplementsStore
  BY StoreInit, StoreStep, InductiveInvariant, PTL DEF Spec, ImplementsStore, Store!Spec
=============================================================================
