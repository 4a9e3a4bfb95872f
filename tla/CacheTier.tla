------------------------------ MODULE CacheTier ------------------------------
(***************************************************************************)
(* The cache between the mid tier and the database (Cache.java).  There is *)
(* one Cache object, in the master's process; each mid server's call runs  *)
(* in an RMI thread of its own, so a get is interleaved with every other.  *)
(* The master, while it serves requests itself, calls the database         *)
(* directly.                                                               *)
(*                                                                         *)
(* Requests come from clients that browse an item, read its price and its  *)
(* quantity from the answer, and purchase one piece at that price unless   *)
(* the quantity is below one.  The way of a request to the server is       *)
(* RequestFlow; here a client's pc is also that of the thread that works   *)
(* for it.  Categories, and the key of the item's own name, never change   *)
(* and are left out, and so is Cache.set, which no code calls.             *)
(***************************************************************************)
EXTENDS Integers, Sequences

CONSTANTS
    Clients,
    Items,
    Stock,      \* pieces of each item in the database at the start
    Price       \* of each item

ASSUME StockAssumption == Stock \in [Items -> Nat]
ASSUME PriceAssumption == Price \in [Items -> Nat]

Absent == -1            \* a key that cacheMap does not contain
PRICE  == 1
QTY    == 2
Parts  == {PRICE, QTY}  \* keys <item>_price and <item>_qty, in reading order

VARIABLES
    stock,      \* the database's value of the key <item>_qty
    cacheMap,   \* values of the two keys of each item
    pc,         \* where each client's request is
    cached,     \* the request is served by a mid server, through the cache
    item, part, \* the key that is read
    val,        \* Cache.get's local val
    reply,      \* price and quantity the client has been told so far
    sold        \* history: purchases of each item that were confirmed

vars == <<stock, cacheMap, pc, cached, item, part, val, reply, sold>>

PC == {"idle", "get", "hit", "miss", "put", "told", "transaction", "refused"}

Init ==
    /\ stock = Stock
    /\ cacheMap = [i \in Items |-> [k \in Parts |-> Absent]]
    /\ pc = [c \in Clients |-> "idle"]
    /\ cached = [c \in Clients |-> FALSE]
    /\ item \in [Clients -> Items]
    /\ part = [c \in Clients |-> PRICE]
    /\ val = [c \in Clients |-> Absent]
    /\ reply = [c \in Clients |-> [k \in Parts |-> Absent]]
    /\ sold = [i \in Items |-> 0]

Goto(c, label) == pc' = [pc EXCEPT ![c] = label]

\* The database's value of a key.
DB(i, k) == IF k = PRICE THEN Price[i] ELSE stock[i]

\* The first step of a get, through the cache or not.
StartGet(viaCache) == IF viaCache THEN "get" ELSE "miss"

-----------------------------------------------------------------------------
(* A browse request: one get per key.                                      *)

Browse(c) ==
    /\ pc[c] = "idle"
    /\ \E i \in Items, viaCache \in BOOLEAN :
          /\ item' = [item EXCEPT ![c] = i]
          /\ cached' = [cached EXCEPT ![c] = viaCache]
          /\ Goto(c, StartGet(viaCache))
    /\ part' = [part EXCEPT ![c] = PRICE]
    /\ UNCHANGED <<stock, cacheMap, val, reply, sold>>

\* get returns v: the next key, or the answer to the client.
Return(c, v) ==
    /\ reply' = [reply EXCEPT ![c][part[c]] = v]
    /\ val' = [val EXCEPT ![c] = Absent]
    /\ IF part[c] = PRICE
         THEN part' = [part EXCEPT ![c] = QTY] /\ Goto(c, StartGet(cached[c]))
         ELSE UNCHANGED part /\ Goto(c, "told")

ContainsKey(c) ==
    /\ pc[c] = "get"
    /\ Goto(c, IF cacheMap[item[c]][part[c]] = Absent THEN "miss" ELSE "hit")
    /\ UNCHANGED <<stock, cacheMap, cached, item, part, val, reply, sold>>

CacheRead(c) ==
    /\ pc[c] = "hit"
    /\ Return(c, cacheMap[item[c]][part[c]])
    /\ UNCHANGED <<stock, cacheMap, cached, item, sold>>

\* DB.get, for the cache or for the master.
DBGet(c) ==
    /\ pc[c] = "miss"
    /\ \/ /\ cached[c]
          /\ val' = [val EXCEPT ![c] = DB(item[c], part[c])]
          /\ Goto(c, "put")
          /\ UNCHANGED <<part, reply>>
       \/ ~cached[c] /\ Return(c, DB(item[c], part[c]))
    /\ UNCHANGED <<stock, cacheMap, cached, item, sold>>

\* Fault: val is a field of the one Cache object, so any thread's may be put.
CachePutSharedVal(c) ==
    /\ pc[c] = "put"
    /\ \E d \in Clients :
          /\ pc[d] = "put"
          /\ cacheMap' = [cacheMap EXCEPT ![item[c]][part[c]] = val[d]]
          /\ Return(c, val[d])
    /\ UNCHANGED <<stock, cached, item, sold>>

\* The value read is put and returned, whatever the map holds by now.
CachePut(c) ==
    /\ pc[c] = "put"
    /\ cacheMap' = [cacheMap EXCEPT ![item[c]][part[c]] = val[c]]
    /\ Return(c, val[c])
    /\ UNCHANGED <<stock, cached, item, sold>>

-----------------------------------------------------------------------------
(* A purchase request.                                                     *)

\* One piece, at the price of the answer; a mid server or the master serves it.
Purchase(c) ==
    /\ pc[c] = "told"
    /\ reply[c][QTY] >= 1
    /\ \E viaCache \in BOOLEAN : cached' = [cached EXCEPT ![c] = viaCache]
    /\ Goto(c, "transaction")
    /\ UNCHANGED <<stock, cacheMap, item, part, val, reply, sold>>

\* The client was told that nothing is left, or was refused, and ends; after
\* that, or after a sale, another client takes its place.
Leave(c) ==
    /\ \/ pc[c] = "told" /\ reply[c][QTY] < 1
       \/ pc[c] = "refused"
    /\ Goto(c, "idle")
    /\ reply' = [reply EXCEPT ![c] = [k \in Parts |-> Absent]]
    /\ UNCHANGED <<stock, cacheMap, cached, item, part, val, sold>>

\* Fault: the stock is not looked at.
TransactionUnchecked(c) ==
    /\ pc[c] = "transaction"
    /\ reply[c][PRICE] = Price[item[c]]
    /\ stock' = [stock EXCEPT ![item[c]] = @ - 1]
    /\ sold' = [sold EXCEPT ![item[c]] = @ + 1]
    /\ Goto(c, "idle")
    /\ reply' = [reply EXCEPT ![c] = [k \in Parts |-> Absent]]
    /\ UNCHANGED <<cacheMap, cached, item, part, val>>

\* Fault: a write-through cache that computes the new quantity from its copy.
TransactionFromCopy(c) ==
    /\ pc[c] = "transaction"
    /\ LET i == item[c]
           qty == cacheMap[i][QTY]
       IN  /\ qty >= 1
           /\ cacheMap' = [cacheMap EXCEPT ![i][QTY] = qty - 1]
           /\ stock' = [stock EXCEPT ![i] = qty - 1]
           /\ sold' = [sold EXCEPT ![i] = @ + 1]
    /\ Goto(c, "idle")
    /\ reply' = [reply EXCEPT ![c] = [k \in Parts |-> Absent]]
    /\ UNCHANGED <<cached, item, part, val>>

\* Fault: a sale is to invalidate the cached quantity, and sets it to zero.
TransactionClearsCopy(c) ==
    /\ pc[c] = "transaction"
    /\ LET i == item[c]
           ok == stock[i] >= 1
       IN  /\ cacheMap' = IF ok THEN [cacheMap EXCEPT ![i][QTY] = 0] ELSE cacheMap
           /\ stock' = IF ok THEN [stock EXCEPT ![i] = @ - 1] ELSE stock
           /\ sold' = IF ok THEN [sold EXCEPT ![i] = @ + 1] ELSE sold
    /\ Goto(c, "idle")
    /\ reply' = [reply EXCEPT ![c] = [k \in Parts |-> Absent]]
    /\ UNCHANGED <<cached, item, part, val>>

\* Fault: the client's quantity is passed on for the number of pieces.
TransactionWholeStock(c) ==
    /\ pc[c] = "transaction"
    /\ LET i == item[c]
           n == reply[c][QTY]
       IN  \/ /\ stock[i] >= n
              /\ stock' = [stock EXCEPT ![i] = @ - n]
              /\ sold' = [sold EXCEPT ![i] = @ + n]
              /\ Goto(c, "idle")
              /\ reply' = [reply EXCEPT ![c] = [k \in Parts |-> Absent]]
           \/ /\ stock[i] < n
              /\ Goto(c, "refused")
              /\ UNCHANGED <<stock, sold, reply>>
    /\ UNCHANGED <<cacheMap, cached, item, part, val>>

\* transaction: passed on to the database, where price and stock are checked
\* and the stock lowered in one synchronized step; the cache is not touched.
Transaction(c) ==
    /\ pc[c] = "transaction"
    /\ LET i == item[c]
       IN  \/ /\ reply[c][PRICE] = Price[i] /\ stock[i] >= 1
              /\ stock' = [stock EXCEPT ![i] = @ - 1]
              /\ sold' = [sold EXCEPT ![i] = @ + 1]
              /\ Goto(c, "idle")
              /\ reply' = [reply EXCEPT ![c] = [k \in Parts |-> Absent]]
           \/ /\ reply[c][PRICE] # Price[i] \/ stock[i] < 1
              /\ Goto(c, "refused")
              /\ UNCHANGED <<stock, sold, reply>>
    /\ UNCHANGED <<cacheMap, cached, item, part, val>>

-----------------------------------------------------------------------------
ClientStep(c) ==
    \/ Browse(c) \/ ContainsKey(c) \/ CacheRead(c) \/ DBGet(c) \/ CachePut(c)
    \/ Purchase(c) \/ Leave(c) \/ Transaction(c)

Next == \E c \in Clients : ClientStep(c)

Spec == Init /\ [][Next]_vars

-----------------------------------------------------------------------------
(* Properties.                                                             *)

(* Type invariant; no quantity is ever negative, and Absent is never       *)
(* mistaken for a value.                                                   *)
TypeOK ==
    /\ stock \in [Items -> Nat]
    /\ cacheMap \in [Items -> [Parts -> Nat \cup {Absent}]]
    /\ pc \in [Clients -> PC]
    /\ cached \in [Clients -> BOOLEAN]
    /\ item \in [Clients -> Items]
    /\ part \in [Clients -> Parts]
    /\ val \in [Clients -> Nat \cup {Absent}]
    /\ reply \in [Clients -> [Parts -> Nat \cup {Absent}]]
    /\ sold \in [Items -> Nat]

(* No piece is sold twice: however many clients act on stale quantities,   *)
(* no more purchases of an item are confirmed than there were pieces at    *)
(* the start, because Cache.transaction (line 42) leaves the decision to   *)
(* the database.                                                           *)
NoOversell == \A i \in Items : sold[i] <= Stock[i]

\* Quantities of item i that are known somewhere outside of the database.
KnownQty(i) ==
    {cacheMap[i][QTY]}
    \cup {val[c] : c \in {d \in Clients : item[d] = i /\ pc[d] = "put" /\ part[d] = QTY}}
    \cup {reply[c][QTY] : c \in {d \in Clients : item[d] = i /\ pc[d] = "told"}}

(* The cache is stale in one direction only: what it holds, reads or has   *)
(* answered is never less than the stock.  So a client that is told 0 and  *)
(* gives up does not walk away from an item that is still for sale,        *)
(* although nothing ever refreshes an entry (lines 26-33).                 *)
NeverUnderstated ==
    \A i \in Items : \A q \in KnownQty(i) : q = Absent \/ q >= stock[i]

(* A purchase at the price a client was told is refused only when the item *)
(* is sold out: concurrent gets never leave the value of one key under     *)
(* another (lines 27-32).                                                  *)
RefusedOnlySoldOut ==
    \A c \in Clients : pc[c] = "refused" => stock[item[c]] = 0

\* What each client was told last, as the store's promise has it.
storeVisit ==
    [c \in Clients |->
        IF pc[c] \in {"told", "transaction"}
          THEN [phase |-> "offer", item |-> item[c],
                price |-> reply[c][PRICE], qty |-> reply[c][QTY]]
        ELSE IF pc[c] = "refused" THEN [phase |-> "refused", item |-> item[c]]
        ELSE [phase |-> "away"]]

Store == INSTANCE StoreService WITH left <- stock, visit <- storeVisit

(* For a client, stale entries, concurrent fills and the master's direct   *)
(* access (Cache.java:26-43) amount to StoreService: a quantity that lags  *)
(* behind, and purchases of one piece each that only a sold out item       *)
(* refuses.                                                                *)
ImplementsStore == Store!Spec

(* README.md:7 "a write-through cache of the database": with no request    *)
(* under way, what the cache holds is what the database holds.             *)
WriteThrough ==
    (\A c \in Clients : pc[c] = "idle")
        => \A i \in Items, k \in Parts : cacheMap[i][k] \in {Absent, DB(i, k)}
=============================================================================
