------------------------------ MODULE Checkout -------------------------------
(***************************************************************************)
(* POST /orders, statement by statement.  OrderFlow takes the placement of *)
(* an order as one step; here it is the READ COMMITTED transaction it is:  *)
(* the idempotency key is claimed, the variants of the confirmed lines are *)
(* looked up, their rows are locked one by one in id order, the basket is  *)
(* read and the voucher's row locked, the rules decide, and only then is   *)
(* anything written.  Other requests, the customers' other tabs, a         *)
(* cancellation and a process that dies come in between any two of these.  *)
(*                                                                         *)
(* Writes of a transaction are seen when it commits, so they are made in   *)
(* the commit step; a row lock is what keeps the values read under it true *)
(* until then.                                                             *)
(***************************************************************************)
EXTENDS Integers, FiniteSets, Functions

CONSTANTS
  Requests,         \* POST /orders calls, retries and double clicks included
  Arrivals,         \* the sets of them that may come together
  None,             \* no request
  Buyers,           \* actors, each with one cart
  Keys,             \* idempotency keys
  Lines,            \* cart_item rows
  NumVariants,      \* product_variant rows, by id order
  BuyerOf, KeyOf,   \* who sends a request, and under which key
  Confirmed,        \* the quantity a request confirms of each of its lines
  Discounted,       \* whether the total it expects has the voucher's discount
  OwnerOf, VariantOf,  \* whose cart a line is in, and the variant it is on
  OnCart,           \* the quantity of each line at the start
  OnHand,           \* stock_on_hand of every variant
  UsageLimit, PerSessionLimit

Variants == 1..NumVariants

ASSUME VariantsAssumption == NumVariants \in Nat
ASSUME RequestsAssumption ==
  /\ None \notin Requests /\ Arrivals \subseteq SUBSET Requests
  /\ BuyerOf \in [Requests -> Buyers]
  /\ KeyOf \in [Requests -> Keys]
  /\ Discounted \in [Requests -> BOOLEAN]
ASSUME LinesAssumption ==
  /\ OwnerOf \in [Lines -> Buyers]
  /\ VariantOf \in [Lines -> Variants]
  /\ OnCart \in [Lines -> Nat]
  /\ DOMAIN Confirmed = Requests
  /\ \A r \in Requests : \E S \in SUBSET Lines : Confirmed[r] \in [S -> Nat \ {0}]
\* One variant on two lines of one request is OrderFlow's case, not this one's.
ASSUME SplitAssumption ==
  \A r \in Requests : \A l, m \in DOMAIN Confirmed[r] :
    VariantOf[l] = VariantOf[m] => l = m
ASSUME LimitsAssumption == OnHand \in Nat /\ UsageLimit \in Nat /\ PerSessionLimit \in Nat

VARIABLES
  pc,          \* the statement each request is at
  keyRow,      \* idempotency_key: the request whose insert holds the key
  lock,        \* who holds each variant row FOR UPDATE
  voucherLock, \* who holds the voucher row
  seen,        \* what each request has read so far
  reserved,    \* stock_reserved of each variant
  redeemed,    \* orders with a voucher_redemption row
  cart,        \* quantity on each line, 0 once the row is gone
  attached,    \* whether the voucher is on each buyer's cart
  orders,      \* the requests that created an order
  cancelled,   \* the orders cancelled since
  answer,      \* the order a request was answered with
  mails        \* "we have your order" mails sent per order

tables == <<reserved, redeemed, cart, attached, orders, cancelled>>
locks == <<keyRow, lock, voucherLock>>
vars == <<pc, locks, seen, tables, answer, mails>>

LinesOf(r) == DOMAIN Confirmed[r]

\* Between BEGIN and COMMIT.
InTransaction(r) ==
  pc[r] \in {"claimed", "locking", "locked", "voucher", "deciding", "writing"}

Unread == [want |-> {}, level |-> [v \in Variants |-> 0], basket |-> [l \in Lines |-> 0],
           voucher |-> FALSE, redeem |-> FALSE]

Init ==
  /\ \E sent \in Arrivals :
       pc = [r \in Requests |-> IF r \in sent THEN "ready" ELSE "unsent"]
  /\ keyRow = [k \in Keys |-> None]
  /\ lock = [v \in Variants |-> None]
  /\ voucherLock = None
  /\ seen = [r \in Requests |-> Unread]
  /\ reserved = [v \in Variants |-> 0]
  /\ redeemed = {}
  /\ cart = OnCart
  /\ attached = [b \in Buyers |-> TRUE]
  /\ orders = {}
  /\ cancelled = {}
  /\ answer = [r \in Requests |-> None]
  /\ mails = [r \in Requests |-> 0]

-----------------------------------------------------------------------------
(* The transaction.                                                        *)

\* Mutant of Claim: a taken key is not noticed.
ClaimUnchecked(r) ==
  /\ pc[r] = "ready"
  /\ keyRow' = [keyRow EXCEPT ![KeyOf[r]] = r]
  /\ pc' = [pc EXCEPT ![r] = "claimed"]
  /\ UNCHANGED <<lock, voucherLock, seen, tables, answer, mails>>

\* INSERT ... ON CONFLICT DO NOTHING: waits for a transaction that has
\* inserted the key and not committed, finds it taken once that one commits.
Claim(r) ==
  /\ pc[r] = "ready"
  /\ \/ /\ keyRow[KeyOf[r]] = None
        /\ keyRow' = [keyRow EXCEPT ![KeyOf[r]] = r]
        /\ pc' = [pc EXCEPT ![r] = "claimed"]
     \/ /\ keyRow[KeyOf[r]] # None
        /\ ~InTransaction(keyRow[KeyOf[r]])
        /\ pc' = [pc EXCEPT ![r] = "replay"]
        /\ UNCHANGED keyRow
  /\ UNCHANGED <<lock, voucherLock, seen, tables, answer, mails>>

\* variantIdsForLines: the variants of the confirmed lines still in the cart.
LookUp(r) ==
  /\ pc[r] = "claimed"
  /\ LET inCart == {l \in LinesOf(r) : OwnerOf[l] = BuyerOf[r] /\ cart[l] > 0}
     IN seen' = [seen EXCEPT ![r].want = {VariantOf[l] : l \in inCart}]
  /\ pc' = [pc EXCEPT ![r] = "locking"]
  /\ UNCHANGED <<locks, tables, answer, mails>>

Held(r) == {v \in Variants : lock[v] = r}
ToLock(r) == seen[r].want \ Held(r)

\* Mutant of IsNextToLock: rows are locked in the order the request names them.
IsToLock(r, v) == v \in ToLock(r)

IsNextToLock(r, v) == v \in ToLock(r) /\ \A u \in ToLock(r) : v <= u

\* Mutant of LockVariant: a plain SELECT, without FOR UPDATE.
SelectVariant(r) ==
  /\ pc[r] = "locking"
  /\ \E v \in Variants :
       /\ IsNextToLock(r, v)
       /\ lock' = [lock EXCEPT ![v] = r]
       /\ seen' = [seen EXCEPT ![r].level[v] = reserved[v]]
  /\ UNCHANGED <<pc, keyRow, voucherLock, tables, answer, mails>>

\* SELECT ... ORDER BY id FOR UPDATE takes the rows one at a time, and reads
\* each as of its lock.
LockVariant(r) ==
  /\ pc[r] = "locking"
  /\ \E v \in Variants :
       /\ IsNextToLock(r, v)
       /\ lock[v] = None
       /\ lock' = [lock EXCEPT ![v] = r]
       /\ seen' = [seen EXCEPT ![r].level[v] = reserved[v]]
  /\ UNCHANGED <<pc, keyRow, voucherLock, tables, answer, mails>>

HaveLocked(r) ==
  /\ pc[r] = "locking"
  /\ ToLock(r) = {}
  /\ pc' = [pc EXCEPT ![r] = "locked"]
  /\ UNCHANGED <<locks, seen, tables, answer, mails>>

CartOf(b) == [l \in Lines |-> IF OwnerOf[l] = b THEN cart[l] ELSE 0]

\* Mutant of ReadBasket: the basket is read while the locks are waited for.
ReadBasketEarly(r) ==
  \/ /\ pc[r] = "locking"
     /\ seen' = [seen EXCEPT ![r].basket = CartOf(BuyerOf[r]), ![r].voucher = attached[BuyerOf[r]]]
     /\ UNCHANGED <<pc, locks, tables, answer, mails>>
  \/ /\ pc[r] = "locked"
     /\ pc' = [pc EXCEPT ![r] = IF seen[r].voucher THEN "voucher" ELSE "deciding"]
     /\ UNCHANGED <<locks, seen, tables, answer, mails>>

\* queryBasket: the cart as it is now, after the variant locks.
ReadBasket(r) ==
  /\ pc[r] = "locked"
  /\ seen' = [seen EXCEPT ![r].basket = CartOf(BuyerOf[r]), ![r].voucher = attached[BuyerOf[r]]]
  /\ pc' = [pc EXCEPT ![r] = IF attached[BuyerOf[r]] THEN "voucher" ELSE "deciding"]
  /\ UNCHANGED <<locks, tables, answer, mails>>

RedeemedBy(b) == {o \in redeemed : BuyerOf[o] = b}

MayRedeem(b) ==
  /\ Cardinality(redeemed) < UsageLimit
  /\ Cardinality(RedeemedBy(b)) < PerSessionLimit

\* Mutant of LockVoucher: the terms are read without the row lock.
ReadVoucher(r) ==
  /\ pc[r] = "voucher"
  /\ seen' = [seen EXCEPT ![r].redeem = MayRedeem(BuyerOf[r])]
  /\ pc' = [pc EXCEPT ![r] = "deciding"]
  /\ UNCHANGED <<locks, tables, answer, mails>>

\* The voucher's terms and the buyer's redemptions, read under its row lock.
LockVoucher(r) ==
  /\ pc[r] = "voucher"
  /\ voucherLock = None
  /\ voucherLock' = r
  /\ seen' = [seen EXCEPT ![r].redeem = MayRedeem(BuyerOf[r])]
  /\ pc' = [pc EXCEPT ![r] = "deciding"]
  /\ UNCHANGED <<keyRow, lock, tables, answer, mails>>

\* The units of v a request asks for.  No two of its lines share a variant.
Asked(r, v) ==
  IF \E l \in LinesOf(r) : VariantOf[l] = v
  THEN Confirmed[r][CHOOSE l \in LinesOf(r) : VariantOf[l] = v]
  ELSE 0

\* orderableLines, reserveStock for every line, and the total the customer saw.
Acceptable(r) ==
  /\ \A l \in LinesOf(r) : Confirmed[r][l] <= seen[r].basket[l]
  /\ \A l \in LinesOf(r) :
       /\ VariantOf[l] \in seen[r].want
       /\ seen[r].level[VariantOf[l]] + Confirmed[r][l] <= OnHand
  /\ seen[r].redeem = Discounted[r]

Decide(r) ==
  /\ pc[r] = "deciding"
  /\ Acceptable(r)
  /\ pc' = [pc EXCEPT ![r] = "writing"]
  /\ UNCHANGED <<locks, seen, tables, answer, mails>>

\* Mutant of Unlocked: the voucher row stays locked.
VariantsUnlocked(r) ==
  /\ lock' = [v \in Variants |-> IF lock[v] = r THEN None ELSE lock[v]]
  /\ UNCHANGED voucherLock

Unlocked(r) ==
  /\ lock' = [v \in Variants |-> IF lock[v] = r THEN None ELSE lock[v]]
  /\ voucherLock' = IF voucherLock = r THEN None ELSE voucherLock

\* Every write, and COMMIT.  The cart rows go whatever quantity they have by now.
Commit(r) ==
  /\ pc[r] = "writing"
  /\ orders' = orders \union {r}
  /\ reserved' = [v \in Variants |-> IF Asked(r, v) > 0
                                     THEN seen[r].level[v] + Asked(r, v)
                                     ELSE reserved[v]]
  /\ redeemed' = IF seen[r].redeem THEN redeemed \union {r} ELSE redeemed
  /\ cart' = [l \in Lines |-> IF l \in LinesOf(r) THEN 0 ELSE cart[l]]
  /\ attached' = [attached EXCEPT ![BuyerOf[r]] = IF seen[r].redeem THEN FALSE ELSE @]
  /\ Unlocked(r)
  /\ pc' = [pc EXCEPT ![r] = "placed"]
  /\ UNCHANGED <<keyRow, seen, cancelled, answer, mails>>

\* Mutant of RollBack: the key was claimed outside the transaction.
RollBackKeepingKey(r) ==
  /\ Unlocked(r)
  /\ pc' = [pc EXCEPT ![r] = "refused"]
  /\ UNCHANGED <<keyRow, seen, tables, answer, mails>>

\* The locks are let go, and the key is free again.
RollBack(r) ==
  /\ Unlocked(r)
  /\ keyRow' = [keyRow EXCEPT ![KeyOf[r]] = None]
  /\ pc' = [pc EXCEPT ![r] = "refused"]
  /\ UNCHANGED <<seen, tables, answer, mails>>

\* A rule throws.
Refuse(r) ==
  /\ pc[r] = "deciding"
  /\ ~Acceptable(r)
  /\ RollBack(r)

\* The transaction times out, or the process dies.
Abort(r) ==
  /\ InTransaction(r)
  /\ RollBack(r)

-----------------------------------------------------------------------------
(* The answer.                                                             *)

\* After the commit: mail the customer, answer with the order.
Confirm(r) ==
  /\ pc[r] = "placed"
  /\ mails' = [mails EXCEPT ![r] = @ + 1]
  /\ answer' = [answer EXCEPT ![r] = r]
  /\ pc' = [pc EXCEPT ![r] = "answered"]
  /\ UNCHANGED <<locks, seen, tables>>

\* The process dies after the commit: the order stands, nobody is told.
Dies(r) ==
  /\ pc[r] = "placed"
  /\ pc' = [pc EXCEPT ![r] = "lost"]
  /\ UNCHANGED <<locks, seen, tables, answer, mails>>

\* Mutant of SameRequest: the key alone identifies the request.
SameKey(r, p) == KeyOf[r] = KeyOf[p]

\* replayed: the key's order, for the same session sending the same body only.
SameRequest(r, p) ==
  BuyerOf[r] = BuyerOf[p] /\ Confirmed[r] = Confirmed[p] /\ Discounted[r] = Discounted[p]

\* Mutant of Replay: a retry mails the customer like a first request.
ReplayWithMail(r) ==
  /\ pc[r] = "replay"
  /\ LET p == keyRow[KeyOf[r]]
     IN IF SameRequest(r, p)
        THEN /\ answer' = [answer EXCEPT ![r] = p]
             /\ mails' = [mails EXCEPT ![p] = @ + 1]
             /\ pc' = [pc EXCEPT ![r] = "answered"]
        ELSE /\ pc' = [pc EXCEPT ![r] = "refused"]
             /\ UNCHANGED <<answer, mails>>
  /\ UNCHANGED <<locks, seen, tables>>

Replay(r) ==
  /\ pc[r] = "replay"
  /\ LET p == keyRow[KeyOf[r]]
     IN IF SameRequest(r, p)
        THEN /\ answer' = [answer EXCEPT ![r] = p]
             /\ pc' = [pc EXCEPT ![r] = "answered"]
        ELSE /\ pc' = [pc EXCEPT ![r] = "refused"]
             /\ UNCHANGED answer
  /\ UNCHANGED <<locks, seen, tables, mails>>

-----------------------------------------------------------------------------
(* Meanwhile.                                                              *)

\* The cart page in another tab changes a quantity, or removes the line.
EditLine(l) ==
  /\ cart[l] > 0
  /\ \E q \in 0..OnCart[l] : cart' = [cart EXCEPT ![l] = q]
  /\ UNCHANGED <<pc, locks, seen, reserved, redeemed, attached, orders, cancelled, answer, mails>>

AttachVoucher(b) ==
  /\ ~attached[b]
  /\ attached' = [attached EXCEPT ![b] = TRUE]
  /\ UNCHANGED <<pc, locks, seen, reserved, redeemed, cart, orders, cancelled, answer, mails>>

\* Mutant of CancelOrder: the status is not read under the order's lock.
CancelOrderAgain(o) ==
  /\ o \in orders
  /\ \A l \in LinesOf(o) : lock[VariantOf[l]] = None
  /\ o \in redeemed => voucherLock = None
  /\ reserved' = [v \in Variants |-> reserved[v] - Asked(o, v)]
  /\ redeemed' = redeemed \ {o}
  /\ cancelled' = cancelled \union {o}
  /\ UNCHANGED <<pc, locks, seen, cart, attached, orders, answer, mails>>

\* Another transaction gives an order's units and voucher use back.  It holds
\* the same row locks, so it runs when nobody else does.
CancelOrder(o) ==
  /\ o \in orders \ cancelled
  /\ \A l \in LinesOf(o) : lock[VariantOf[l]] = None
  /\ o \in redeemed => voucherLock = None
  /\ reserved' = [v \in Variants |-> reserved[v] - Asked(o, v)]
  /\ redeemed' = redeemed \ {o}
  /\ cancelled' = cancelled \union {o}
  /\ UNCHANGED <<pc, locks, seen, cart, attached, orders, answer, mails>>

-----------------------------------------------------------------------------
\* What the server does with a request it has accepted.
Handle(r) ==
  \/ Claim(r)
  \/ LookUp(r)
  \/ LockVariant(r)
  \/ HaveLocked(r)
  \/ ReadBasket(r)
  \/ LockVoucher(r)
  \/ Decide(r)
  \/ Refuse(r)
  \/ Commit(r)
  \/ Confirm(r)
  \/ Replay(r)

Next ==
  \/ \E r \in Requests : Handle(r)
  \/ \E r \in Requests : Abort(r)
  \/ \E r \in Requests : Dies(r)
  \/ \E l \in Lines : EditLine(l)
  \/ \E b \in Buyers : AttachVoucher(b)
  \/ \E o \in Requests : CancelOrder(o)

Spec == Init /\ [][Next]_vars

\* The server goes on with every request as long as it can: a lock that is
\* free is handed on.  Nothing has to time out or die, and nobody has to edit
\* a cart or cancel.
FairSpec == Spec /\ \A r \in Requests : WF_vars(Handle(r))
-----------------------------------------------------------------------------
(* Properties.                                                             *)

Statements == {"unsent", "ready", "claimed", "locking", "locked", "voucher", "deciding", "writing",
               "placed", "replay", "answered", "refused", "lost"}

\* The rows have the values their columns allow: stock_reserved never goes
\* below zero, a line's quantity never does.
TypeOK ==
  /\ pc \in [Requests -> Statements]
  /\ keyRow \in [Keys -> Requests \union {None}]
  /\ lock \in [Variants -> Requests \union {None}]
  /\ voucherLock \in Requests \union {None}
  /\ seen \in [Requests -> [want : SUBSET Variants, level : [Variants -> Nat],
                            basket : [Lines -> Nat], voucher : BOOLEAN, redeem : BOOLEAN]]
  /\ reserved \in [Variants -> Nat]
  /\ redeemed \subseteq Requests
  /\ cart \in [Lines -> Nat]
  /\ attached \in [Buyers -> BOOLEAN]
  /\ orders \subseteq Requests
  /\ cancelled \subseteq Requests
  /\ answer \in [Requests -> Requests \union {None}]
  /\ mails \in [Requests -> Nat]

\* A double click, a client retry and a retry after a crash create one order
\* between them: no two orders came in under one Idempotency-Key.
OneOrderPerKey ==
  \A o, p \in orders : KeyOf[o] = KeyOf[p] => o = p

\* A claimed key is only ever visible once its order has committed: a request
\* that finds its key taken always finds the order that took it.
ReplaysFindTheirOrder ==
  \A r \in Requests : pc[r] = "replay" => keyRow[KeyOf[r]] \in orders

\* Whoever is answered with an order sent exactly that order, in the same
\* session and with the same body, whichever of its retries created it.
AnsweredWithOwnOrder ==
  \A r \in Requests : answer[r] # None =>
    /\ answer[r] \in orders
    /\ BuyerOf[answer[r]] = BuyerOf[r]
    /\ Confirmed[answer[r]] = Confirmed[r]
    /\ Discounted[answer[r]] = Discounted[r]

\* Two tabs check out the same cart under two keys, and a line is in one of
\* the orders at most: the basket is read after the locks that serialise them.
LineOrderedOnce ==
  \A o, p \in orders : LinesOf(o) \cap LinesOf(p) # {} => o = p

\* The units of v each request asks for.
UnitsOf(v) == [o \in Requests |-> Asked(o, v)]

\* No update of stock_reserved is lost between two transactions that read and
\* overwrite it: it is what the live orders asked for, and no more than there is.
ReservationsAddUp ==
  \A v \in Variants :
    /\ reserved[v] = SumFunctionOnSet(UnitsOf(v), orders \ cancelled)
    /\ reserved[v] <= OnHand

\* Two checkouts that read used_count at once do not both take the last use,
\* and two of one session do not pass its limit.
VoucherWithinLimits ==
  /\ Cardinality(redeemed) <= UsageLimit
  /\ \A b \in Buyers : Cardinality(RedeemedBy(b)) <= PerSessionLimit

\* Whose row a request waits for.
WaitsFor(r) ==
  IF pc[r] = "ready" /\ keyRow[KeyOf[r]] # None /\ InTransaction(keyRow[KeyOf[r]])
  THEN {keyRow[KeyOf[r]]}
  ELSE IF pc[r] = "locking" THEN {lock[v] : v \in {u \in Variants : IsNextToLock(r, u)}} \ {None}
  ELSE IF pc[r] = "voucher" THEN {voucherLock} \ {None}
  ELSE {}

\* Rows are locked in one order by everyone (key, variants by id, voucher), so
\* in every group of checkouts there is one that waits for none of the others.
NoDeadlock ==
  \A S \in SUBSET {r \in Requests : WaitsFor(r) # {}} :
    S # {} => \E r \in S : WaitsFor(r) \cap S = {}

\* An order is confirmed to the customer once, however often it is retried.
MailedOnce == \A o \in Requests : mails[o] <= 1

\* Every request that is sent ends: placed, replayed or refused, if its process
\* lives.
EveryRequestEnds ==
  <>\A r \in Requests : pc[r] \in {"unsent", "answered", "refused", "lost"}

Taken == [r \in Requests |-> LinesOf(r)]
Units == [v \in Variants |-> UnitsOf(v)]

AtOnce == INSTANCE OrderPromise

\* A dozen statements, with the other transactions' in between, come to what one
\* step would do: when an order commits, its key is unused, its lines are in no
\* other order, its units are there and the voucher use it was read to have is
\* left, all still true although each was read at another time.
PlacedAtOnce == AtOnce!Spec
=============================================================================
