--------------------------- MODULE CheckoutProofs ---------------------------
(***************************************************************************)
(* What holds of POST /orders for any number of requests, retries, tabs,   *)
(* buyers, lines and variants, whatever comes between two of its           *)
(* statements.  The argument is about what each lock protects: the key     *)
(* row, the variants' rows (and through them the cart lines) and the       *)
(* voucher's row.                                                          *)
(***************************************************************************)
EXTENDS Checkout, SumTheorems

\* What a request may have read.
Reading == [want : SUBSET Variants, level : [Variants -> Int],
            basket : [Lines -> Nat], voucher : BOOLEAN, redeem : BOOLEAN]

\* What the variables may hold; the counters only as integers.
Frame ==
  /\ pc \in [Requests -> Statements]
  /\ keyRow \in [Keys -> Requests \union {None}]
  /\ lock \in [Variants -> Requests \union {None}]
  /\ voucherLock \in Requests \union {None}
  /\ seen \in [Requests -> Reading]
  /\ reserved \in [Variants -> Int]
  /\ redeemed \subseteq Requests
  /\ cart \in [Lines -> Nat]
  /\ attached \in [Buyers -> BOOLEAN]
  /\ orders \subseteq Requests
  /\ cancelled \subseteq Requests
  /\ answer \in [Requests -> Requests \union {None}]
  /\ mails \in [Requests -> Nat]

\* A key is held by the transaction that inserted it, then by its order.
KeyInv ==
  /\ \A r \in Requests : InTransaction(r) => keyRow[KeyOf[r]] = r
  /\ \A o \in orders : keyRow[KeyOf[o]] = o /\ pc[o] \in {"placed", "answered", "lost"}
  /\ \A k \in Keys : keyRow[k] # None =>
       KeyOf[keyRow[k]] = k /\ (InTransaction(keyRow[k]) \/ keyRow[k] \in orders)
  /\ \A r \in Requests : pc[r] = "replay" => keyRow[KeyOf[r]] \in orders
  /\ \A r \in Requests : pc[r] = "placed" => r \in orders

\* Nobody was mailed about an order that is not confirmed yet.
MailInv == \A o \in Requests : mails[o] <= 1 /\ (pc[o] # "answered" => mails[o] = 0)

\* From the moment its variants are locked, a request holds every one of them.
HasLocks(r) == pc[r] \in {"locked", "voucher", "deciding", "writing"}
LockInv ==
  /\ \A r \in Requests : HasLocks(r) => \A v \in seen[r].want : lock[v] = r
  /\ \A r \in Requests : pc[r] = "writing" => Acceptable(r)

\* A line that is in an order is gone from the cart for good, and no request
\* that has read it as still there, under its variant's lock, is wrong.
HasRead(r) == pc[r] \in {"voucher", "deciding", "writing"}
LineInv ==
  /\ \A o \in orders : \A l \in LinesOf(o) : cart[l] = 0
  /\ \A r \in Requests : HasRead(r) =>
       \A l \in LinesOf(r) : VariantOf[l] \in seen[r].want /\ seen[r].basket[l] > 0 =>
         \A o \in orders : l \notin LinesOf(o)
  /\ LineOrderedOnce

\* A request that found a use of the voucher left holds its row, and the use is
\* still there.
UseInv ==
  /\ \A r \in Requests :
       pc[r] \in {"ready", "claimed", "locking", "locked", "voucher"} => ~seen[r].redeem
  /\ \A r \in Requests : pc[r] \in {"deciding", "writing"} /\ seen[r].redeem =>
       voucherLock = r /\ MayRedeem(BuyerOf[r])
  /\ IsFiniteSet(redeemed)
  /\ VoucherWithinLimits

\* What a request has read of stock_reserved is true for as long as it holds the row.
LevelInv ==
  \A r \in Requests : \A v \in Variants : lock[v] = r => seen[r].level[v] = reserved[v]

IInv == /\ Frame
        /\ KeyInv /\ AnsweredWithOwnOrder /\ MailInv
        /\ LockInv /\ LineInv /\ LevelInv /\ UseInv

-----------------------------------------------------------------------------
(* Types.                                                                  *)

\* What a request asks of a variant is a quantity.
LEMMA AskedType ==
  ASSUME NEW r \in Requests, NEW v \in Variants
  PROVE  Asked(r, v) \in Nat
<1>1. PICK S \in SUBSET Lines : Confirmed[r] \in [S -> Nat \ {0}]
  BY LinesAssumption
<1>2. LinesOf(r) = S /\ \A l \in S : Confirmed[r][l] \in Nat
  BY <1>1 DEF LinesOf
<1>3. CASE \E l \in LinesOf(r) : VariantOf[l] = v
  <2> DEFINE l == CHOOSE l \in LinesOf(r) : VariantOf[l] = v
  <2>1. l \in LinesOf(r)
    BY <1>3
  <2> HIDE DEF l
  <2>2. Confirmed[r][l] \in Nat
    BY <1>2, <2>1
  <2> QED
    BY <1>3, <2>2 DEF Asked, l
<1>4. CASE ~\E l \in LinesOf(r) : VariantOf[l] = v
  BY <1>4 DEF Asked
<1> QED
  BY <1>3, <1>4

\* A request confirms a positive quantity of lines that exist.
LEMMA ConfirmedType ==
  ASSUME NEW r \in Requests
  PROVE  LinesOf(r) \subseteq Lines /\ \A l \in LinesOf(r) : Confirmed[r][l] \in Nat \ {0}
BY LinesAssumption DEF LinesOf

\* A step that reads keeps what the others have read.
LEMMA ReadingStep ==
  ASSUME seen \in [Requests -> Reading], NEW r \in Requests, NEW s \in Reading
  PROVE  [seen EXCEPT ![r] = s] \in [Requests -> Reading]
OBVIOUS

\* A request reads a cart, not anything.
LEMMA CartOfType ==
  ASSUME cart \in [Lines -> Nat], NEW b
  PROVE  CartOf(b) \in [Lines -> Nat]
BY DEF CartOf

\* Every step keeps the types.
LEMMA FrameStep ==
  ASSUME Frame, [Next]_vars
  PROVE  Frame'
<1> USE DEF Frame
<1>1. ASSUME NEW r \in Requests, Claim(r)
      PROVE  Frame'
  <2>1. pc' \in [Requests -> Statements]
    BY <1>1 DEF Claim, Statements
  <2>2. keyRow' \in [Keys -> Requests \union {None}]
    BY <1>1 DEF Claim
  <2> QED
    BY <1>1, <2>1, <2>2 DEF Claim, tables
<1>2. ASSUME NEW r \in Requests, HaveLocked(r) \/ Decide(r) \/ Dies(r)
      PROVE  Frame'
  <2>1. pc' \in [Requests -> Statements]
    BY <1>2 DEF HaveLocked, Decide, Dies, Statements
  <2> QED
    BY <1>2, <2>1 DEF HaveLocked, Decide, Dies, tables, locks
<1>3. ASSUME NEW r \in Requests, LookUp(r)
      PROVE  Frame'
  <2> DEFINE W == {VariantOf[l] : l \in {k \in LinesOf(r) : OwnerOf[k] = BuyerOf[r] /\ cart[k] > 0}}
  <2>1. W \subseteq Variants
    BY ConfirmedType, LinesAssumption
  <2>2. seen' = [seen EXCEPT ![r].want = W]
    BY <1>3 DEF LookUp
  <2> HIDE DEF W
  <2>3. [seen[r] EXCEPT !.want = W] \in Reading
    BY <2>1 DEF Reading
  <2>4. seen' \in [Requests -> Reading]
    BY <2>2, <2>3, ReadingStep
  <2>5. pc' \in [Requests -> Statements]
    BY <1>3 DEF LookUp, Statements
  <2> QED
    BY <1>3, <2>4, <2>5 DEF LookUp, tables, locks
<1>4. ASSUME NEW r \in Requests, LockVariant(r)
      PROVE  Frame'
  <2>1. PICK v \in Variants : /\ lock' = [lock EXCEPT ![v] = r]
                              /\ seen' = [seen EXCEPT ![r].level[v] = reserved[v]]
    BY <1>4 DEF LockVariant
  <2> DEFINE s == [seen[r] EXCEPT !.level = [seen[r].level EXCEPT ![v] = reserved[v]]]
  <2>2. [seen[r].level EXCEPT ![v] = reserved[v]] \in [Variants -> Int]
    BY DEF Reading
  <2>3. s \in Reading
    BY <2>2 DEF Reading
  <2>4. seen' = [seen EXCEPT ![r] = s]
    BY <2>1 DEF Reading
  <2> HIDE DEF s
  <2>5. seen' \in [Requests -> Reading]
    BY <2>3, <2>4, ReadingStep
  <2>6. lock' \in [Variants -> Requests \union {None}]
    BY <2>1
  <2> QED
    BY <1>4, <2>5, <2>6 DEF LockVariant, tables
<1>5. ASSUME NEW r \in Requests, ReadBasket(r)
      PROVE  Frame'
  <2> DEFINE s == [seen[r] EXCEPT !.basket = CartOf(BuyerOf[r]), !.voucher = attached[BuyerOf[r]]]
  <2>1. CartOf(BuyerOf[r]) \in [Lines -> Nat]
    BY CartOfType
  <2>2. attached[BuyerOf[r]] \in BOOLEAN
    BY RequestsAssumption
  <2>3. s \in Reading
    BY <2>1, <2>2 DEF Reading
  <2>4. seen' = [seen EXCEPT ![r] = s]
    BY <1>5 DEF ReadBasket
  <2> HIDE DEF s
  <2>5. seen' \in [Requests -> Reading]
    BY <2>3, <2>4, ReadingStep
  <2>6. pc' \in [Requests -> Statements]
    BY <1>5 DEF ReadBasket, Statements
  <2> QED
    BY <1>5, <2>5, <2>6 DEF ReadBasket, tables, locks
<1>6. ASSUME NEW r \in Requests, LockVoucher(r)
      PROVE  Frame'
  <2> DEFINE s == [seen[r] EXCEPT !.redeem = MayRedeem(BuyerOf[r])]
  <2>1. MayRedeem(BuyerOf[r]) \in BOOLEAN
    BY DEF MayRedeem
  <2>2. s \in Reading
    BY <2>1 DEF Reading
  <2>3. seen' = [seen EXCEPT ![r] = s]
    BY <1>6 DEF LockVoucher
  <2> HIDE DEF s
  <2>4. seen' \in [Requests -> Reading]
    BY <2>2, <2>3, ReadingStep
  <2>5. pc' \in [Requests -> Statements]
    BY <1>6 DEF LockVoucher, Statements
  <2> QED
    BY <1>6, <2>4, <2>5 DEF LockVoucher, tables
<1>7. ASSUME NEW r \in Requests, Refuse(r) \/ Abort(r)
      PROVE  Frame'
  <2>1. RollBack(r)
    BY <1>7 DEF Refuse, Abort
  <2>2. pc' \in [Requests -> Statements]
    BY <2>1 DEF RollBack, Statements
  <2>3. keyRow' \in [Keys -> Requests \union {None}]
    BY <2>1 DEF RollBack
  <2> QED
    BY <2>1, <2>2, <2>3 DEF RollBack, Unlocked, tables
<1>8. ASSUME NEW r \in Requests, Commit(r)
      PROVE  Frame'
  <2>1. seen[r].level \in [Variants -> Int]
    BY DEF Reading
  <2>2. reserved' \in [Variants -> Int]
    BY <1>8, <2>1, AskedType DEF Commit
  <2>3. pc' \in [Requests -> Statements]
    BY <1>8 DEF Commit, Statements
  <2>4. attached' \in [Buyers -> BOOLEAN]
    BY <1>8, RequestsAssumption DEF Commit
  <2>5. cart' \in [Lines -> Nat]
    BY <1>8 DEF Commit
  <2>6. /\ lock' \in [Variants -> Requests \union {None}]
        /\ voucherLock' \in Requests \union {None}
    BY <1>8 DEF Commit, Unlocked
  <2> QED
    BY <1>8, <2>2, <2>3, <2>4, <2>5, <2>6 DEF Commit
<1>9. ASSUME NEW r \in Requests, Confirm(r)
      PROVE  Frame'
  <2>1. pc' \in [Requests -> Statements]
    BY <1>9 DEF Confirm, Statements
  <2>2. mails' \in [Requests -> Nat]
    BY <1>9 DEF Confirm
  <2> QED
    BY <1>9, <2>1, <2>2 DEF Confirm, tables, locks
<1>10. ASSUME NEW r \in Requests, Replay(r)
      PROVE  Frame'
  <2>1. pc' \in [Requests -> Statements]
    BY <1>10 DEF Replay, Statements
  <2>2. keyRow[KeyOf[r]] \in Requests \union {None}
    BY RequestsAssumption
  <2>3. answer' \in [Requests -> Requests \union {None}]
    BY <1>10, <2>2 DEF Replay
  <2> QED
    BY <1>10, <2>1, <2>3 DEF Replay, tables, locks
<1>11. ASSUME NEW l \in Lines, EditLine(l)
      PROVE  Frame'
  <2>1. PICK q \in 0..OnCart[l] : cart' = [cart EXCEPT ![l] = q]
    BY <1>11 DEF EditLine
  <2>2. OnCart[l] \in Nat
    BY LinesAssumption
  <2>3. q \in Nat
    BY <2>2
  <2>4. cart' \in [Lines -> Nat]
    BY <2>1, <2>3
  <2> QED
    BY <1>11, <2>4 DEF EditLine, locks
<1>12. ASSUME NEW b \in Buyers, AttachVoucher(b)
      PROVE  Frame'
  BY <1>12 DEF AttachVoucher, locks
<1>13. ASSUME NEW o \in Requests, CancelOrder(o)
      PROVE  Frame'
  <2>1. reserved' \in [Variants -> Int]
    BY <1>13, AskedType DEF CancelOrder
  <2> QED
    BY <1>13, <2>1 DEF CancelOrder, locks
<1>14. CASE UNCHANGED vars
  BY <1>14 DEF vars, tables, locks
<1> QED
  BY <1>1, <1>2, <1>3, <1>4, <1>5, <1>6, <1>7, <1>8, <1>9, <1>10, <1>11, <1>12, <1>13, <1>14
     DEF Next, Handle

-----------------------------------------------------------------------------
(* One step of one request.                                                *)

\* The statements a request comes from and goes to; another request's step
\* leaves its statement, what it has read and the locks it holds alone.
LEMMA OthersKeep ==
  ASSUME Frame, NEW r \in Requests, Handle(r) \/ Abort(r) \/ Dies(r),
         NEW q \in Requests, q # r
  PROVE  /\ pc'[q] = pc[q]
         /\ seen'[q] = seen[q]
         /\ \A v \in Variants : lock[v] = q => lock'[v] = q
         /\ voucherLock = q => voucherLock' = q
<1> USE DEF Frame
<1>1. CASE Claim(r) \/ HaveLocked(r) \/ Decide(r) \/ Dies(r) \/ Confirm(r) \/ Replay(r)
  BY <1>1 DEF Claim, HaveLocked, Decide, Dies, Confirm, Replay, locks
<1>2. CASE LookUp(r) \/ ReadBasket(r)
  BY <1>2 DEF LookUp, ReadBasket, locks
<1>3. CASE LockVariant(r)
  BY <1>3, RequestsAssumption DEF LockVariant
<1>4. CASE LockVoucher(r)
  BY <1>4, RequestsAssumption DEF LockVoucher
<1>5. CASE Refuse(r) \/ Abort(r)
  BY <1>5 DEF Refuse, Abort, RollBack, Unlocked
<1>6. CASE Commit(r)
  BY <1>6 DEF Commit, Unlocked
<1> QED
  BY <1>1, <1>2, <1>3, <1>4, <1>5, <1>6 DEF Handle

-----------------------------------------------------------------------------
(* The idempotency key.                                                    *)

\* Every step keeps the keys with those who claimed them.
LEMMA KeyStep ==
  ASSUME Frame, KeyInv, [Next]_vars
  PROVE  KeyInv'
<1> USE RequestsAssumption DEF Frame, KeyInv, InTransaction
<1>1. ASSUME NEW r \in Requests, Claim(r)
      PROVE  KeyInv'
  <2>1. CASE keyRow[KeyOf[r]] = None
    BY <1>1, <2>1 DEF Claim, tables
  <2>2. CASE keyRow[KeyOf[r]] # None
    BY <1>1, <2>2 DEF Claim, tables
  <2> QED
    BY <2>1, <2>2
<1>2. ASSUME NEW r \in Requests, 
             LookUp(r) \/ HaveLocked(r) \/ ReadBasket(r) \/ LockVoucher(r) \/ Decide(r)
      PROVE  KeyInv'
  <2>1. /\ pc[r] \in {"claimed", "locking", "locked", "voucher", "deciding"}
        /\ pc' = [pc EXCEPT ![r] = pc'[r]]
        /\ pc'[r] \in {"locking", "locked", "voucher", "deciding", "writing"}
        /\ UNCHANGED <<keyRow, orders>>
    BY <1>2 DEF LookUp, HaveLocked, ReadBasket, LockVoucher, Decide, tables, locks
  <2> QED
    BY <2>1
<1>3. ASSUME NEW r \in Requests, Refuse(r) \/ Abort(r)
      PROVE  KeyInv'
  <2>1. /\ InTransaction(r)
        /\ pc' = [pc EXCEPT ![r] = "refused"]
        /\ keyRow' = [keyRow EXCEPT ![KeyOf[r]] = None]
        /\ UNCHANGED orders
    BY <1>3 DEF Refuse, Abort, RollBack, tables
  <2>2. keyRow[KeyOf[r]] = r /\ r \notin orders
    BY <2>1
  <2> QED
    BY <2>1, <2>2
<1>4. ASSUME NEW r \in Requests, Commit(r)
      PROVE  KeyInv'
  BY <1>4 DEF Commit
<1>5. ASSUME NEW r \in Requests, Confirm(r) \/ Dies(r) \/ Replay(r)
      PROVE  KeyInv'
  BY <1>5 DEF Confirm, Dies, Replay, tables, locks
<1>6. ASSUME UNCHANGED <<pc, keyRow, orders>>
      PROVE  KeyInv'
  BY <1>6
<1>7. (\E r \in Requests : LockVariant(r)) => UNCHANGED <<pc, keyRow, orders>>
  BY DEF LockVariant, tables
<1>8. /\ (\E l \in Lines : EditLine(l)) => UNCHANGED <<pc, keyRow, orders>>
      /\ (\E b \in Buyers : AttachVoucher(b)) => UNCHANGED <<pc, keyRow, orders>>
      /\ (\E o \in Requests : CancelOrder(o)) => UNCHANGED <<pc, keyRow, orders>>
      /\ UNCHANGED vars => UNCHANGED <<pc, keyRow, orders>>
  BY DEF EditLine, AttachVoucher, CancelOrder, vars, tables, locks
<1> HIDE DEF Frame, KeyInv, InTransaction
<1> QED
  BY <1>1, <1>2, <1>3, <1>4, <1>5, <1>6, <1>7, <1>8 DEF Next, Handle

-----------------------------------------------------------------------------
(* The answer and the mail.                                                *)

\* Whoever is answered is answered with an order of its own.
LEMMA AnswerStep ==
  ASSUME Frame, KeyInv, AnsweredWithOwnOrder, [Next]_vars
  PROVE  AnsweredWithOwnOrder'
<1> USE RequestsAssumption DEF Frame, AnsweredWithOwnOrder
<1>1. ASSUME NEW r \in Requests, Confirm(r)
      PROVE  AnsweredWithOwnOrder'
  <2>1. r \in orders
    BY <1>1 DEF Confirm, KeyInv
  <2> QED
    BY <1>1, <2>1 DEF Confirm, tables
<1>2. ASSUME NEW r \in Requests, Replay(r)
      PROVE  AnsweredWithOwnOrder'
  <2>1. keyRow[KeyOf[r]] \in orders
    BY <1>2 DEF Replay, KeyInv
  <2>2. CASE SameRequest(r, keyRow[KeyOf[r]])
    BY <1>2, <2>1, <2>2 DEF Replay, SameRequest, tables
  <2>3. CASE ~SameRequest(r, keyRow[KeyOf[r]])
    BY <1>2, <2>3 DEF Replay, tables
  <2> QED
    BY <2>2, <2>3
<1>3. ASSUME UNCHANGED answer, orders \subseteq orders'
      PROVE  AnsweredWithOwnOrder'
  BY <1>3
<1>4. ASSUME NEW r \in Requests, Handle(r), ~Confirm(r), ~Replay(r)
      PROVE  UNCHANGED answer /\ orders \subseteq orders'
  BY <1>4 DEF Handle, Claim, LookUp, LockVariant, HaveLocked, ReadBasket, LockVoucher, Decide,
              Refuse, RollBack, Commit, tables
<1>5. /\ (\E r \in Requests : Abort(r) \/ Dies(r)) => UNCHANGED <<answer, orders>>
      /\ (\E l \in Lines : EditLine(l)) => UNCHANGED <<answer, orders>>
      /\ (\E b \in Buyers : AttachVoucher(b)) => UNCHANGED <<answer, orders>>
      /\ (\E o \in Requests : CancelOrder(o)) => UNCHANGED <<answer, orders>>
      /\ UNCHANGED vars => UNCHANGED <<answer, orders>>
  BY DEF Abort, RollBack, Dies, EditLine, AttachVoucher, CancelOrder, vars, tables
<1> HIDE DEF Frame, AnsweredWithOwnOrder
<1> QED
  BY <1>1, <1>2, <1>3, <1>4, <1>5 DEF Next

\* Only the confirmation mails, and it is reached once.
LEMMA MailStep ==
  ASSUME Frame, MailInv, [Next]_vars
  PROVE  MailInv'
<1> USE DEF Frame, MailInv
<1>1. ASSUME NEW r \in Requests, Confirm(r)
      PROVE  MailInv'
  BY <1>1 DEF Confirm
<1>2. ASSUME UNCHANGED mails, \A o \in Requests : pc[o] = "answered" => pc'[o] = "answered"
      PROVE  MailInv'
  BY <1>2
<1>3. ASSUME NEW r \in Requests, Handle(r) \/ Abort(r) \/ Dies(r), ~Confirm(r)
      PROVE  UNCHANGED mails /\ pc[r] # "answered"
  BY <1>3 DEF Handle, Claim, LookUp, LockVariant, HaveLocked, ReadBasket, LockVoucher, Decide,
              Refuse, Abort, InTransaction, RollBack, Commit, Dies, Replay
<1>4. /\ (\E l \in Lines : EditLine(l)) => UNCHANGED <<pc, mails>>
      /\ (\E b \in Buyers : AttachVoucher(b)) => UNCHANGED <<pc, mails>>
      /\ (\E o \in Requests : CancelOrder(o)) => UNCHANGED <<pc, mails>>
      /\ UNCHANGED vars => UNCHANGED <<pc, mails>>
  BY DEF EditLine, AttachVoucher, CancelOrder, vars
<1>5. ASSUME NEW r \in Requests, Handle(r) \/ Abort(r) \/ Dies(r), ~Confirm(r)
      PROVE  MailInv'
  <2>1. \A q \in Requests : q # r => pc'[q] = pc[q]
    BY <1>5, OthersKeep
  <2> QED
    BY <1>2, <1>3, <1>5, <2>1
<1> HIDE DEF Frame, MailInv
<1> QED
  BY <1>1, <1>2, <1>4, <1>5 DEF Next

-----------------------------------------------------------------------------
(* The variants' rows, and the lines behind them.                          *)

\* Whether a request is acceptable is a matter of what it has read.
LEMMA AcceptableAsRead ==
  ASSUME NEW r \in Requests, seen'[r] = seen[r]
  PROVE  Acceptable(r)' <=> Acceptable(r)
BY DEF Acceptable, LinesOf

\* Locks are held from the moment they are taken until the end.
LEMMA LockStep ==
  ASSUME Frame, LockInv, [Next]_vars
  PROVE  LockInv'
<1> USE DEF Frame, LockInv, HasLocks
\* Nothing changes for a request that neither moves nor reads.
<1>1. ASSUME NEW q \in Requests, pc'[q] = pc[q], seen'[q] = seen[q],
             \A v \in Variants : lock[v] = q => lock'[v] = q
      PROVE  /\ HasLocks(q)' => \A v \in seen'[q].want : lock'[v] = q
             /\ pc'[q] = "writing" => Acceptable(q)'
  <2>1. seen[q].want \subseteq Variants
    BY DEF Reading
  <2> QED
    BY <1>1, <2>1, AcceptableAsRead
<1>2. ASSUME NEW r \in Requests, Handle(r) \/ Abort(r) \/ Dies(r)
      PROVE  /\ HasLocks(r)' => \A v \in seen'[r].want : lock'[v] = r
             /\ pc'[r] = "writing" => Acceptable(r)'
  <2>1. CASE Claim(r) \/ LookUp(r) \/ LockVariant(r) \/ Refuse(r) \/ Abort(r) \/ Commit(r)
               \/ Confirm(r) \/ Dies(r) \/ Replay(r)
    <3>1. ~HasLocks(r)'
      BY <2>1 DEF Claim, LookUp, LockVariant, Refuse, Abort, RollBack, Commit, Confirm, Dies, Replay
    <3> QED
      BY <3>1
  <2>2. CASE HaveLocked(r)
    <3>1. \A v \in seen[r].want : lock[v] = r
      BY <2>2 DEF HaveLocked, ToLock, Held
    <3> QED
      BY <2>2, <3>1 DEF HaveLocked, locks
  <2>3. CASE ReadBasket(r)
    <3>1. /\ pc[r] = "locked"
          /\ pc'[r] \in {"voucher", "deciding"}
          /\ lock' = lock
      BY <2>3 DEF ReadBasket, locks
    <3>2. seen'[r].want = seen[r].want
      BY <2>3 DEF ReadBasket, Reading
    <3> QED
      BY <3>1, <3>2
  <2>4. CASE LockVoucher(r)
    <3>1. /\ pc[r] = "voucher"
          /\ pc'[r] = "deciding"
          /\ lock' = lock
      BY <2>4 DEF LockVoucher
    <3>2. seen'[r].want = seen[r].want
      BY <2>4 DEF LockVoucher, Reading
    <3> QED
      BY <3>1, <3>2
  <2>5. CASE Decide(r)
    <3>1. /\ pc[r] = "deciding"
          /\ pc'[r] = "writing"
          /\ lock' = lock
          /\ seen' = seen
          /\ Acceptable(r)
      BY <2>5 DEF Decide, locks
    <3> QED
      BY <3>1, AcceptableAsRead
  <2> QED
    BY <1>2, <2>1, <2>2, <2>3, <2>4, <2>5 DEF Handle
<1>3. ASSUME NEW r \in Requests, Handle(r) \/ Abort(r) \/ Dies(r)
      PROVE  LockInv'
  <2>1. ASSUME NEW q \in Requests, q # r
        PROVE  /\ HasLocks(q)' => \A v \in seen'[q].want : lock'[v] = q
               /\ pc'[q] = "writing" => Acceptable(q)'
    BY <1>1, <1>3, <2>1, OthersKeep
  <2>2. \A q \in Requests : /\ HasLocks(q)' => \A v \in seen'[q].want : lock'[v] = q
                            /\ pc'[q] = "writing" => Acceptable(q)'
    BY <1>2, <1>3, <2>1
  <2> QED
    BY <2>2
<1>4. ASSUME UNCHANGED <<pc, seen, lock>>
      PROVE  LockInv'
  BY <1>1, <1>4
<1>5. /\ (\E l \in Lines : EditLine(l)) => UNCHANGED <<pc, seen, lock>>
      /\ (\E b \in Buyers : AttachVoucher(b)) => UNCHANGED <<pc, seen, lock>>
      /\ (\E o \in Requests : CancelOrder(o)) => UNCHANGED <<pc, seen, lock>>
      /\ UNCHANGED vars => UNCHANGED <<pc, seen, lock>>
  BY DEF EditLine, AttachVoucher, CancelOrder, vars, locks
<1> HIDE DEF Frame, LockInv, HasLocks
<1> QED
  BY <1>3, <1>4, <1>5 DEF Next

\* A request about to write holds the lock of each of its lines' variants, and
\* has read each of them as still in the cart.
LEMMA WritersHaveRead ==
  ASSUME Frame, LockInv, NEW r \in Requests, pc[r] = "writing", NEW l \in LinesOf(r)
  PROVE  /\ VariantOf[l] \in seen[r].want
         /\ lock[VariantOf[l]] = r
         /\ seen[r].basket[l] > 0
<1>1. /\ VariantOf[l] \in seen[r].want
      /\ Confirmed[r][l] <= seen[r].basket[l]
  BY DEF LockInv, Acceptable
<1>2. lock[VariantOf[l]] = r
  BY <1>1 DEF LockInv, HasLocks
<1>3. Confirmed[r][l] \in Nat \ {0} /\ l \in Lines
  BY ConfirmedType
<1>4. seen[r].basket[l] \in Nat
  BY <1>3 DEF Frame, Reading
<1>5. seen[r].basket[l] > 0
  BY <1>1, <1>3, <1>4
<1> QED
  BY <1>1, <1>2, <1>5

\* A line leaves the cart with its order, under its variant's lock.
LEMMA LineStep ==
  ASSUME Frame, LockInv, LineInv, [Next]_vars
  PROVE  LineInv'
<1> USE DEF Frame, LineInv, LineOrderedOnce, HasRead
<1>1. ASSUME NEW r \in Requests, Commit(r)
      PROVE  LineInv'
  <2>1. \A o \in orders : LinesOf(o) \cap LinesOf(r) = {}
    BY <1>1, WritersHaveRead DEF Commit
  <2>2. \A o \in orders' : \A l \in LinesOf(o) : cart'[l] = 0
    BY <1>1, ConfirmedType DEF Commit
  <2>3. ASSUME NEW q \in Requests, HasRead(q)', NEW l \in LinesOf(q),
               VariantOf[l] \in seen'[q].want, seen'[q].basket[l] > 0, NEW o \in orders'
        PROVE  l \notin LinesOf(o)
    <3>1. q # r /\ HasRead(q) /\ seen'[q] = seen[q]
      BY <1>1, <2>3 DEF Commit
    <3>2. CASE o \in orders
      BY <2>3, <3>1, <3>2
    <3>3. CASE o = r
      <4>1. lock[VariantOf[l]] = q
        BY <2>3, <3>1, RequestsAssumption DEF LockInv, HasLocks
      <4>2. l \in LinesOf(r) => lock[VariantOf[l]] = r
        BY <1>1, WritersHaveRead DEF Commit
      <4> QED
        BY <3>1, <3>3, <4>1, <4>2
    <3> QED
      BY <1>1, <3>2, <3>3 DEF Commit
  <2>4. LineOrderedOnce'
    BY <1>1, <2>1 DEF Commit
  <2>5. (\A q \in Requests : HasRead(q) =>
       \A l \in LinesOf(q) : VariantOf[l] \in seen[q].want /\ seen[q].basket[l] > 0 =>
         \A o \in orders : l \notin LinesOf(o))'
    BY <2>3 DEF LinesOf
  <2> QED
    BY <2>2, <2>4, <2>5 DEF LinesOf
<1>2. ASSUME NEW r \in Requests, ReadBasket(r)
      PROVE  LineInv'
  <2>1. ASSUME NEW l \in LinesOf(r), seen'[r].basket[l] > 0
        PROVE  cart[l] > 0
    <3>1. seen'[r].basket = CartOf(BuyerOf[r])
      BY <1>2 DEF ReadBasket, Reading
    <3>2. l \in Lines
      BY ConfirmedType
    <3> QED
      BY <2>1, <3>1, <3>2 DEF CartOf
  <2>2. ASSUME NEW l \in LinesOf(r), seen'[r].basket[l] > 0, NEW o \in orders
        PROVE  l \notin LinesOf(o)
    BY <2>1, <2>2
  <2>3. UNCHANGED <<orders, cart>>
    BY <1>2 DEF ReadBasket, tables
  <2>4. \A q \in Requests : q # r => pc'[q] = pc[q] /\ seen'[q] = seen[q]
    BY <1>2, OthersKeep DEF Handle
  <2> QED
    BY <2>2, <2>3, <2>4
<1>3. ASSUME UNCHANGED orders, \A l \in Lines : cart[l] = 0 => cart'[l] = 0,
             \A q \in Requests : HasRead(q)' =>
               /\ HasRead(q)
               /\ seen'[q].want = seen[q].want
               /\ seen'[q].basket = seen[q].basket
      PROVE  LineInv'
  BY <1>3, ConfirmedType
<1>4. ASSUME NEW r \in Requests, Handle(r) \/ Abort(r) \/ Dies(r), ~Commit(r), ~ReadBasket(r)
      PROVE  LineInv'
  <2>1. UNCHANGED <<orders, cart>>
    BY <1>4 DEF Handle, Claim, LookUp, LockVariant, HaveLocked, LockVoucher, Decide, Refuse,
                Abort, RollBack, Confirm, Dies, Replay, tables
  <2>2. HasRead(r)' => HasRead(r)
    BY <1>4 DEF Handle, Claim, LookUp, LockVariant, HaveLocked, LockVoucher, Decide, Refuse,
                Abort, RollBack, Confirm, Dies, Replay
  <2>3. HasRead(r)' => seen'[r].want = seen[r].want /\ seen'[r].basket = seen[r].basket
    <3>1. CASE LookUp(r) \/ LockVariant(r)
      BY <3>1 DEF LookUp, LockVariant
    <3>2. CASE LockVoucher(r)
      BY <3>2 DEF LockVoucher, Reading
    <3>3. CASE ~LookUp(r) /\ ~LockVariant(r) /\ ~LockVoucher(r)
      BY <1>4, <3>3 DEF Handle, Claim, HaveLocked, Decide, Refuse, Abort, RollBack, Confirm,
                        Dies, Replay
    <3> QED
      BY <3>1, <3>2, <3>3
  <2>4. \A q \in Requests : q # r => pc'[q] = pc[q] /\ seen'[q] = seen[q]
    BY <1>4, OthersKeep
  <2>5. \A q \in Requests : HasRead(q)' =>
               /\ HasRead(q)
               /\ seen'[q].want = seen[q].want
               /\ seen'[q].basket = seen[q].basket
    BY <2>2, <2>3, <2>4
  <2> HIDE DEF HasRead, LineInv
  <2> QED
    BY <1>3, <2>1, <2>5
<1>5. ASSUME NEW l \in Lines, EditLine(l)
      PROVE  LineInv'
  BY <1>3, <1>5 DEF EditLine
<1>6. ASSUME UNCHANGED <<pc, seen, orders, cart>>
      PROVE  LineInv'
  BY <1>3, <1>6
<1>7. /\ (\E b \in Buyers : AttachVoucher(b)) => UNCHANGED <<pc, seen, orders, cart>>
      /\ (\E o \in Requests : CancelOrder(o)) => UNCHANGED <<pc, seen, orders, cart>>
      /\ UNCHANGED vars => UNCHANGED <<pc, seen, orders, cart>>
  BY DEF AttachVoucher, CancelOrder, vars, tables
<1> HIDE DEF Frame, LineInv, LineOrderedOnce, HasRead
<1> QED
  BY <1>1, <1>2, <1>4, <1>5, <1>6, <1>7 DEF Next

-----------------------------------------------------------------------------
(* stock_reserved.                                                         *)

\* A request asks for units of the variants of its lines only.
LEMMA AskedOfLines ==
  ASSUME NEW r \in Requests, NEW v \in Variants, Asked(r, v) # 0
  PROVE  \E l \in LinesOf(r) : VariantOf[l] = v
BY DEF Asked

\* Every variant a writing request asks for is locked by it.
LEMMA WritersHoldVariants ==
  ASSUME Frame, LockInv, NEW r \in Requests, pc[r] = "writing",
         NEW v \in Variants, Asked(r, v) # 0
  PROVE  lock[v] = r
<1>1. PICK l \in LinesOf(r) : VariantOf[l] = v
  BY AskedOfLines
<1> QED
  BY <1>1, WritersHaveRead

\* Who changes a reservation holds the row, so what others hold stays as read.
LEMMA LevelStep ==
  ASSUME Frame, LockInv, LevelInv, [Next]_vars
  PROVE  LevelInv'
<1> USE DEF Frame, LevelInv
<1>1. ASSUME NEW r \in Requests, Commit(r)
      PROVE  LevelInv'
  <2> SUFFICES ASSUME NEW q \in Requests, NEW v \in Variants, lock'[v] = q
               PROVE  seen'[q].level[v] = reserved'[v]
    OBVIOUS
  <2>1. lock[v] = q /\ q # r
    BY <1>1, RequestsAssumption DEF Commit, Unlocked
  <2>2. Asked(r, v) = 0
    BY <1>1, <2>1, WritersHoldVariants DEF Commit
  <2>3. reserved'[v] = reserved[v] /\ seen' = seen
    BY <1>1, <2>2 DEF Commit
  <2> QED
    BY <2>1, <2>3
<1>2. ASSUME NEW o \in Requests, CancelOrder(o)
      PROVE  LevelInv'
  <2> SUFFICES ASSUME NEW q \in Requests, NEW v \in Variants, lock'[v] = q
               PROVE  seen'[q].level[v] = reserved'[v]
    OBVIOUS
  <2>1. lock[v] = q /\ seen' = seen
    BY <1>2 DEF CancelOrder, locks
  <2>2. Asked(o, v) = 0
    BY <1>2, <2>1, AskedOfLines, RequestsAssumption DEF CancelOrder
  <2>3. reserved'[v] = reserved[v]
    BY <1>2, <2>2 DEF CancelOrder
  <2> QED
    BY <2>1, <2>3
<1>3. ASSUME NEW r \in Requests, LockVariant(r)
      PROVE  LevelInv'
  <2>1. PICK w \in Variants : /\ lock[w] = None
                              /\ lock' = [lock EXCEPT ![w] = r]
                              /\ seen' = [seen EXCEPT ![r].level[w] = reserved[w]]
    BY <1>3 DEF LockVariant
  <2>2. reserved' = reserved
    BY <1>3 DEF LockVariant, tables
  <2>3. ASSUME NEW q \in Requests, NEW v \in Variants, lock'[v] = q
        PROVE  seen'[q].level[v] = reserved[v]
    <3>1. CASE q = r /\ v = w
      BY <2>1, <3>1 DEF Reading
    <3>2. CASE q = r /\ v # w
      <4>1. lock[v] = r /\ seen'[r].level[v] = seen[r].level[v]
        BY <2>1, <2>3, <3>2 DEF Reading
      <4> QED
        BY <3>2, <4>1
    <3>3. CASE q # r
      <4>1. lock[v] = q /\ seen'[q] = seen[q]
        BY <2>1, <2>3, <3>3
      <4> QED
        BY <4>1
    <3> QED
      BY <3>1, <3>2, <3>3
  <2> QED
    BY <2>2, <2>3
<1>4. ASSUME UNCHANGED reserved,
             \A q \in Requests : /\ seen'[q].level = seen[q].level
                                 /\ \A v \in Variants : lock'[v] = q => lock[v] = q
      PROVE  LevelInv'
  BY <1>4
<1>5. ASSUME NEW r \in Requests, Handle(r) \/ Abort(r) \/ Dies(r), ~Commit(r), ~LockVariant(r)
      PROVE  LevelInv'
  <2>1. UNCHANGED reserved
    BY <1>5 DEF Handle, Claim, LookUp, HaveLocked, ReadBasket, LockVoucher, Decide, Refuse,
                Abort, RollBack, Confirm, Dies, Replay, tables
  <2>2. seen'[r].level = seen[r].level
    <3>1. CASE LookUp(r) \/ ReadBasket(r) \/ LockVoucher(r)
      BY <3>1 DEF LookUp, ReadBasket, LockVoucher, Reading
    <3>2. CASE ~LookUp(r) /\ ~ReadBasket(r) /\ ~LockVoucher(r)
      BY <1>5, <3>2 DEF Handle, Claim, HaveLocked, Decide, Refuse, Abort, RollBack, Confirm,
                        Dies, Replay
    <3> QED
      BY <3>1, <3>2
  <2>3. \A q \in Requests : q # r => seen'[q] = seen[q]
    BY <1>5, OthersKeep
  <2>4. \A q \in Requests : \A v \in Variants : lock'[v] = q => lock[v] = q
    <3>1. lock' = lock \/ Unlocked(r)
      BY <1>5 DEF Handle, Claim, LookUp, HaveLocked, ReadBasket, LockVoucher, Decide, Refuse,
                  Abort, RollBack, Confirm, Dies, Replay, locks
    <3> QED
      BY <3>1, RequestsAssumption DEF Unlocked
  <2> QED
    BY <1>4, <2>1, <2>2, <2>3, <2>4
<1>6. /\ (\E l \in Lines : EditLine(l)) => UNCHANGED <<reserved, seen, lock>>
      /\ (\E b \in Buyers : AttachVoucher(b)) => UNCHANGED <<reserved, seen, lock>>
      /\ UNCHANGED vars => UNCHANGED <<reserved, seen, lock>>
  BY DEF EditLine, AttachVoucher, vars, tables, locks
<1>7. UNCHANGED <<reserved, seen, lock>> => LevelInv'
  BY <1>4
<1> HIDE DEF Frame, LevelInv
<1> QED
  BY <1>1, <1>2, <1>3, <1>5, <1>6, <1>7 DEF Next

-----------------------------------------------------------------------------
(* The voucher's row.                                                      *)

\* Giving a use back, or none: the voucher may still be redeemed.
LEMMA FewerUses ==
  ASSUME IsFiniteSet(redeemed), redeemed' \subseteq redeemed, LimitsAssumption, NEW b
  PROVE  /\ IsFiniteSet(redeemed')
         /\ Cardinality(redeemed') <= Cardinality(redeemed)
         /\ Cardinality(RedeemedBy(b)') <= Cardinality(RedeemedBy(b))
         /\ MayRedeem(b) => MayRedeem(b)'
<1>1. /\ IsFiniteSet(redeemed')
      /\ Cardinality(redeemed') <= Cardinality(redeemed)
  BY FS_Subset
<1>2. RedeemedBy(b)' \subseteq RedeemedBy(b) /\ RedeemedBy(b) \subseteq redeemed
  BY DEF RedeemedBy
<1>3. IsFiniteSet(RedeemedBy(b))
  BY <1>2, FS_Subset
<1>4. Cardinality(RedeemedBy(b)') <= Cardinality(RedeemedBy(b)) /\ IsFiniteSet(RedeemedBy(b)')
  BY <1>2, <1>3, FS_Subset
<1>5. /\ Cardinality(redeemed) \in Nat /\ Cardinality(redeemed') \in Nat
      /\ Cardinality(RedeemedBy(b)) \in Nat /\ Cardinality(RedeemedBy(b)') \in Nat
  BY <1>1, <1>3, <1>4, FS_CardinalityType
<1> QED
  BY <1>1, <1>4, <1>5 DEF MayRedeem, LimitsAssumption

\* A row more counts for one at most.
LEMMA OneMoreRow ==
  ASSUME NEW S, IsFiniteSet(S), NEW x
  PROVE  /\ IsFiniteSet(S \union {x})
         /\ Cardinality(S) \in Nat
         /\ Cardinality(S \union {x}) \in Nat
         /\ Cardinality(S \union {x}) <= Cardinality(S) + 1
<1>1. IsFiniteSet(S \union {x})
  BY FS_AddElement
<1>2. Cardinality(S) \in Nat /\ Cardinality(S \union {x}) \in Nat
  BY <1>1, FS_CardinalityType
<1>3. \/ Cardinality(S \union {x}) = Cardinality(S)
      \/ Cardinality(S \union {x}) = Cardinality(S) + 1
  BY FS_AddElement
<1> QED
  BY <1>1, <1>2, <1>3

\* A use that was left when it was taken stays within both limits.
LEMMA OneMoreUse ==
  ASSUME UseInv, NEW r \in Requests, MayRedeem(BuyerOf[r]), redeemed' = redeemed \union {r}
  PROVE  IsFiniteSet(redeemed') /\ VoucherWithinLimits'
<1> USE LimitsAssumption, RequestsAssumption DEF UseInv
<1>1. /\ IsFiniteSet(redeemed')
      /\ Cardinality(redeemed') <= Cardinality(redeemed) + 1
      /\ Cardinality(redeemed) \in Nat
      /\ Cardinality(redeemed') \in Nat
  BY OneMoreRow
<1>2. Cardinality(redeemed') <= UsageLimit
  BY <1>1 DEF MayRedeem
<1>3. ASSUME NEW b \in Buyers
      PROVE  Cardinality(RedeemedBy(b)') <= PerSessionLimit
  <2>1. IsFiniteSet(RedeemedBy(b))
    <3>1. RedeemedBy(b) \subseteq redeemed
      BY DEF RedeemedBy
    <3> QED
      BY <3>1, FS_Subset
  <2>2. CASE b = BuyerOf[r]
    <3>1. RedeemedBy(b)' = RedeemedBy(b) \union {r}
      BY <2>2 DEF RedeemedBy
    <3>2. /\ Cardinality(RedeemedBy(b) \union {r}) <= Cardinality(RedeemedBy(b)) + 1
          /\ Cardinality(RedeemedBy(b)) \in Nat
          /\ Cardinality(RedeemedBy(b) \union {r}) \in Nat
      BY <2>1, OneMoreRow
    <3>3. Cardinality(RedeemedBy(b)) < PerSessionLimit
      BY <2>2 DEF MayRedeem
    <3> QED
      BY <3>1, <3>2, <3>3
  <2>3. CASE b # BuyerOf[r]
    <3>1. RedeemedBy(b)' = RedeemedBy(b)
      BY <2>3 DEF RedeemedBy
    <3> QED
      BY <3>1 DEF VoucherWithinLimits
  <2> QED
    BY <2>2, <2>3
<1> QED
  BY <1>1, <1>2, <1>3 DEF VoucherWithinLimits

\* A use of the voucher is taken by the one who holds its row.
LEMMA UseStep ==
  ASSUME Frame, UseInv, [Next]_vars
  PROVE  UseInv'
<1> DEFINE Early(q) == pc[q] \in {"ready", "claimed", "locking", "locked", "voucher"}
           Late(q) == pc[q] \in {"deciding", "writing"}
           Right(q) == /\ Early(q) => ~seen[q].redeem
                       /\ Late(q) /\ seen[q].redeem => voucherLock = q /\ MayRedeem(BuyerOf[q])
<1>1. \A q \in Requests : Right(q)
  BY DEF UseInv
<1>2. ASSUME IsFiniteSet(redeemed'), VoucherWithinLimits', \A q \in Requests : Right(q)'
      PROVE  UseInv'
  BY <1>2 DEF UseInv
<1>3. ASSUME redeemed' \subseteq redeemed
      PROVE  /\ IsFiniteSet(redeemed') /\ VoucherWithinLimits'
             /\ \A q \in Requests : MayRedeem(BuyerOf[q]) => MayRedeem(BuyerOf[q])'
  <2>1. IsFiniteSet(redeemed)
    BY DEF UseInv
  <2>2. \A b : /\ Cardinality(redeemed') <= Cardinality(redeemed)
               /\ Cardinality(RedeemedBy(b)') <= Cardinality(RedeemedBy(b))
               /\ MayRedeem(b) => MayRedeem(b)'
    BY <1>3, <2>1, FewerUses, LimitsAssumption
  <2>3. IsFiniteSet(redeemed')
    BY <1>3, <2>1, FS_Subset
  <2>4. /\ Cardinality(redeemed) \in Nat /\ Cardinality(redeemed') \in Nat
        /\ \A b : Cardinality(RedeemedBy(b)) \in Nat /\ Cardinality(RedeemedBy(b)') \in Nat
    <3>1. \A b : RedeemedBy(b) \subseteq redeemed /\ RedeemedBy(b)' \subseteq redeemed'
      BY DEF RedeemedBy
    <3>2. \A b : IsFiniteSet(RedeemedBy(b)) /\ IsFiniteSet(RedeemedBy(b)')
      BY <2>1, <2>3, <3>1, FS_Subset
    <3> QED
      BY <2>1, <2>3, <3>2, FS_CardinalityType
  <2>5. VoucherWithinLimits'
    BY <2>2, <2>4, LimitsAssumption DEF UseInv, VoucherWithinLimits
  <2> QED
    BY <2>2, <2>3, <2>5, RequestsAssumption
<1>4. ASSUME NEW r \in Requests, Commit(r)
      PROVE  UseInv'
  <2>1. /\ pc[r] = "writing" /\ pc' = [pc EXCEPT ![r] = "placed"] /\ seen' = seen
        /\ redeemed' = IF seen[r].redeem THEN redeemed \union {r} ELSE redeemed
    BY <1>4 DEF Commit
  <2>2. Right(r)'
    BY <2>1 DEF Frame
  <2>3. \A q \in Requests : q # r => /\ pc'[q] = pc[q] /\ seen'[q] = seen[q]
                                     /\ voucherLock = q => voucherLock' = q
    BY <1>4, OthersKeep DEF Handle
  <2>4. CASE seen[r].redeem
    <3>1. voucherLock = r /\ MayRedeem(BuyerOf[r])
      BY <1>1, <2>1, <2>4
    <3>2. \A q \in Requests : q # r /\ Late(q) => ~seen[q].redeem
      BY <1>1, <3>1
    <3>3. \A q \in Requests : Right(q)'
      BY <1>1, <2>2, <2>3, <3>2
    <3>4. IsFiniteSet(redeemed') /\ VoucherWithinLimits'
      BY <2>1, <2>4, <3>1, OneMoreUse
    <3> QED
      BY <1>2, <3>3, <3>4
  <2>5. CASE ~seen[r].redeem
    <3>1. redeemed' = redeemed
      BY <2>1, <2>5
    <3>2. \A q \in Requests : Right(q)'
      BY <1>1, <1>3, <2>2, <2>3, <3>1
    <3> QED
      BY <1>2, <1>3, <3>1, <3>2
  <2> QED
    BY <2>4, <2>5
<1>5. ASSUME NEW r \in Requests, Handle(r) \/ Abort(r) \/ Dies(r), ~Commit(r)
      PROVE  UseInv'
  <2>1. redeemed' = redeemed
    BY <1>5 DEF Handle, Claim, LookUp, LockVariant, HaveLocked, ReadBasket, LockVoucher, Decide,
                Refuse, Abort, RollBack, Confirm, Dies, Replay, tables
  <2>2. \A q \in Requests : q # r => /\ pc'[q] = pc[q] /\ seen'[q] = seen[q]
                                     /\ voucherLock = q => voucherLock' = q
    BY <1>5, OthersKeep
  <2>3. Right(r)'
    <3>1. CASE Claim(r) \/ HaveLocked(r) \/ Decide(r)
      <4>1. /\ seen' = seen /\ voucherLock' = voucherLock
            /\ Early(r)' => Early(r)
            /\ Late(r)' => Late(r)
        BY <3>1 DEF Claim, HaveLocked, Decide, locks, Frame
      <4> QED
        BY <1>1, <1>3, <2>1, <4>1
    <3>2. CASE LookUp(r) \/ LockVariant(r) \/ ReadBasket(r)
      <4>1. seen'[r].redeem = seen[r].redeem
        BY <3>2 DEF LookUp, LockVariant, ReadBasket, Frame, Reading
      <4>2. Early(r)
        BY <3>2 DEF LookUp, LockVariant, ReadBasket
      <4> QED
        BY <1>1, <4>1, <4>2
    <3>3. CASE LockVoucher(r)
      <4>1. /\ ~Early(r)'
            /\ voucherLock' = r
            /\ seen'[r].redeem = MayRedeem(BuyerOf[r])
        BY <3>3 DEF LockVoucher, Frame, Reading
      <4> QED
        BY <1>3, <2>1, <4>1
    <3>4. CASE Refuse(r) \/ Abort(r) \/ Confirm(r) \/ Dies(r) \/ Replay(r)
      <4>1. ~Early(r)' /\ ~Late(r)'
        BY <3>4 DEF Refuse, Abort, RollBack, Confirm, Dies, Replay, Frame
      <4> QED
        BY <4>1
    <3> QED
      BY <1>5, <3>1, <3>2, <3>3, <3>4 DEF Handle
  <2>4. \A q \in Requests : Right(q)'
    BY <1>1, <1>3, <2>1, <2>2, <2>3
  <2> QED
    BY <1>2, <1>3, <2>1, <2>4
<1>6. ASSUME UNCHANGED <<pc, seen, voucherLock>>, redeemed' \subseteq redeemed
      PROVE  UseInv'
  <2>1. \A q \in Requests : Right(q)'
    BY <1>1, <1>3, <1>6
  <2> QED
    BY <1>2, <1>3, <1>6, <2>1
<1>7. /\ (\E l \in Lines : EditLine(l)) => UNCHANGED <<pc, seen, voucherLock, redeemed>>
      /\ (\E b \in Buyers : AttachVoucher(b)) => UNCHANGED <<pc, seen, voucherLock, redeemed>>
      /\ UNCHANGED vars => UNCHANGED <<pc, seen, voucherLock, redeemed>>
  BY DEF EditLine, AttachVoucher, vars, tables, locks
<1>8. (\E o \in Requests : CancelOrder(o)) => /\ UNCHANGED <<pc, seen, voucherLock>>
                                              /\ redeemed' \subseteq redeemed
  BY DEF CancelOrder, locks
<1> QED
  BY <1>4, <1>5, <1>6, <1>7, <1>8 DEF Next

-----------------------------------------------------------------------------
(* Every reachable state.                                                  *)

\* The invariant holds at first, through every step, and so always.
LEMMA InvariantInit == Init => IInv
<1> SUFFICES ASSUME Init PROVE IInv
  OBVIOUS
<1> USE RequestsAssumption, LinesAssumption, LimitsAssumption DEF Init
<1>1. Frame
  BY DEF Frame, Statements, Reading, Unread
<1>2. KeyInv /\ AnsweredWithOwnOrder /\ MailInv
  BY DEF KeyInv, InTransaction, AnsweredWithOwnOrder, MailInv
<1>3. LockInv /\ LineInv /\ LevelInv
  BY DEF LockInv, HasLocks, LineInv, HasRead, LineOrderedOnce, LevelInv
<1>4. /\ IsFiniteSet(redeemed) /\ Cardinality(redeemed) = 0
      /\ \A b \in Buyers : RedeemedBy(b) = {}
  BY FS_EmptySet DEF RedeemedBy
<1>5. VoucherWithinLimits
  <2>1. Cardinality({}) = 0
    BY FS_EmptySet
  <2>2. \A b \in Buyers : Cardinality(RedeemedBy(b)) = 0
    BY <1>4, <2>1
  <2> QED
    BY <1>4, <2>2 DEF VoucherWithinLimits
<1>6. UseInv
  BY <1>4, <1>5 DEF UseInv, Unread
<1> QED
  BY <1>1, <1>2, <1>3, <1>6 DEF IInv

LEMMA InvariantStep == IInv /\ [Next]_vars => IInv'
BY FrameStep, KeyStep, AnswerStep, MailStep, LockStep, LineStep, LevelStep, UseStep DEF IInv

LEMMA Invariant == Spec => []IInv
BY InvariantInit, InvariantStep, PTL DEF Spec

\* One order per Idempotency-Key, however many requests race under it.
THEOREM KeyTheorem == Spec => []OneOrderPerKey
<1>1. IInv => OneOrderPerKey
  BY DEF IInv, KeyInv, OneOrderPerKey
<1> QED
  BY <1>1, Invariant, PTL

\* A request that finds its key taken finds the order that took it.
THEOREM ReplayTheorem == Spec => []ReplaysFindTheirOrder
<1>1. IInv => ReplaysFindTheirOrder
  BY DEF IInv, KeyInv, ReplaysFindTheirOrder
<1> QED
  BY <1>1, Invariant, PTL

\* An answer carries an order its request sent, of its session and body.
THEOREM AnswerTheorem == Spec => []AnsweredWithOwnOrder
<1>1. IInv => AnsweredWithOwnOrder
  BY DEF IInv
<1> QED
  BY <1>1, Invariant, PTL

\* A cart line is in one order at most, however many tabs check it out.
THEOREM LineTheorem == Spec => []LineOrderedOnce
<1>1. IInv => LineOrderedOnce
  BY DEF IInv, LineInv
<1> QED
  BY <1>1, Invariant, PTL

\* The voucher's uses stay within its limit, and within each session's.
THEOREM VoucherTheorem == Spec => []VoucherWithinLimits
<1>1. IInv => VoucherWithinLimits
  BY DEF IInv, UseInv
<1> QED
  BY <1>1, Invariant, PTL

\* An order is confirmed to its customer at most once.
THEOREM MailTheorem == Spec => []MailedOnce
<1>1. IInv => MailedOnce
  BY DEF IInv, MailInv, MailedOnce
<1> QED
  BY <1>1, Invariant, PTL

\* No update of stock_reserved is lost: a commit adds exactly what its order
\* asks for to what the row holds by then, and nothing else adds to it.
NoLostUpdate ==
  [][\A v \in Variants :
       \/ reserved'[v] = reserved[v]
       \/ \E o \in orders' \ orders : reserved'[v] = reserved[v] + Asked(o, v)
       \/ \E o \in cancelled' \ cancelled : reserved'[v] = reserved[v] - Asked(o, v)]_vars

\* Every change of a variant's reservations is one order's units, in or out.
THEOREM UpdateTheorem == Spec => NoLostUpdate
<1> DEFINE Accounted == \A v \in Variants :
       \/ reserved'[v] = reserved[v]
       \/ \E o \in orders' \ orders : reserved'[v] = reserved[v] + Asked(o, v)
       \/ \E o \in cancelled' \ cancelled : reserved'[v] = reserved[v] - Asked(o, v)
<1>1. ASSUME IInv, NEW r \in Requests, Commit(r)
      PROVE  Accounted
  <2>1. r \in orders' \ orders
    BY <1>1 DEF Commit, IInv, KeyInv
  <2>2. ASSUME NEW v \in Variants
        PROVE  reserved'[v] = reserved[v] \/ reserved'[v] = reserved[v] + Asked(r, v)
    <3>1. CASE Asked(r, v) # 0
      <4>1. lock[v] = r
        BY <1>1, <3>1, WritersHoldVariants DEF Commit, IInv
      <4>2. seen[r].level[v] = reserved[v]
        BY <1>1, <4>1 DEF IInv, LevelInv
      <4>3. reserved'[v] \in {seen[r].level[v] + Asked(r, v), reserved[v]}
        BY <1>1 DEF Commit
      <4> QED
        BY <4>2, <4>3
    <3>2. CASE Asked(r, v) = 0
      BY <1>1, <3>2 DEF Commit
    <3> QED
      BY <3>1, <3>2
  <2> QED
    BY <2>1, <2>2
<1>2. ASSUME NEW o \in Requests, CancelOrder(o)
      PROVE  Accounted
  <2>1. o \in cancelled' \ cancelled /\ \A v \in Variants : reserved'[v] = reserved[v] - Asked(o, v)
    BY <1>2 DEF CancelOrder
  <2> QED
    BY <2>1
<1>3. ASSUME NEW r \in Requests, Handle(r) \/ Abort(r) \/ Dies(r), ~Commit(r)
      PROVE  UNCHANGED reserved
  BY <1>3 DEF Handle, Claim, LookUp, LockVariant, HaveLocked, ReadBasket, LockVoucher, Decide,
              Refuse, Abort, RollBack, Confirm, Dies, Replay, tables
<1>4. /\ (\E l \in Lines : EditLine(l)) => UNCHANGED reserved
      /\ (\E b \in Buyers : AttachVoucher(b)) => UNCHANGED reserved
      /\ UNCHANGED vars => UNCHANGED reserved
  BY DEF EditLine, AttachVoucher, vars, tables
<1>5. UNCHANGED reserved => Accounted
  OBVIOUS
<1>6. IInv /\ [Next]_vars => [Accounted]_vars
  <2> HIDE DEF Accounted
  <2> QED
    BY <1>1, <1>2, <1>3, <1>4, <1>5 DEF Next
<1> QED
  BY <1>6, Invariant, PTL DEF Spec, NoLostUpdate, Accounted

-----------------------------------------------------------------------------
(* The sum of the reservations.                                            *)

Live == orders \ cancelled

\* Only orders are cancelled, finitely many are live, and a variant's row holds
\* what they ask for between them.
StockInv ==
  /\ cancelled \subseteq orders
  /\ IsFiniteSet(Live)
  /\ ReservationsAddUp

\* Units are quantities.
LEMMA UnitsType ==
  ASSUME NEW v \in Variants
  PROVE  \A o \in Requests : UnitsOf(v)[o] = Asked(o, v) /\ UnitsOf(v)[o] \in Nat
  BY AskedType DEF UnitsOf

\* An order comes in: its units join the sum, and the rows it holds had room.
LEMMA StockCommit ==
  ASSUME IInv, StockInv, NEW r \in Requests, Commit(r)
  PROVE  StockInv'
<1>1. r \notin orders /\ orders' = orders \union {r} /\ cancelled' = cancelled
  BY DEF Commit, IInv, KeyInv
<1>2. r \notin Live /\ Live' = Live \union {r} /\ Live \subseteq Requests
  BY <1>1 DEF StockInv, Live, IInv, Frame
<1>3. IsFiniteSet(Live')
  BY <1>2, FS_AddElement DEF StockInv
<1>4. ASSUME NEW v \in Variants
      PROVE  /\ reserved'[v] = SumFunctionOnSet(UnitsOf(v), Live')
             /\ reserved'[v] <= OnHand
  <2>1. reserved'[v] = IF Asked(r, v) > 0 THEN seen[r].level[v] + Asked(r, v) ELSE reserved[v]
    BY DEF Commit
  <2>2. Asked(r, v) \in Nat
    BY AskedType
  <2>3. reserved[v] \in Int /\ seen[r].level[v] \in Int
    BY DEF IInv, Frame, Reading
  <2>4. reserved[v] = SumFunctionOnSet(UnitsOf(v), Live) /\ reserved[v] <= OnHand
    BY DEF StockInv, ReservationsAddUp, Live
  <2>5. SumFunctionOnSet(UnitsOf(v), Live') = SumFunctionOnSet(UnitsOf(v), Live) + Asked(r, v)
    <3>1. \A o \in Live \union {r} : UnitsOf(v)[o] \in Int
      BY <1>2, UnitsType
    <3>2. UnitsOf(v)[r] = Asked(r, v)
      BY UnitsType
    <3>3. IsFiniteSet(Live)
      BY DEF StockInv
    <3>4. SumFunctionOnSet(UnitsOf(v), Live \union {r}) =
            SumFunctionOnSet(UnitsOf(v), Live) + UnitsOf(v)[r]
      BY <1>2, <3>1, <3>3, SumAddElement
    <3> QED
      BY <1>2, <3>2, <3>4
  <2>6. CASE Asked(r, v) = 0
    BY <2>1, <2>3, <2>4, <2>5, <2>6
  <2>7. CASE Asked(r, v) # 0
    <3>1. lock[v] = r
      BY <2>7, WritersHoldVariants DEF Commit, IInv
    <3>2. seen[r].level[v] = reserved[v]
      BY <3>1 DEF IInv, LevelInv
    <3>3. Acceptable(r)
      BY DEF Commit, IInv, LockInv
    <3>4. seen[r].level[v] + Asked(r, v) <= OnHand
      <4> DEFINE l == CHOOSE l \in LinesOf(r) : VariantOf[l] = v
      <4>1. l \in LinesOf(r) /\ VariantOf[l] = v
        BY <2>7, AskedOfLines
      <4>2. Asked(r, v) = Confirmed[r][l]
        BY <2>7, AskedOfLines DEF Asked
      <4> HIDE DEF l
      <4> QED
        BY <3>3, <4>1, <4>2 DEF Acceptable
    <3> QED
      BY <2>1, <2>2, <2>3, <2>4, <2>5, <2>7, <3>2, <3>4
  <2> QED
    BY <2>6, <2>7
<1>5. ReservationsAddUp'
  BY <1>4 DEF ReservationsAddUp, UnitsOf, Asked, LinesOf, Live
<1> QED
  BY <1>1, <1>3, <1>5 DEF StockInv

\* An order goes: its units leave the sum.
LEMMA StockCancel ==
  ASSUME IInv, StockInv, NEW o \in Requests, CancelOrder(o)
  PROVE  StockInv'
<1>1. o \in Live /\ orders' = orders /\ cancelled' = cancelled \union {o}
  BY DEF CancelOrder, Live
<1>2. Live' = Live \ {o} /\ Live \subseteq Requests
  BY <1>1 DEF Live, IInv, Frame
<1>3. IsFiniteSet(Live) /\ IsFiniteSet(Live')
  <2>1. IsFiniteSet(Live)
    BY DEF StockInv
  <2> QED
    BY <1>2, <2>1, FS_Subset
<1>4. ASSUME NEW v \in Variants
      PROVE  /\ reserved'[v] = SumFunctionOnSet(UnitsOf(v), Live')
             /\ reserved'[v] <= OnHand
  <2>1. reserved'[v] = reserved[v] - Asked(o, v)
    BY DEF CancelOrder
  <2>2. Asked(o, v) \in Nat /\ UnitsOf(v)[o] = Asked(o, v)
    BY AskedType, UnitsType
  <2>3. reserved[v] = SumFunctionOnSet(UnitsOf(v), Live) /\ reserved[v] <= OnHand
    BY DEF StockInv, ReservationsAddUp, Live
  <2>4. \A x \in Live : UnitsOf(v)[x] \in Int
    BY <1>2, UnitsType
  <2>5. SumFunctionOnSet(UnitsOf(v), Live) = UnitsOf(v)[o] + SumFunctionOnSet(UnitsOf(v), Live \ {o})
    BY <1>1, <1>3, <2>4, SumByAny
  <2>6. SumFunctionOnSet(UnitsOf(v), Live \ {o}) \in Int
    <3>1. IsFiniteSet(Live \ {o})
      BY <1>2, <1>3
    <3> QED
      BY <2>4, <3>1, SumIsInt
  <2>7. OnHand \in Int
    BY LimitsAssumption
  <2> QED
    BY <1>2, <2>1, <2>2, <2>3, <2>5, <2>6, <2>7
<1>5. ReservationsAddUp'
  BY <1>4 DEF ReservationsAddUp, UnitsOf, Asked, LinesOf, Live
<1>6. cancelled' \subseteq orders'
  BY <1>1 DEF StockInv, Live
<1> QED
  BY <1>3, <1>5, <1>6 DEF StockInv

\* Every step keeps the sums.
LEMMA StockStep ==
  ASSUME IInv, StockInv, [Next]_vars
  PROVE  StockInv'
<1>1. ASSUME UNCHANGED <<orders, cancelled, reserved>>
      PROVE  StockInv'
  <2>1. Live' = Live /\ \A v \in Variants : UnitsOf(v)' = UnitsOf(v)
    BY <1>1 DEF Live, UnitsOf, Asked, LinesOf
  <2>2. ReservationsAddUp'
    BY <1>1, <2>1 DEF StockInv, ReservationsAddUp, Live
  <2> QED
    BY <1>1, <2>1, <2>2 DEF StockInv
<1>2. ASSUME NEW r \in Requests, Handle(r) \/ Abort(r) \/ Dies(r), ~Commit(r)
      PROVE  StockInv'
  BY <1>1, <1>2
  DEF Handle, Claim, LookUp, LockVariant, HaveLocked, ReadBasket, LockVoucher, Decide,
      Refuse, Abort, RollBack, Confirm, Dies, Replay, tables
<1>3. ASSUME NEW l \in Lines, EditLine(l)
      PROVE  StockInv'
  BY <1>1, <1>3 DEF EditLine
<1>4. ASSUME NEW b \in Buyers, AttachVoucher(b)
      PROVE  StockInv'
  BY <1>1, <1>4 DEF AttachVoucher
<1>5. CASE UNCHANGED vars
  BY <1>1, <1>5 DEF vars, tables
<1> QED
  BY <1>2, <1>3, <1>4, <1>5, StockCommit, StockCancel DEF Next

LEMMA StockInvariant == Spec => []StockInv
<1>1. ASSUME Init
      PROVE  StockInv
  <2>1. orders = {} /\ cancelled = {} /\ Live = {}
    BY <1>1 DEF Init, Live
  <2>2. IsFiniteSet({})
    BY FS_EmptySet
  <2>3. \A v \in Variants : SumFunctionOnSet(UnitsOf(v), {}) = 0
    BY <2>2, SumByPick
  <2>4. ReservationsAddUp
    BY <1>1, <2>1, <2>3, LimitsAssumption DEF Init, ReservationsAddUp, Live
  <2> QED
    BY <2>1, <2>2, <2>4 DEF StockInv
<1>2. IInv /\ StockInv /\ [Next]_vars => StockInv'
  BY StockStep
<1> QED
  BY <1>1, <1>2, Invariant, PTL DEF Spec

\* What is reserved of a variant is what the live orders ask for, however many
\* there are, and never more than there is.
THEOREM ReservationTheorem == Spec => []ReservationsAddUp
<1>1. StockInv => ReservationsAddUp
  BY DEF StockInv
<1> QED
  BY <1>1, StockInvariant, PTL

\* Reservations being a sum of quantities, they are never negative, and nor is
\* what a request has read of them.
LEMMA ReservedIsNat ==
  ASSUME IInv, StockInv
  PROVE  reserved \in [Variants -> Nat]
<1>1. Live \subseteq Requests /\ IsFiniteSet(Live) /\ reserved \in [Variants -> Int]
  BY DEF StockInv, Live, IInv, Frame
<1>2. ASSUME NEW v \in Variants
      PROVE  reserved[v] \in Nat
  <2>1. reserved[v] = SumFunctionOnSet(UnitsOf(v), Live)
    BY DEF StockInv, ReservationsAddUp, Live
  <2>2. \A o \in Live : UnitsOf(v)[o] \in Nat
    BY <1>1, UnitsType
  <2> QED
    BY <1>1, <2>1, <2>2, SumIsNat
<1> QED
  BY <1>1, <1>2

LevelsType == \A r \in Requests : \A v \in Variants : seen[r].level[v] \in Nat

\* What is read of a reservation is a quantity.
LEMMA LevelsStep ==
  ASSUME IInv, StockInv, LevelsType, [Next]_vars
  PROVE  LevelsType'
<1>f. Frame
  BY DEF IInv
<1>1. CASE UNCHANGED seen
  BY <1>1 DEF LevelsType
<1>2. ASSUME NEW r \in Requests, LookUp(r) \/ ReadBasket(r) \/ LockVoucher(r)
      PROVE  LevelsType'
  <2>1. \A q \in Requests : seen'[q].level = seen[q].level
    <3>t. seen \in [Requests -> Reading]
      BY <1>f DEF Frame
    <3>1. ASSUME NEW s, s.level = seen[r].level, seen' = [seen EXCEPT ![r] = s]
          PROVE  \A q \in Requests : seen'[q].level = seen[q].level
      BY <3>t, <3>1
    <3>2. CASE LookUp(r)
      <4> DEFINE W == {VariantOf[l] : l \in {k \in LinesOf(r) : OwnerOf[k] = BuyerOf[r] /\ cart[k] > 0}}
      <4>1. seen' = [seen EXCEPT ![r] = [seen[r] EXCEPT !.want = W]]
        BY <3>2 DEF LookUp
      <4> HIDE DEF W
      <4>2. [seen[r] EXCEPT !.want = W].level = seen[r].level
        BY <3>t DEF Reading
      <4> QED  BY <3>1, <4>1, <4>2
    <3>3. CASE ReadBasket(r)
      <4> DEFINE s == [seen[r] EXCEPT !.basket = CartOf(BuyerOf[r]), !.voucher = attached[BuyerOf[r]]]
      <4>1. seen' = [seen EXCEPT ![r] = s]
        BY <3>3 DEF ReadBasket
      <4>2. s.level = seen[r].level
        BY <3>t DEF Reading
      <4> QED  BY <3>1, <4>1, <4>2
    <3>4. CASE LockVoucher(r)
      <4> DEFINE s == [seen[r] EXCEPT !.redeem = MayRedeem(BuyerOf[r])]
      <4>1. seen' = [seen EXCEPT ![r] = s]
        BY <3>4 DEF LockVoucher
      <4>2. s.level = seen[r].level
        BY <3>t DEF Reading
      <4> QED  BY <3>1, <4>1, <4>2
    <3> QED  BY <1>2, <3>2, <3>3, <3>4
  <2> QED
    BY <2>1 DEF LevelsType
<1>3. ASSUME NEW r \in Requests, LockVariant(r)
      PROVE  LevelsType'
  <2>1. PICK v \in Variants : seen' = [seen EXCEPT ![r].level[v] = reserved[v]]
    BY <1>3 DEF LockVariant
  <2>2. reserved[v] \in Nat
    BY ReservedIsNat
  <2>3. \A u \in Variants : seen'[r].level[u] \in {seen[r].level[u], reserved[v]}
    BY <1>f, <2>1 DEF Frame, Reading
  <2>4. \A q \in Requests \ {r} : seen'[q] = seen[q]
    BY <1>f, <2>1 DEF Frame
  <2> QED
    BY <2>2, <2>3, <2>4 DEF LevelsType
<1> QED
  BY <1>1, <1>2, <1>3
  DEF Next, Handle, Claim, HaveLocked, Decide, Refuse, Commit, Abort, RollBack, Confirm, Dies,
      Replay, EditLine, AttachVoucher, CancelOrder, vars

\* Every row of the checkout keeps its type.
THEOREM TypeTheorem == Spec => []TypeOK
<1>1. Init => LevelsType
  BY DEF Init, Unread, LevelsType
<1>2. IInv /\ StockInv /\ LevelsType /\ [Next]_vars => LevelsType'
  BY LevelsStep
<1>3. IInv /\ StockInv /\ LevelsType => TypeOK
  <2> SUFFICES ASSUME IInv, StockInv, LevelsType
               PROVE  TypeOK
    OBVIOUS
  <2>1. reserved \in [Variants -> Nat]
    BY ReservedIsNat
  <2>2. ASSUME NEW r \in Requests
        PROVE  seen[r] \in [want : SUBSET Variants, level : [Variants -> Nat],
                            basket : [Lines -> Nat], voucher : BOOLEAN, redeem : BOOLEAN]
    BY DEF IInv, Frame, Reading, LevelsType
  <2>3. seen \in [Requests -> [want : SUBSET Variants, level : [Variants -> Nat],
                               basket : [Lines -> Nat], voucher : BOOLEAN, redeem : BOOLEAN]]
    <3>1. \E D : seen \in [Requests -> D]
      BY DEF IInv, Frame
    <3> QED
      BY <2>2, <3>1
  <2> QED
    BY <2>1, <2>3 DEF IInv, Frame, TypeOK
<1> QED
  BY <1>1, <1>2, <1>3, Invariant, StockInvariant, PTL DEF Spec

-----------------------------------------------------------------------------
(* Who waits for whom.                                                     *)

\* Only a transaction that has begun to lock holds a row, it holds no row that
\* comes after one it still has to lock, and it takes the voucher's row last.
OrderInv ==
  /\ \A r \in Requests : \A v \in Variants : lock[v] = r =>
       /\ pc[r] \in {"locking", "locked", "voucher", "deciding", "writing"}
       /\ pc[r] = "locking" => \A u \in ToLock(r) : v < u
  /\ \A r \in Requests : voucherLock = r => pc[r] \in {"deciding", "writing"}

\* Every step keeps the order in which locks are taken.
LEMMA OrderStep ==
  ASSUME Frame, OrderInv, [Next]_vars
  PROVE  OrderInv'
<1>t. /\ pc \in [Requests -> Statements] /\ seen \in [Requests -> Reading]
      /\ lock \in [Variants -> Requests \union {None}]
  BY DEF Frame
\* A request that gets no new row, and goes on or lets go of those it has.
<1>a. ASSUME NEW r \in Requests,
             \A q \in Requests \ {r} : pc'[q] = pc[q] /\ seen'[q] = seen[q],
             \A v \in Variants : lock'[v] = lock[v] \/ (lock[v] = r /\ lock'[v] = None),
             \/ /\ pc[r] \in {"locking", "locked", "voucher", "deciding"}
                /\ pc'[r] \in {"locked", "voucher", "deciding", "writing"}
             \/ \A v \in Variants : lock'[v] # r,
             \/ voucherLock' = voucherLock /\ voucherLock # r
             \/ voucherLock' = None
             \/ voucherLock' \in {voucherLock, r} /\ pc'[r] \in {"deciding", "writing"}
      PROVE  OrderInv'
  <2>1. ASSUME NEW q \in Requests, NEW v \in Variants, lock'[v] = q
        PROVE  /\ pc'[q] \in {"locking", "locked", "voucher", "deciding", "writing"}
               /\ pc'[q] = "locking" => \A u \in ToLock(q)' : v < u
    <3>1. lock[v] = q
      BY <1>a, <2>1, RequestsAssumption
    <3>2. CASE q = r
      BY <1>a, <2>1, <3>2
    <3>3. CASE q # r
      <4>1. pc'[q] = pc[q] /\ seen'[q] = seen[q]
        BY <1>a, <3>3
      <4>2. \A u \in Variants : lock'[u] = q <=> lock[u] = q
        BY <1>a, <3>3, RequestsAssumption
      <4>3. ToLock(q)' = ToLock(q)
        BY <4>1, <4>2 DEF ToLock, Held
      <4> QED
        BY <3>1, <4>1, <4>3 DEF OrderInv
    <3> QED
      BY <3>2, <3>3
  <2>2. ASSUME NEW q \in Requests, voucherLock' = q
        PROVE  pc'[q] \in {"deciding", "writing"}
    BY <1>a, <2>2, RequestsAssumption DEF OrderInv
  <2> QED
    BY <2>1, <2>2 DEF OrderInv
\* A request that has no rows yet, or no more.
<1>b. ASSUME NEW r \in Requests, UNCHANGED <<lock, voucherLock>>,
             pc[r] \in {"ready", "claimed", "placed", "replay", "answered", "refused", "lost"},
             \A q \in Requests \ {r} : pc'[q] = pc[q] /\ seen'[q] = seen[q]
      PROVE  OrderInv'
  <2>1. voucherLock # r /\ \A v \in Variants : lock[v] # r
    BY <1>b DEF OrderInv
  <2> QED
    BY <1>a, <1>b, <2>1
<1>c. ASSUME UNCHANGED <<pc, seen, lock, voucherLock>>
      PROVE  OrderInv'
  <2>1. \A q \in Requests : ToLock(q)' = ToLock(q)
    BY <1>c DEF ToLock, Held
  <2> QED
    BY <1>c, <2>1 DEF OrderInv
<1>1. ASSUME NEW r \in Requests, Claim(r) \/ LookUp(r) \/ Confirm(r) \/ Replay(r) \/ Dies(r)
      PROVE  OrderInv'
  <2>1. \A q \in Requests \ {r} : pc'[q] = pc[q] /\ seen'[q] = seen[q]
    BY <1>1, OthersKeep DEF Handle
  <2> QED
    BY <1>1, <1>b, <2>1 DEF Claim, LookUp, Confirm, Replay, Dies, locks
<1>2. ASSUME NEW r \in Requests, HaveLocked(r) \/ ReadBasket(r) \/ Decide(r)
      PROVE  OrderInv'
  <2>1. \A q \in Requests \ {r} : pc'[q] = pc[q] /\ seen'[q] = seen[q]
    BY <1>2, OthersKeep DEF Handle
  <2>2. /\ pc[r] \in {"locking", "locked", "deciding"}
        /\ pc'[r] \in {"locked", "voucher", "deciding", "writing"}
        /\ UNCHANGED <<lock, voucherLock>>
    BY <1>2, <1>t DEF HaveLocked, ReadBasket, Decide, locks
  <2>3. voucherLock = r => pc'[r] = "writing"
    BY <1>2, <1>t DEF HaveLocked, ReadBasket, Decide, OrderInv
  <2> QED
    BY <1>a, <2>1, <2>2, <2>3
<1>3. ASSUME NEW r \in Requests, LockVoucher(r)
      PROVE  OrderInv'
  <2>1. \A q \in Requests \ {r} : pc'[q] = pc[q] /\ seen'[q] = seen[q]
    BY <1>3, OthersKeep DEF Handle
  <2>2. pc[r] = "voucher" /\ pc'[r] = "deciding" /\ voucherLock' = r /\ lock' = lock
    BY <1>3, <1>t DEF LockVoucher
  <2> QED
    BY <1>a, <2>1, <2>2
<1>4. ASSUME NEW r \in Requests, Refuse(r) \/ Abort(r) \/ Commit(r)
      PROVE  OrderInv'
  <2>1. \A q \in Requests \ {r} : pc'[q] = pc[q] /\ seen'[q] = seen[q]
    BY <1>4, OthersKeep DEF Handle
  <2>2. Unlocked(r)
    BY <1>4 DEF Refuse, Abort, RollBack, Commit
  <2>3. \A v \in Variants : lock'[v] = IF lock[v] = r THEN None ELSE lock[v]
    BY <2>2 DEF Unlocked
  <2>4. \A v \in Variants : lock'[v] # r
    BY <2>3, RequestsAssumption
  <2>5. voucherLock' = None \/ (voucherLock' = voucherLock /\ voucherLock # r)
    BY <2>2 DEF Unlocked
  <2> QED
    BY <1>a, <2>1, <2>3, <2>4, <2>5
<1>5. ASSUME NEW r \in Requests, LockVariant(r)
      PROVE  OrderInv'
  <2>1. \A q \in Requests \ {r} : pc'[q] = pc[q] /\ seen'[q] = seen[q]
    BY <1>5, OthersKeep DEF Handle
  <2>2. PICK v \in Variants :
          /\ IsNextToLock(r, v) /\ lock[v] = None /\ lock' = [lock EXCEPT ![v] = r]
          /\ seen' = [seen EXCEPT ![r].level[v] = reserved[v]]
    BY <1>5 DEF LockVariant
  <2>3. pc[r] = "locking" /\ UNCHANGED <<pc, voucherLock>>
    BY <1>5 DEF LockVariant
  <2>4. seen'[r].want = seen[r].want
    <3>1. seen' = [seen EXCEPT ![r] =
                     [seen[r] EXCEPT !.level = [seen[r].level EXCEPT ![v] = reserved[v]]]]
      BY <1>t, <2>2 DEF Reading
    <3> QED
      BY <1>t, <3>1 DEF Reading
  <2>5. /\ lock'[v] = r
        /\ \A u \in Variants \ {v} : lock'[u] = lock[u]
    BY <1>t, <2>2
  <2>6. ToLock(r)' = ToLock(r) \ {v}
    BY <2>4, <2>5 DEF ToLock, Held
  <2>7. \A q \in Requests \ {r} : ToLock(q)' = ToLock(q)
    BY <2>1, <2>2, <2>5, RequestsAssumption DEF ToLock, Held
  <2>8. ASSUME NEW q \in Requests, NEW u \in Variants, lock'[u] = q
        PROVE  /\ pc[q] \in {"locking", "locked", "voucher", "deciding", "writing"}
               /\ pc[q] = "locking" => \A w \in ToLock(q)' : u < w
    <3>1. CASE u = v
      <4>1. q = r
        BY <2>5, <2>8, <3>1
      <4>2. \A w \in ToLock(r) : w \in Variants /\ v <= w
        BY <1>t, <2>2 DEF IsNextToLock, ToLock, Reading
      <4>3. \A w \in ToLock(r) \ {v} : v < w
        BY <4>2 DEF Variants
      <4> QED
        BY <2>3, <2>6, <3>1, <4>1, <4>3
    <3>2. CASE u # v /\ q = r
      BY <2>5, <2>6, <2>8, <3>2 DEF OrderInv
    <3>3. CASE u # v /\ q # r
      BY <2>5, <2>7, <2>8, <3>3 DEF OrderInv
    <3> QED
      BY <3>1, <3>2, <3>3
  <2> QED
    BY <2>3, <2>8 DEF OrderInv
<1>6. CASE \/ \E l \in Lines : EditLine(l)
           \/ \E b \in Buyers : AttachVoucher(b)
           \/ \E o \in Requests : CancelOrder(o)
           \/ UNCHANGED vars
  BY <1>6, <1>c DEF EditLine, AttachVoucher, CancelOrder, vars, locks
<1> QED
  BY <1>1, <1>2, <1>3, <1>4, <1>5, <1>6 DEF Next, Handle

\* How far along the order of locking the row is that a request waits for:
\* before all variants, a variant by its id, the voucher, nothing.
Place(r) ==
  IF pc[r] = "ready" THEN 0
  ELSE IF pc[r] = "locking" /\ \E v \in Variants : IsNextToLock(r, v)
  THEN CHOOSE v \in Variants : IsNextToLock(r, v)
  ELSE IF pc[r] = "voucher" THEN NumVariants + 1
  ELSE NumVariants + 2

\* The place of a request that is locking is the row it is after.
LEMMA NextIsOne ==
  ASSUME NEW r \in Requests, NEW v \in Variants, IsNextToLock(r, v), pc[r] = "locking"
  PROVE  Place(r) = v
<1>1. \A u \in Variants : IsNextToLock(r, u) => u = v
  BY DEF IsNextToLock, Variants
<1> QED
  BY <1>1 DEF Place

\* Places are numbers up to two past the last variant.
LEMMA PlaceType ==
  ASSUME NEW r \in Requests
  PROVE  Place(r) \in 0 .. NumVariants + 2
<1>1. NumVariants \in Nat
  BY VariantsAssumption
<1>2. CASE pc[r] = "locking" /\ \E v \in Variants : IsNextToLock(r, v)
  <2>1. PICK v \in Variants : IsNextToLock(r, v)
    BY <1>2
  <2>2. Place(r) = v
    BY <1>2, <2>1, NextIsOne
  <2> QED
    BY <1>1, <2>1, <2>2 DEF Variants
<1>3. CASE ~ (pc[r] = "locking" /\ \E v \in Variants : IsNextToLock(r, v))
  <2>1. Place(r) \in {0, NumVariants + 1, NumVariants + 2}
    BY <1>3 DEF Place
  <2> QED
    BY <1>1, <2>1
<1> QED
  BY <1>2, <1>3

\* Whoever is waited for is further along than who waits.
LEMMA WaitsForLater ==
  ASSUME Frame, OrderInv, NEW r \in Requests, NEW q \in WaitsFor(r), q \in Requests
  PROVE  Place(r) < Place(q)
<1>1. NumVariants \in Nat /\ Place(q) \in 0 .. NumVariants + 2
  BY VariantsAssumption, PlaceType
<1>2. CASE pc[r] = "ready"
  <2>1. Place(r) = 0
    BY <1>2 DEF Place
  <2>2. InTransaction(q)
    BY <1>2 DEF WaitsFor
  <2>3. Place(q) # 0
    <3>1. CASE pc[q] = "locking" /\ \E v \in Variants : IsNextToLock(q, v)
      <4>1. PICK v \in Variants : IsNextToLock(q, v)
        BY <3>1
      <4>2. Place(q) = v
        BY <3>1, <4>1, NextIsOne
      <4> QED
        BY <4>2 DEF Variants
    <3>2. CASE ~ (pc[q] = "locking" /\ \E v \in Variants : IsNextToLock(q, v))
      <4>1. Place(q) \in {NumVariants + 1, NumVariants + 2}
        BY <2>2, <3>2 DEF Place, InTransaction
      <4> QED
        BY <1>1, <4>1
    <3> QED
      BY <3>1, <3>2
  <2> QED
    BY <1>1, <2>1, <2>3
<1>3. CASE pc[r] = "locking"
  <2>1. PICK v \in Variants : IsNextToLock(r, v) /\ q = lock[v]
    BY <1>3 DEF WaitsFor
  <2>2. Place(r) = v
    BY <1>3, <2>1, NextIsOne
  <2>3. /\ pc[q] \in {"locking", "locked", "voucher", "deciding", "writing"}
        /\ pc[q] = "locking" => \A u \in ToLock(q) : v < u
    BY <2>1 DEF OrderInv
  <2>4. CASE pc[q] = "locking" /\ \E u \in Variants : IsNextToLock(q, u)
    <3>1. PICK u \in Variants : IsNextToLock(q, u)
      BY <2>4
    <3>2. Place(q) = u /\ u \in ToLock(q)
      BY <2>4, <3>1, NextIsOne DEF IsNextToLock
    <3> QED
      BY <2>2, <2>3, <2>4, <3>2
  <2>5. CASE ~ (pc[q] = "locking" /\ \E u \in Variants : IsNextToLock(q, u))
    <3>1. Place(q) \in {NumVariants + 1, NumVariants + 2}
      BY <2>3, <2>5 DEF Place
    <3>2. v \in 1..NumVariants
      BY <2>1 DEF Variants
    <3> QED
      BY <1>1, <2>2, <3>1, <3>2
  <2> QED
    BY <2>4, <2>5
<1>4. CASE pc[r] = "voucher"
  <2>1. q = voucherLock
    BY <1>4 DEF WaitsFor
  <2>2. pc[q] \in {"deciding", "writing"}
    BY <2>1 DEF OrderInv
  <2>3. Place(q) = NumVariants + 2 /\ Place(r) = NumVariants + 1
    BY <1>4, <2>2 DEF Place
  <2> QED
    BY <1>1, <2>3
<1>5. CASE pc[r] \notin {"ready", "locking", "voucher"}
  BY <1>5 DEF WaitsFor
<1> QED
  BY <1>2, <1>3, <1>4, <1>5

\* In a set of requests, the one with the furthest place waits for no other.
LEMMA FurthestWaitsForNone ==
  ASSUME Frame, OrderInv, NEW S \in SUBSET Requests, S # {}
  PROVE  \E r \in S : WaitsFor(r) \cap S = {}
<1> DEFINE place == [r \in S |-> Place(r)]
<1>1. \A r \in S : place[r] \in 0 .. NumVariants + 2
  BY PlaceType
<1>2. NumVariants + 2 \in Nat
  BY VariantsAssumption
<1>3. PICK r \in S : \A q \in S : place[q] <= place[r]
  <2> HIDE DEF place
  <2> QED  BY <1>1, <1>2, GreatestRank
<1>4. ASSUME NEW q \in WaitsFor(r) \cap S
      PROVE  FALSE
  <2>1. Place(r) < Place(q)
    BY <1>4, WaitsForLater
  <2>2. Place(q) <= Place(r)
    BY <1>3, <1>4
  <2>3. Place(q) \in 0 .. NumVariants + 2 /\ Place(r) \in 0 .. NumVariants + 2
    BY PlaceType
  <2> QED
    BY <1>2, <2>1, <2>2, <2>3
<1> QED
  BY <1>4

\* However many checkouts are under way, in no group of them does everyone wait
\* for another of the group: the locks are taken in one order.
THEOREM DeadlockTheorem == Spec => []NoDeadlock
<1>1. Init => OrderInv
  BY RequestsAssumption DEF Init, OrderInv
<1>2. IInv /\ OrderInv /\ [Next]_vars => OrderInv'
  BY OrderStep DEF IInv
<1>3. IInv /\ OrderInv => NoDeadlock
  BY FurthestWaitsForNone DEF IInv, NoDeadlock
<1> QED
  BY <1>1, <1>2, <1>3, Invariant, PTL DEF Spec

-----------------------------------------------------------------------------
(* An order is placed at once.                                             *)

\* Nobody is answered twice.
AnsweredLast == \A r \in Requests : pc[r] # "answered" => answer[r] = None

\* Only the step that answers a request ends its wait for an answer.
LEMMA AnsweredStep ==
  ASSUME Frame, AnsweredLast, [Next]_vars
  PROVE  AnsweredLast'
<1>1. ASSUME NEW r \in Requests, Handle(r) \/ Abort(r) \/ Dies(r)
      PROVE  AnsweredLast'
  <2>1. \A q \in Requests \ {r} : pc'[q] = pc[q] /\ answer'[q] = answer[q]
    <3>1. \A q \in Requests : q # r => pc'[q] = pc[q]
      BY <1>1, OthersKeep
    <3>2. \A q \in Requests \ {r} : answer'[q] = answer[q]
      BY <1>1
      DEF Handle, Claim, LookUp, LockVariant, HaveLocked, ReadBasket, LockVoucher, Decide,
          Refuse, Commit, Abort, RollBack, Confirm, Dies, Replay, Frame
    <3> QED
      BY <3>1, <3>2
  <2>2. pc'[r] # "answered" => answer'[r] = answer[r] /\ pc[r] # "answered"
    BY <1>1
    DEF Handle, Claim, LookUp, LockVariant, HaveLocked, ReadBasket, LockVoucher, Decide, Refuse,
        Commit, Abort, InTransaction, RollBack, Confirm, Dies, Replay, Frame
  <2> QED
    BY <2>1, <2>2 DEF AnsweredLast
<1>2. CASE UNCHANGED <<pc, answer>>
  BY <1>2 DEF AnsweredLast
<1> QED
  BY <1>1, <1>2 DEF Next, EditLine, AttachVoucher, CancelOrder, vars

LEMMA AnsweredInvariant == Spec => []AnsweredLast
<1>1. Init => AnsweredLast
  BY DEF Init, AnsweredLast
<1>2. IInv /\ AnsweredLast /\ [Next]_vars => AnsweredLast'
  BY AnsweredStep DEF IInv
<1> QED
  BY <1>1, <1>2, Invariant, PTL DEF Spec

\* Sums and cardinalities are the same in both modules.
LEMMA SameCounting ==
  /\ \A S : AtOnce!Cardinality(S) = Cardinality(S)
  /\ \A f, S : AtOnce!SumFunctionOnSet(f, S) = SumFunctionOnSet(f, S)
<1>1. \A S : AtOnce!Cardinality(S) = Cardinality(S)
  BY Zenon DEF Cardinality, AtOnce!Cardinality
<1>2. \A f, S : AtOnce!SumFunctionOnSet(f, S) = SumFunctionOnSet(f, S)
  BY Zenon
  DEF SumFunctionOnSet, FoldFunctionOnSet, MapThenFoldSet, AtOnce!SumFunctionOnSet,
      AtOnce!FoldFunctionOnSet, AtOnce!MapThenFoldSet
<1> QED
  BY <1>1, <1>2

\* A commit is a placement: what was read at different times is true now.
LEMMA CommitPlaces ==
  ASSUME IInv, IInv', StockInv, StockInv', NEW r \in Requests, Commit(r)
  PROVE  AtOnce!Place(r)
<1>1. r \notin orders /\ orders' = orders \union {r} /\ cancelled' = cancelled
      /\ answer' = answer
  BY DEF Commit, IInv, KeyInv
<1>2. AtOnce!KeyUnused(r)
  <2>1. \A o, p \in orders' : KeyOf[o] = KeyOf[p] => o = p
    BY DEF IInv, KeyInv
  <2> QED
    BY <1>1, <2>1 DEF AtOnce!KeyUnused
<1>3. AtOnce!LinesFree(r)
  <2>1. \A o, p \in orders' : LinesOf(o) \cap LinesOf(p) # {} => o = p
    BY DEF IInv, LineInv, LineOrderedOnce, LinesOf
  <2>2. orders \subseteq Requests
    BY DEF IInv, Frame
  <2> QED
    BY <1>1, <2>1, <2>2 DEF AtOnce!LinesFree, Taken
<1>4. AtOnce!UnitsThere(r)
  <2>1. r \notin Live /\ Live' = Live \union {r} /\ Live \subseteq Requests
    BY <1>1 DEF StockInv, Live, IInv, Frame
  <2>2. ASSUME NEW v \in Variants
        PROVE  SumFunctionOnSet(UnitsOf(v), Live) + UnitsOf(v)[r] <= OnHand
    <3>1. \A o \in Live \union {r} : UnitsOf(v)[o] \in Int
      BY <2>1, UnitsType
    <3>2. IsFiniteSet(Live)
      BY DEF StockInv
    <3>3. SumFunctionOnSet(UnitsOf(v), Live \union {r}) =
            SumFunctionOnSet(UnitsOf(v), Live) + UnitsOf(v)[r]
      BY <2>1, <3>1, <3>2, SumAddElement
    <3>4. reserved'[v] = SumFunctionOnSet(UnitsOf(v), Live') /\ reserved'[v] <= OnHand
      BY DEF StockInv, ReservationsAddUp, Live, UnitsOf, Asked, LinesOf
    <3> QED
      BY <2>1, <3>3, <3>4
  <2>3. \A v \in Variants : Units[v] = UnitsOf(v)
    BY DEF Units
  <2>4. \A v \in Variants : SumFunctionOnSet(Units[v], Live) + Units[v][r] <= OnHand
    BY <2>2, <2>3
  <2> QED
    BY <2>4, SameCounting, Zenon DEF AtOnce!UnitsThere, Live
<1>5. seen[r].redeem = Discounted[r]
  BY DEF Commit, IInv, LockInv, Acceptable
<1>6. Discounted[r] => AtOnce!UseLeft(r)
  <2>1. Discounted[r] => MayRedeem(BuyerOf[r])
    BY <1>5 DEF Commit, IInv, UseInv
  <2> QED
    BY <2>1, SameCounting, Zenon DEF MayRedeem, RedeemedBy, AtOnce!UseLeft
<1>7. redeemed' = IF Discounted[r] THEN redeemed \union {r} ELSE redeemed
  BY <1>5 DEF Commit
<1> QED
  BY <1>1, <1>2, <1>3, <1>4, <1>6, <1>7 DEF AtOnce!Place

\* A confirmation answers a request with its own order, a replay with the order
\* that holds its key.
LEMMA AnswersOnce ==
  ASSUME IInv, AnsweredLast, NEW r \in Requests, Confirm(r) \/ Replay(r)
  PROVE  AtOnce!Answer(r) \/ UNCHANGED AtOnce!vars
<1>1. UNCHANGED <<orders, cancelled, redeemed>>
  BY DEF Confirm, Replay, tables
<1>2. answer[r] = None
  BY DEF Confirm, Replay, AnsweredLast
<1>3. CASE Confirm(r)
  <2>1. r \in orders /\ answer' = [answer EXCEPT ![r] = r]
    BY <1>3 DEF Confirm, IInv, KeyInv
  <2> QED
    BY <1>1, <1>2, <2>1 DEF AtOnce!Answer
<1>4. CASE Replay(r)
  <2> DEFINE p == keyRow[KeyOf[r]]
  <2>1. p \in orders /\ KeyOf[p] = KeyOf[r]
    <3>1. KeyOf[r] \in Keys /\ pc[r] = "replay"
      BY <1>4, RequestsAssumption DEF Replay
    <3>2. p \in orders /\ orders \subseteq Requests
      BY <3>1 DEF IInv, KeyInv, Frame
    <3>3. p # None
      BY <3>2, RequestsAssumption
    <3> QED
      BY <3>1, <3>2, <3>3 DEF IInv, KeyInv
  <2>2. CASE SameRequest(r, p)
    <3>1. answer' = [answer EXCEPT ![r] = p]
      BY <1>4, <2>2 DEF Replay
    <3>2. BuyerOf[p] = BuyerOf[r] /\ Confirmed[p] = Confirmed[r] /\ Discounted[p] = Discounted[r]
      BY <2>2 DEF SameRequest
    <3> HIDE DEF p
    <3> QED
      BY <1>1, <1>2, <2>1, <3>1, <3>2 DEF AtOnce!Answer
  <2>3. CASE ~SameRequest(r, p)
    <3>1. answer' = answer
      BY <1>4, <2>3 DEF Replay
    <3> QED
      BY <1>1, <3>1 DEF AtOnce!vars
  <2> QED
    BY <2>2, <2>3
<1> QED
  BY <1>3, <1>4

\* Every step is a step of the promise, or none.
LEMMA PlacementSteps ==
  ASSUME IInv, IInv', StockInv, StockInv', AnsweredLast, [Next]_vars
  PROVE  [AtOnce!Next]_AtOnce!vars
<1>1. ASSUME NEW r \in Requests, Handle(r) \/ Abort(r) \/ Dies(r),
             ~Commit(r), ~Confirm(r), ~Replay(r)
      PROVE  UNCHANGED AtOnce!vars
  BY <1>1
  DEF Handle, Claim, LookUp, LockVariant, HaveLocked, ReadBasket, LockVoucher, Decide, Refuse,
      Abort, RollBack, Dies, tables, AtOnce!vars
<1>2. ASSUME NEW r \in Requests, CancelOrder(r)
      PROVE  AtOnce!Cancel(r)
  BY <1>2 DEF CancelOrder, AtOnce!Cancel
<1>3. ASSUME NEW l \in Lines, EditLine(l)
      PROVE  UNCHANGED AtOnce!vars
  BY <1>3 DEF EditLine, AtOnce!vars
<1>4. ASSUME NEW b \in Buyers, AttachVoucher(b)
      PROVE  UNCHANGED AtOnce!vars
  BY <1>4 DEF AttachVoucher, AtOnce!vars
<1>5. UNCHANGED vars => UNCHANGED AtOnce!vars
  BY DEF vars, tables, AtOnce!vars
<1> QED
  BY <1>1, <1>2, <1>3, <1>4, <1>5, CommitPlaces, AnswersOnce DEF Next, AtOnce!Next

\* Placing an order statement by statement implements placing it at once.
THEOREM AtomicityTheorem == Spec => PlacedAtOnce
<1>1. Init => AtOnce!Init
  BY DEF Init, AtOnce!Init
<1>2. /\ IInv /\ IInv' /\ StockInv /\ StockInv' /\ AnsweredLast /\ [Next]_vars
      => [AtOnce!Next]_AtOnce!vars
  BY PlacementSteps
<1> QED
  BY <1>1, <1>2, Invariant, StockInvariant, AnsweredInvariant, PTL
  DEF Spec, PlacedAtOnce, AtOnce!Spec
=============================================================================
