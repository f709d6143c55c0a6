-------------------------- MODULE BackOfficeProofs --------------------------
(***************************************************************************)
(* What holds in the back office for any requests, variants, images,       *)
(* pictures, times and sums.  A step is one request's, and what it says of *)
(* that request names a part of the back office: the lemmas of the first   *)
(* section say so once, and each invariant then looks only at the steps of *)
(* its own part.                                                           *)
(***************************************************************************)
EXTENDS BackOffice, SumTheorems, TLAPS

\* The request table: one record for each request, of values of any kind.
TableOf(A) == [Requests -> [pc : A, kind : A, on : A, arg : A, saw : A]]
ReqOK == \E A : req \in TableOf(A)

\* A step of request r leaves the others alone, and r is of one of these kinds.
Touches(r, kinds) ==
  /\ ReqOK'
  /\ \A q \in Requests \ {r} : req'[q] = req[q]
  /\ req'[r].kind \in kinds

\* Initially no request was sent.
LEMMA NoneSent ==
  ASSUME DeskInit
  PROVE  ReqOK /\ \A r \in Requests : req[r].pc = "new" /\ req[r].kind = None
<1>1. req \in TableOf({"new", None})
  BY DEF DeskInit, TableOf, New
<1> QED
  BY <1>1 DEF DeskInit, ReqOK, New

\* What Begin does to the request table.
LEMMA BeginStep ==
  ASSUME ReqOK, NEW r \in Requests, NEW kind, NEW on, NEW arg, NEW saw,
         Begin(r, kind, on, arg, saw)
  PROVE  /\ Touches(r, {kind})
         /\ req'[r].pc = "checked" /\ req'[r].kind = kind
         /\ req'[r].on = on /\ req'[r].arg = arg /\ req'[r].saw = saw
<1>1. PICK A : req \in TableOf(A)
  BY DEF ReqOK
<1>2. req' \in TableOf(A \union {"checked", kind, on, arg, saw})
  BY <1>1 DEF Begin, TableOf
<1> QED
  BY <1>1, <1>2 DEF ReqOK, Begin, Touches, TableOf

\* What Goes does to it.
LEMMA GoesStep ==
  ASSUME ReqOK, NEW r \in Requests, NEW pc, NEW saw, Goes(r, pc, saw)
  PROVE  /\ Touches(r, {req[r].kind})
         /\ req'[r].pc = pc /\ req'[r].saw = saw
         /\ req'[r].kind = req[r].kind /\ req'[r].on = req[r].on /\ req'[r].arg = req[r].arg
<1>1. PICK A : req \in TableOf(A)
  BY DEF ReqOK
<1>2. req' \in TableOf(A \union {pc, saw})
  BY <1>1 DEF Goes, TableOf
<1>3. /\ req'[r].pc = pc /\ req'[r].saw = saw
      /\ req'[r].kind = req[r].kind /\ req'[r].on = req[r].on /\ req'[r].arg = req[r].arg
      /\ \A q \in Requests \ {r} : req'[q] = req[q]
  BY <1>1 DEF Goes, TableOf
<1> QED
  BY <1>2, <1>3 DEF ReqOK, Touches

\* A request that ends, or whose process dies, keeps its kind.
LEMMA EndsStep ==
  ASSUME ReqOK, NEW r \in Requests, Ends(r)
  PROVE  Touches(r, {req[r].kind}) /\ req'[r].pc = "done"
<1>1. Goes(r, "done", None)
  BY DEF Ends
<1> QED
  BY <1>1, GoesStep

-----------------------------------------------------------------------------
(* Whose request a step belongs to.                                        *)

\* Work on the status, the variants or the requirements leaves the gallery.
LEMMA ShelfWork ==
  ASSUME ReqOK, NEW r \in Requests, StatusWork(r) \/ VariantWork(r) \/ RequirementWork(r)
  PROVE  Touches(r, {"status", "variant", "requires"}) /\ UNCHANGED <<image, files>>
<1>1. CASE StatusWork(r)
  <2>1. CASE \E to \in ProductStatus : CheckStatus(r, to)
    BY <2>1, BeginStep DEF CheckStatus, Touches, productVars
  <2>2. CASE ReadStamp(r) \/ WriteStatus(r)
    BY <2>2, GoesStep, EndsStep DEF ReadStamp, WriteStatus, At, Touches, productVars
  <2> QED
    BY <1>1, <2>1, <2>2 DEF StatusWork
<1>2. CASE VariantWork(r)
  <2>1. ASSUME NEW v \in Variants, NEW p, NEW w, CheckNewVariant(r, v, p, w)
        PROVE  Touches(r, {"variant"}) /\ UNCHANGED <<image, files>>
    BY <2>1, BeginStep DEF CheckNewVariant, Touches, productVars
  <2>2. ASSUME NEW v \in Variants, NEW change, CheckEdit(r, v, change)
        PROVE  Touches(r, {"variant"}) /\ UNCHANGED <<image, files>>
    BY <2>2, BeginStep DEF CheckEdit, Touches, productVars
  <2>3. CASE WriteVariant(r) \/ CommitVariant(r)
    BY <2>3, GoesStep, EndsStep DEF WriteVariant, CommitVariant, At, Touches, productVars
  <2> QED
    BY <1>2, <2>1, <2>2, <2>3 DEF VariantWork, Touches
<1>3. CASE RequirementWork(r)
  <2>1. CASE \E list \in SUBSET Tools : CheckRequirements(r, list)
    BY <2>1, BeginStep DEF CheckRequirements, Touches, productVars
  <2>2. CASE DeleteRequirements(r) \/ InsertRequirements(r)
    BY <2>2, GoesStep, EndsStep
    DEF DeleteRequirements, InsertRequirements, At, Touches, productVars
  <2> QED
    BY <1>3, <2>1, <2>2 DEF RequirementWork
<1> QED
  BY <1>1, <1>2, <1>3

\* Work on the gallery.
LEMMA PictureWork ==
  ASSUME ReqOK, NEW r \in Requests, GalleryWork(r)
  PROVE  Touches(r, {"upload", "reorder", "primary", "delete"})
<1>1. CASE \E i \in Images : CheckUpload(r, i)
  BY <1>1, BeginStep DEF CheckUpload, Touches
<1>2. CASE \E order \in [Gallery -> 0..Cardinality(Images)] : CheckReorder(r, order)
  BY <1>2, BeginStep DEF CheckReorder, Touches
<1>3. CASE \E i \in Images, kind \in {"primary", "delete"} : CheckImage(r, kind, i)
  BY <1>3, BeginStep DEF CheckImage, Touches
<1>4. CASE StoreFile(r) \/ CountImages(r) \/ CreateImage(r)
  BY <1>4, GoesStep, EndsStep DEF StoreFile, CountImages, CreateImage, At, Touches
<1>5. CASE ReorderImages(r) \/ SetPrimaryImage(r) \/ RemoveFile(r)
  BY <1>5, EndsStep DEF ReorderImages, SetPrimaryImage, RemoveFile, At, Touches
<1>6. CASE DeleteImage(r)
  BY <1>6, GoesStep, EndsStep DEF DeleteImage, At, Touches
<1> QED
  BY <1>1, <1>2, <1>3, <1>4, <1>5, <1>6 DEF GalleryWork

\* Work on the category tree.
LEMMA CategoryWork ==
  ASSUME ReqOK, NEW r \in Requests, TreeWork(r)
  PROVE  Touches(r, {"create", "move", "remove"})
<1>1. ASSUME NEW c, NEW type, NEW p, CheckCreate(r, c, type, p)
      PROVE  Touches(r, {"create"})
  BY <1>1, BeginStep DEF CheckCreate
<1>2. ASSUME NEW c, NEW p, CheckMove(r, c, p)
      PROVE  Touches(r, {"move"})
  BY <1>2, BeginStep DEF CheckMove
<1>3. ASSUME NEW c, CheckDelete(r, c)
      PROVE  Touches(r, {"remove"})
  BY <1>3, BeginStep DEF CheckDelete
<1>4. CASE CreateCategory(r) \/ UpdateCategory(r) \/ DeleteCategory(r)
  BY <1>4, EndsStep DEF CreateCategory, UpdateCategory, DeleteCategory, At, Touches
<1> QED
  BY <1>1, <1>2, <1>3, <1>4 DEF TreeWork, Touches

\* Work on the banner.
LEMMA WindowWork ==
  ASSUME ReqOK, NEW r \in Requests, BannerWork(r)
  PROVE  Touches(r, {"newbanner", "banner", "unbanner"})
<1>1. ASSUME NEW w, NEW p, CheckNewBanner(r, w, p)
      PROVE  Touches(r, {"newbanner"})
  BY <1>1, BeginStep DEF CheckNewBanner
<1>2. ASSUME NEW change, CheckBanner(r, change)
      PROVE  Touches(r, {"banner"})
  BY <1>2, BeginStep DEF CheckBanner
<1>3. CASE CheckRemoveBanner(r)
  BY <1>3, BeginStep DEF CheckRemoveBanner, Touches
<1>4. CASE CreateBanner(r) \/ RemovePicture(r)
  BY <1>4, EndsStep DEF CreateBanner, RemovePicture, At, Touches
<1>5. CASE UpdateBanner(r) \/ RemoveBanner(r)
  BY <1>5, GoesStep, EndsStep DEF UpdateBanner, RemoveBanner, At, Touches
<1> QED
  BY <1>1, <1>2, <1>3, <1>4, <1>5 DEF BannerWork, Touches

\* Work on the voucher.
LEMMA CampaignWork ==
  ASSUME ReqOK, NEW r \in Requests, VoucherWork(r)
  PROVE  Touches(r, {"newvoucher", "voucher", "unvoucher"})
<1>1. ASSUME NEW v, CheckNewVoucher(r, v)
      PROVE  Touches(r, {"newvoucher"})
  BY <1>1, BeginStep DEF CheckNewVoucher
<1>2. ASSUME NEW change, CheckVoucher(r, change)
      PROVE  Touches(r, {"voucher"})
  BY <1>2, BeginStep DEF CheckVoucher
<1>3. CASE CheckRemoveVoucher(r)
  BY <1>3, BeginStep DEF CheckRemoveVoucher, Touches
<1>4. CASE CreateVoucher(r) \/ UpdateVoucher(r) \/ RemoveVoucher(r)
  BY <1>4, EndsStep DEF CreateVoucher, UpdateVoucher, RemoveVoucher, At, Touches
<1> QED
  BY <1>1, <1>2, <1>3, <1>4 DEF VoucherWork, Touches

-----------------------------------------------------------------------------
(* The voucher.                                                            *)

\* The voucher stored, and any that is about to be, has its shape.
Stored(v) == v \in VoucherShape /\ WellShaped(v)
Writes(r) == req[r].kind \in {"newvoucher", "voucher"} /\ req[r].pc = "checked"
VoucherInv ==
  /\ ReqOK
  /\ voucher # None => Stored(voucher)
  /\ \A r \in Requests : Writes(r) => Stored(req[r].arg)

\* An edit completed from the stored columns has a column's value in each.
LEMMA MergedShape ==
  ASSUME NEW v \in VoucherShape, NEW change \in VoucherChanges
  PROVE  Merged(v, change) \in VoucherShape
BY DEF VoucherShape, VoucherChanges, Merged

\* The least of a set is at most any of its members, if it has a least one.
LEMMA MinIsLeast ==
  ASSUME NEW S, NEW m \in S, \A x \in S : m <= x
  PROVE  Min(S) \in S /\ \A x \in S : Min(S) <= x
BY DEF Min

\* A set of two sums and what the columns cap has a least one.
LEMMA LeastCapped ==
  ASSUME NEW a \in Nat, NEW b \in Nat, NEW c \in Nat \union {None}, NEW d \in Nat \union {None},
         NEW S, S = {a, b} \union Caps({c, d})
  PROVE  Min(S) \in Nat /\ \A x \in S : Min(S) <= x
<1>1. \E m \in S : \A x \in S : m <= x
  <2> DEFINE e == IF a <= b THEN a ELSE b
             f == IF c # None /\ c < e THEN c ELSE e
             g == IF d # None /\ d < f THEN d ELSE f
  <2>1. e \in S /\ e \in Nat /\ e <= a /\ e <= b
    OBVIOUS
  <2>2. f \in S /\ f \in Nat /\ f <= e /\ (c # None => f <= c)
    BY <2>1 DEF Caps
  <2>3. g \in S /\ g \in Nat /\ g <= f /\ (d # None => g <= d)
    BY <2>2 DEF Caps
  <2> HIDE DEF e, f, g
  <2>4. \A x \in S : g <= x
    BY <2>1, <2>2, <2>3 DEF Caps
  <2> QED
    BY <2>3, <2>4
<1>2. S \subseteq Nat
  BY DEF Caps
<1> QED
  BY <1>1, <1>2, MinIsLeast

\* A part in a hundred, rounded down, is no more than that part.
LEMMA RoundedDown ==
  ASSUME NEW n \in Nat
  PROVE  n \div 100 \in Nat /\ 100 * (n \div 100) <= n
OBVIOUS

\* What a well shaped voucher takes off is within its columns and within what
\* it discounts.
LEMMA DiscountWithin ==
  ASSUME NEW v \in VoucherShape, WellShaped(v), IsWellFormed(v),
         NEW eligible \in Nat, NEW shipping \in Nat
  PROVE  LET d == DiscountFor(v, eligible, shipping) IN
         /\ d \in 0..(IF v.type = "FREE_SHIPPING" THEN shipping ELSE eligible)
         /\ \A c \in Caps({v.amountIdr, v.maxDiscountIdr}) : d <= c
         /\ v.percentOff # None => 100 * d <= v.percentOff * eligible
<1> DEFINE d == DiscountFor(v, eligible, shipping)
<1>1. /\ v.amountIdr \in Nat \union {None}
      /\ v.maxDiscountIdr \in Nat \union {None}
      /\ v.percentOff \in Nat \union {None}
      /\ v.type \in {"PERCENTAGE", "FIXED_AMOUNT", "FREE_SHIPPING"}
  <2>1. Percents \subseteq Nat /\ Amounts \subseteq Nat
    BY VoucherColumns
  <2> HIDE DEF d
  <2> QED
    BY <2>1 DEF VoucherShape, Percentage, Rupiah
<1>2. CASE v.type = "PERCENTAGE"
  <2> DEFINE n == eligible * v.percentOff
             part == n \div 100
             S == {part, eligible} \union Caps({v.maxDiscountIdr, v.maxDiscountIdr})
  <2>1. v.percentOff \in Nat /\ v.percentOff # None /\ v.amountIdr = None
    BY <1>1, <1>2 DEF WellShaped
  <2>2. n \in Nat /\ n = v.percentOff * eligible
    BY <2>1
  <2>3. d = Min(S)
    <3>1. Caps({v.maxDiscountIdr, v.maxDiscountIdr}) = Caps({v.maxDiscountIdr})
      BY DEF Caps
    <3> QED
      BY <3>1, <1>2 DEF DiscountFor
  <2> HIDE DEF d, n
  <2>4. part \in Nat /\ 100 * part <= n
    BY <2>2, RoundedDown
  <2> HIDE DEF part
  <2>5. d \in Nat /\ \A x \in S : d <= x
    <3>1. v.maxDiscountIdr \in Nat \union {None} /\ part \in Nat
      BY <1>1, <2>4
    <3>2. Min(S) \in Nat /\ \A x \in S : Min(S) <= x
      BY <3>1, LeastCapped
    <3> QED
      BY <2>3, <3>2
  <2>6. d <= part /\ d <= eligible /\ \A c \in Caps({v.maxDiscountIdr}) : d <= c
    BY <2>5 DEF Caps
  <2> HIDE DEF S
  <2>7. 100 * d <= v.percentOff * eligible
    BY <2>2, <2>4, <2>5, <2>6
  <2>8. Caps({v.amountIdr, v.maxDiscountIdr}) = Caps({v.maxDiscountIdr})
    BY <2>1 DEF Caps
  <2> QED
    BY <1>2, <2>5, <2>6, <2>7, <2>8 DEF d
<1>3. CASE v.type = "FIXED_AMOUNT"
  <2> DEFINE S == {v.amountIdr, eligible} \union Caps({None, None})
  <2>1. v.amountIdr \in Nat /\ v.percentOff = None
    BY <1>1, <1>3 DEF WellShaped
  <2>2. d = Min(S)
    <3>1. S = {v.amountIdr, eligible}
      BY DEF Caps
    <3> QED
      BY <3>1, <1>3 DEF DiscountFor
  <2>3. Min(S) \in Nat /\ \A x \in S : Min(S) <= x
    BY <2>1, LeastCapped
  <2>4. d \in Nat /\ d <= v.amountIdr /\ d <= eligible
    BY <2>2, <2>3
  <2> HIDE DEF d, S
  <2>5. v.maxDiscountIdr # None => v.amountIdr <= v.maxDiscountIdr /\ v.maxDiscountIdr \in Nat
    BY <1>1, <1>3 DEF WellShaped
  <2>6. \A c \in Caps({v.amountIdr, v.maxDiscountIdr}) : d <= c
    BY <2>1, <2>4, <2>5 DEF Caps
  <2> QED
    BY <1>3, <2>1, <2>4, <2>6 DEF d
<1>4. CASE v.type = "FREE_SHIPPING"
  <2> DEFINE S == {shipping, shipping} \union Caps({v.amountIdr, v.maxDiscountIdr})
  <2>1. d = Min(S)
    <3>1. S = {shipping} \union Caps({v.amountIdr, v.maxDiscountIdr})
      OBVIOUS
    <3> QED
      BY <3>1, <1>4 DEF DiscountFor
  <2>2. Min(S) \in Nat /\ \A x \in S : Min(S) <= x
    BY <1>1, LeastCapped
  <2>3. d \in Nat /\ d <= shipping /\ \A c \in Caps({v.amountIdr, v.maxDiscountIdr}) : d <= c
    BY <2>1, <2>2
  <2>4. v.percentOff = None
    BY <1>4 DEF WellShaped
  <2> QED
    BY <1>4, <2>3, <2>4
<1> QED
  BY <1>1, <1>2, <1>3, <1>4

\* So is what an order is charged less, on any day.
LEMMA WordKept ==
  ASSUME voucher # None => Stored(voucher)
  PROVE  VoucherKeepsItsWord
<1> SUFFICES ASSUME voucher # None, voucher \in VoucherShape, WellShaped(voucher)
             PROVE  VoucherKeepsItsWord
  BY DEF VoucherKeepsItsWord, Stored
<1> DEFINE v == voucher
<1>1. /\ v.amountIdr \in Nat \union {None} /\ v.maxDiscountIdr \in Nat \union {None}
      /\ v.percentOff \in Percents \union {None}
      /\ v.startsAt \in Days /\ v.startsAt \in Nat /\ v.endsAt \in Nat
  <2>1. Amounts \subseteq Nat /\ Days \subseteq Nat
    BY VoucherColumns
  <2> QED
    BY <2>1 DEF VoucherShape, Percentage, Rupiah
<1>2. v.amountIdr # 0 => \E now \in Days : Applies(v, now)
  <2>1. v.percentOff # None => v.percentOff \in 1..100
    BY <1>1, VoucherColumns
  <2>2. v.amountIdr # 0 => IsWellFormed(v)
    BY <1>1, <2>1 DEF IsWellFormed, WellShaped
  <2>3. v.startsAt <= v.startsAt /\ v.startsAt < v.endsAt
    BY <1>1 DEF WellShaped
  <2> QED
    BY <1>1, <2>2, <2>3 DEF Applies
<1>3. ASSUME NEW now \in Days, NEW subtotal \in Sums, NEW shipping \in Sums,
             NEW eligible \in {e \in Sums : e <= subtotal}
      PROVE  LET p == PriceOrder(v, subtotal, eligible, shipping, now)
                 discounted == IF v.type = "FREE_SHIPPING" THEN shipping ELSE eligible
             IN  /\ p.discount \in 0..discounted
                 /\ \A c \in Caps({v.amountIdr, v.maxDiscountIdr}) : p.discount <= c
                 /\ v.percentOff # None => 100 * p.discount <= v.percentOff * eligible
  <2> DEFINE discounted == IF v.type = "FREE_SHIPPING" THEN shipping ELSE eligible
             discount == IF Applies(v, now) THEN DiscountFor(v, eligible, shipping) ELSE 0
             taken == Min({discount, subtotal + shipping})
  <2>1. subtotal \in Nat /\ shipping \in Nat /\ eligible \in Nat /\ eligible <= subtotal
    BY VoucherColumns
  <2>2. /\ discount \in 0..discounted
        /\ \A c \in Caps({v.amountIdr, v.maxDiscountIdr}) : discount <= c
        /\ v.percentOff # None => 100 * discount <= v.percentOff * eligible
    <3>1. CASE Applies(v, now)
      BY <2>1, <3>1, DiscountWithin DEF Applies
    <3>2. CASE ~Applies(v, now)
      <4>1. \A c \in Caps({v.amountIdr, v.maxDiscountIdr}) : 0 <= c
        BY <1>1 DEF Caps
      <4>2. v.percentOff # None => 0 <= v.percentOff * eligible
        <5>1. Percents \subseteq Nat
          BY VoucherColumns
        <5>2. ASSUME NEW m \in Nat PROVE 0 <= m * eligible
          BY <2>1
        <5> QED
          BY <1>1, <5>1, <5>2
      <4>3. discount = 0 /\ 100 * discount = 0 /\ 0 \in 0..discounted
        BY <2>1, <3>2
      <4> HIDE DEF discount, discounted
      <4> QED
        BY <4>1, <4>2, <4>3
    <3> QED
      BY <3>1, <3>2
  <2> HIDE DEF discount
  <2>3. taken = discount
    <3>1. discount \in Nat /\ discount <= subtotal + shipping
      BY <2>1, <2>2
    <3>2. taken \in {discount, subtotal + shipping} /\ \A x \in {discount, subtotal + shipping} : taken <= x
      BY <2>1, <3>1, MinIsLeast
    <3> QED
      BY <2>1, <3>1, <3>2
  <2>4. PriceOrder(v, subtotal, eligible, shipping, now).discount = discount
    BY <2>3 DEF PriceOrder, discount
  <2> QED
    BY <2>2, <2>4
<1> QED
  BY <1>2, <1>3 DEF VoucherKeepsItsWord

\* Work elsewhere leaves the voucher, and every request about it, as they were.
LEMMA VoucherUntouched ==
  ASSUME VoucherInv, NEW r \in Requests, NEW kinds, Touches(r, kinds),
         kinds \intersect {"newvoucher", "voucher"} = {}, UNCHANGED voucher
  PROVE  VoucherInv'
BY DEF VoucherInv, Touches, Writes

\* A request about the voucher that ends is no longer about to write.
LEMMA VoucherEnds ==
  ASSUME VoucherInv, NEW r \in Requests, Ends(r), voucher' # None => Stored(voucher')
  PROVE  VoucherInv'
<1>1. Touches(r, {req[r].kind}) /\ req'[r].pc = "done"
  BY EndsStep DEF VoucherInv
<1> QED
  BY <1>1 DEF VoucherInv, Touches, Writes, Stored

\* Every step of a request about the voucher keeps the shapes.
LEMMA VoucherSteps ==
  ASSUME VoucherInv, NEW r \in Requests, VoucherWork(r)
  PROVE  VoucherInv'
<1>0. ReqOK
  BY DEF VoucherInv
<1> USE DEF VoucherInv
<1>1. ASSUME NEW v \in NewVouchers, CheckNewVoucher(r, v)
      PROVE  VoucherInv'
  <2>1. Stored(v)
    BY <1>1, NewVouchersAssumption DEF CheckNewVoucher, Stored
  <2>2. Touches(r, {"newvoucher"}) /\ req'[r].arg = v
    <3>1. Begin(r, "newvoucher", "voucher", v, None)
      BY <1>1 DEF CheckNewVoucher
    <3> QED
      BY <1>0, <3>1, BeginStep
  <2> QED
    BY <1>1, <2>1, <2>2 DEF CheckNewVoucher, Touches, Writes, voucherVars, Stored
<1>2. ASSUME NEW change \in VoucherChanges, CheckVoucher(r, change)
      PROVE  VoucherInv'
  <2>1. Stored(Merged(voucher, change))
    BY <1>2, MergedShape DEF CheckVoucher, Stored
  <2>2. Touches(r, {"voucher"}) /\ req'[r].arg = Merged(voucher, change)
    <3>1. Begin(r, "voucher", "voucher", Merged(voucher, change), change)
      BY <1>2 DEF CheckVoucher
    <3> QED
      BY <1>0, <3>1, BeginStep
  <2> QED
    BY <1>2, <2>1, <2>2 DEF CheckVoucher, Touches, Writes, voucherVars, Stored
<1>3. CASE CheckRemoveVoucher(r)
  <2>1. Touches(r, {"unvoucher"})
    BY <1>3, BeginStep DEF CheckRemoveVoucher
  <2> QED
    BY <1>3, <2>1, VoucherUntouched DEF CheckRemoveVoucher, voucherVars
<1>4. CASE CreateVoucher(r) \/ UpdateVoucher(r)
  <2>1. Ends(r) /\ (voucher' # None => Stored(voucher'))
    BY <1>4 DEF CreateVoucher, UpdateVoucher, At, Writes
  <2> QED
    BY <2>1, VoucherEnds
<1>5. CASE RemoveVoucher(r)
  BY <1>5, VoucherEnds DEF RemoveVoucher
<1> QED
  BY <1>1, <1>2, <1>3, <1>4, <1>5 DEF VoucherWork

\* The requests that are about anything else, and who writes what.
LEMMA Elsewhere ==
  ASSUME ReqOK, [Next]_vars
  PROVE  \/ UNCHANGED <<req, image, files, banner, voucher>> /\ UNCHANGED bannerVars
         \/ UNCHANGED <<req, image, files, voucher>> /\ \E p \in Pictures : UploadBanner(p)
         \/ \E r \in Requests :
              \/ /\ Touches(r, {"status", "variant", "requires", "create", "move", "remove"})
                 /\ UNCHANGED <<image, files, voucher>> /\ UNCHANGED bannerVars
              \/ GalleryWork(r) /\ UNCHANGED voucher /\ UNCHANGED bannerVars
              \/ BannerWork(r) /\ UNCHANGED <<image, files, voucher>>
              \/ VoucherWork(r) /\ UNCHANGED <<image, files>> /\ UNCHANGED bannerVars
              \/ Crash(r) /\ UNCHANGED <<image, files, voucher>> /\ UNCHANGED bannerVars
<1> USE DEF productVars, voucherVars, OnlyProduct, OnlyTree, OnlyBanner, OnlyVoucher
<1>1. CASE UNCHANGED vars
  BY <1>1 DEF vars, deskVars, bannerVars
<1>2. ASSUME NEW r \in Requests, OnlyProduct, StatusWork(r) \/ VariantWork(r) \/ RequirementWork(r)
      PROVE  /\ Touches(r, {"status", "variant", "requires", "create", "move", "remove"})
             /\ UNCHANGED <<image, files, voucher>> /\ UNCHANGED bannerVars
  <2>1. Touches(r, {"status", "variant", "requires"}) /\ UNCHANGED <<image, files>>
    BY <1>2, ShelfWork
  <2> QED
    BY <1>2, <2>1 DEF Touches
<1>3. ASSUME NEW r \in Requests, OnlyTree, TreeWork(r)
      PROVE  /\ Touches(r, {"status", "variant", "requires", "create", "move", "remove"})
             /\ UNCHANGED <<image, files, voucher>> /\ UNCHANGED bannerVars
  <2>1. Touches(r, {"create", "move", "remove"})
    BY <1>3, CategoryWork
  <2> QED
    BY <1>3, <2>1 DEF Touches
<1>4. ASSUME NEW p \in Pictures, UploadBanner(p), OnlyBanner
      PROVE  UNCHANGED <<req, image, files, voucher>>
  BY <1>4 DEF UploadBanner, deskVars
<1>5. CASE Redeem /\ OnlyVoucher
  BY <1>5 DEF Redeem, deskVars, bannerVars
<1> QED
  BY <1>1, <1>2, <1>3, <1>4, <1>5 DEF Next

\* VoucherDesk: what is stored, and what is about to be, keeps its shape
\* through every step.
LEMMA VoucherInvariant == Spec => []VoucherInv
<1>1. Init => VoucherInv
  <2> SUFFICES ASSUME Init PROVE VoucherInv
    OBVIOUS
  <2>1. voucher # None => Stored(voucher)
    BY NewVouchersAssumption DEF Init, NoVoucher, VoucherInit, Stored
  <2> QED
    BY <2>1, NoneSent DEF Init, VoucherInv, Writes
<1>2. VoucherInv /\ [Next]_vars => VoucherInv'
  <2> SUFFICES ASSUME VoucherInv, [Next]_vars PROVE VoucherInv'
    OBVIOUS
  <2>1. CASE UNCHANGED <<req, voucher>>
    BY <2>1 DEF VoucherInv, ReqOK, Writes, Stored
  <2>2. ASSUME NEW r \in Requests, UNCHANGED voucher,
               Touches(r, {"status", "variant", "requires", "create", "move", "remove"})
        PROVE  VoucherInv'
    BY <2>2, VoucherUntouched
  <2>3. ASSUME NEW r \in Requests, GalleryWork(r), UNCHANGED voucher
        PROVE  VoucherInv'
    BY <2>3, PictureWork, VoucherUntouched DEF VoucherInv
  <2>4. ASSUME NEW r \in Requests, BannerWork(r), UNCHANGED voucher
        PROVE  VoucherInv'
    BY <2>4, WindowWork, VoucherUntouched DEF VoucherInv
  <2>5. ASSUME NEW r \in Requests, Crash(r), UNCHANGED voucher
        PROVE  VoucherInv'
    BY <2>5, VoucherEnds DEF Crash, VoucherInv, Stored
  <2> QED
    BY <2>1, <2>2, <2>3, <2>4, <2>5, VoucherSteps, Elsewhere DEF VoucherInv
<1> QED
  BY <1>1, <1>2, PTL DEF Spec

\* Whatever operators save at once, a stored voucher applies on some day and
\* takes off no more than its columns allow, nor more than what it discounts.
THEOREM VoucherWord == Spec => []VoucherKeepsItsWord
<1>1. VoucherInv => VoucherKeepsItsWord
  BY WordKept DEF VoucherInv
<1> QED
  BY <1>1, VoucherInvariant, PTL

-----------------------------------------------------------------------------
(* The gallery.                                                            *)

\* An upload that may still make a row, and a deletion whose row is gone and
\* whose file is not.
Uploading(r) == req[r].kind = "upload" /\ req[r].pc \in {"checked", "stored", "counted"}
Removing(r) == req[r].kind = "delete" /\ req[r].pc = "deleted"

ImageOK == \E A : image \in [Images -> [row : BOOLEAN, pos : A, primary : BOOLEAN]]

\* No two requests are about to make or to remove one image; a row has its
\* file, and so has an upload that is past storing it.
GalleryInv ==
  /\ ReqOK
  /\ ImageOK
  /\ Gallery \subseteq files
  /\ \A r \in Requests : Uploading(r) =>
       /\ req[r].arg \in Images \ Gallery
       /\ req[r].on = "gallery"
       /\ req[r].pc \in {"stored", "counted"} => req[r].arg \in files
       /\ \A q \in Requests \ {r} : Uploading(q) => req[q].arg # req[r].arg
  /\ \A r \in Requests : Removing(r) =>
       /\ req[r].arg \in files \ Gallery
       /\ \A q \in Requests \ {r} : Uploading(q) \/ Removing(q) => req[q].arg # req[r].arg

\* A request that neither uploads nor removes after the step changes nothing
\* of this, if rows and files stay.
LEMMA GalleryUntouched ==
  ASSUME GalleryInv, NEW r \in Requests, NEW kinds, Touches(r, kinds),
         ~Uploading(r)', ~Removing(r)', ImageOK', Gallery' = Gallery, files' = files
  PROVE  GalleryInv'
<1>1. \A q \in Requests : Uploading(q)' => q # r /\ Uploading(q)
  BY DEF Touches, Uploading
<1>2. \A q \in Requests : Removing(q)' => q # r /\ Removing(q)
  BY DEF Touches, Removing
<1> QED
  BY <1>1, <1>2 DEF GalleryInv, Touches

\* Which rows there are after a step that only rearranges them.
LEMMA Rearranged ==
  ASSUME ImageOK, NEW r \in Requests, ReorderImages(r) \/ SetPrimaryImage(r)
  PROVE  ImageOK' /\ Gallery' = Gallery
<1>1. PICK A : image \in [Images -> [row : BOOLEAN, pos : A, primary : BOOLEAN]]
  BY DEF ImageOK
<1>2. CASE ReorderImages(r)
  <2> DEFINE B == A \union {req[r].arg[i] : i \in DOMAIN req[r].arg}
  <2>1. image' \in [Images -> [row : BOOLEAN, pos : B, primary : BOOLEAN]]
    BY <1>1, <1>2 DEF ReorderImages
  <2>2. \A i \in Images : image'[i].row = image[i].row
    BY <1>1, <1>2 DEF ReorderImages
  <2> QED
    BY <2>1, <2>2 DEF ImageOK, Gallery
<1>3. CASE SetPrimaryImage(r)
  <2>1. image' \in [Images -> [row : BOOLEAN, pos : A, primary : BOOLEAN]]
    BY <1>1, <1>3 DEF SetPrimaryImage
  <2>2. \A i \in Images : image'[i].row = image[i].row
    BY <1>1, <1>3 DEF SetPrimaryImage
  <2> QED
    BY <2>1, <2>2 DEF ImageOK, Gallery
<1> QED
  BY <1>2, <1>3

\* Each step of an upload, an arrangement or a removal keeps the gallery.
LEMMA GallerySteps ==
  ASSUME GalleryInv, NEW r \in Requests, GalleryWork(r)
  PROVE  GalleryInv'
<1>0. ReqOK /\ ImageOK
  BY DEF GalleryInv
<1>1. ASSUME NEW i \in Images, CheckUpload(r, i)
      PROVE  GalleryInv'
  <2>1. /\ Touches(r, {"upload"}) /\ req'[r].on = "gallery" /\ req'[r].arg = i
        /\ req'[r].pc = "checked" /\ UNCHANGED <<image, files>>
    <3>1. Begin(r, "upload", "gallery", i, None) /\ UNCHANGED <<image, files>>
      BY <1>1 DEF CheckUpload, productVars
    <3> QED
      BY <1>0, <3>1, BeginStep
  <2>2. i \notin Gallery /\ i \notin files
    BY <1>1 DEF CheckUpload, Gallery
  <2>3. \A q \in Requests : Uploading(q) => req[q].arg # i
    BY <1>1 DEF CheckUpload, InFlight, Uploading, GalleryInv
  <2>4. \A q \in Requests : Removing(q) => req[q].arg # i
    BY <2>2 DEF GalleryInv
  <2>5. /\ \A q \in Requests \ {r} : Uploading(q)' = Uploading(q) /\ Removing(q)' = Removing(q)
        /\ ~Removing(r)'
    BY <2>1 DEF Touches, Uploading, Removing
  <2>6. Gallery' = Gallery /\ ImageOK' /\ files' = files
    BY <1>0, <2>1 DEF Gallery, ImageOK
  <2> QED
    BY <2>1, <2>2, <2>3, <2>4, <2>5, <2>6 DEF GalleryInv, Touches
<1>2. CASE StoreFile(r) \/ CountImages(r)
  <2>1. /\ Touches(r, {"upload"}) /\ req'[r].on = req[r].on /\ req'[r].arg = req[r].arg
        /\ req'[r].pc \in {"stored", "counted"} /\ req[r].kind = "upload" /\ UNCHANGED image
    BY <1>0, <1>2, GoesStep DEF StoreFile, CountImages, At, productVars
  <2>2. /\ files \subseteq files' /\ req[r].arg \in files'
    BY <1>2 DEF StoreFile, CountImages, At, productVars, GalleryInv, Uploading
  <2>3. Uploading(r) /\ ~Removing(r)'
    BY <1>2, <2>1 DEF StoreFile, CountImages, At, Uploading, Removing, Touches
  <2>4. \A q \in Requests \ {r} : Uploading(q)' = Uploading(q) /\ Removing(q)' = Removing(q)
    BY <2>1 DEF Touches, Uploading, Removing
  <2>5. Gallery' = Gallery /\ ImageOK'
    BY <1>0, <2>1 DEF Gallery, ImageOK
  <2> QED
    BY <2>1, <2>2, <2>3, <2>4, <2>5 DEF GalleryInv, Touches
<1>3. CASE CreateImage(r)
  <2> DEFINE i == req[r].arg
  <2>1. Touches(r, {"upload"}) /\ req'[r].pc = "done"
    BY <1>0, <1>3, EndsStep DEF CreateImage, At
  <2>2. Uploading(r) /\ i \in Images /\ i \in files /\ req[r].kind = "upload"
    BY <1>3 DEF CreateImage, At, Uploading, GalleryInv
  <2>3. ImageOK' /\ Gallery' = Gallery \union {i}
    <3>1. PICK A : image \in [Images -> [row : BOOLEAN, pos : A, primary : BOOLEAN]]
      BY <1>0 DEF ImageOK
    <3>2. image' \in [Images -> [row : BOOLEAN, pos : A \union {req[r].saw}, primary : BOOLEAN]]
      BY <1>3, <2>2, <3>1 DEF CreateImage
    <3>3. \A j \in Images : image'[j].row = (j = i \/ image[j].row)
      BY <1>3, <2>2, <3>1 DEF CreateImage
    <3> QED
      BY <2>2, <3>2, <3>3 DEF ImageOK, Gallery
  <2>4. files' = files
    BY <1>3 DEF CreateImage
  <2>5. \A q \in Requests : Uploading(q)' => q # r /\ Uploading(q) /\ req[q].arg # i
    BY <2>1, <2>2 DEF Touches, Uploading, GalleryInv
  <2>6. \A q \in Requests : Removing(q)' => q # r /\ Removing(q) /\ req[q].arg # i
    BY <2>1, <2>2 DEF Touches, Removing, Uploading, GalleryInv
  <2> QED
    BY <2>1, <2>2, <2>3, <2>4, <2>5, <2>6 DEF GalleryInv, Touches
<1>4. ASSUME NEW kind \in {"reorder", "primary", "delete"}, NEW on, NEW arg, NEW saw,
             Begin(r, kind, on, arg, saw), UNCHANGED productVars
      PROVE  GalleryInv'
  <2>1. Touches(r, {kind}) /\ req'[r].pc = "checked" /\ req'[r].kind = kind
    BY <1>0, <1>4, BeginStep
  <2>2. ~Uploading(r)' /\ ~Removing(r)'
    BY <2>1 DEF Uploading, Removing
  <2>3. ImageOK' /\ Gallery' = Gallery /\ files' = files
    BY <1>0, <1>4 DEF ImageOK, Gallery, productVars
  <2> QED
    BY <2>1, <2>2, <2>3, GalleryUntouched
<1>5. CASE ReorderImages(r) \/ SetPrimaryImage(r)
  <2>1. Touches(r, {req[r].kind}) /\ req'[r].pc = "done" /\ files' = files
    BY <1>0, <1>5, EndsStep DEF ReorderImages, SetPrimaryImage
  <2>2. ~Uploading(r)' /\ ~Removing(r)'
    BY <2>1 DEF Uploading, Removing
  <2> QED
    BY <1>0, <1>5, <2>1, <2>2, Rearranged, GalleryUntouched
<1>6. CASE DeleteImage(r) /\ req[r].arg \notin Gallery
  <2>1. Touches(r, {req[r].kind}) /\ req'[r].pc = "done" /\ UNCHANGED <<image, files>>
    BY <1>0, <1>6, EndsStep DEF DeleteImage
  <2>2. ~Uploading(r)' /\ ~Removing(r)' /\ ImageOK' /\ Gallery' = Gallery
    BY <1>0, <2>1 DEF Uploading, Removing, ImageOK, Gallery
  <2> QED
    BY <2>1, <2>2, GalleryUntouched
<1>7. CASE DeleteImage(r) /\ req[r].arg \in Gallery
  <2> DEFINE i == req[r].arg
             left == Gallery \ {i}
             place(j) == Cardinality({k \in left : image[k].pos < image[j].pos})
  <2>1. /\ Touches(r, {"delete"}) /\ req'[r].pc = "deleted" /\ req'[r].arg = i
        /\ req'[r].kind = "delete" /\ files' = files
    BY <1>0, <1>7, GoesStep DEF DeleteImage, At
  <2>2. ImageOK' /\ Gallery' = left
    <3>1. image' = [j \in Images |-> IF j \notin left THEN NoImage
                      ELSE [row |-> TRUE, pos |-> place(j), primary |-> place(j) = 0]]
      BY <1>7 DEF DeleteImage
    <3> HIDE DEF place
    <3>2. image' \in [Images -> [row : BOOLEAN, pos : {0} \union {place(j) : j \in Images},
                               primary : BOOLEAN]]
      BY <3>1 DEF NoImage
    <3>3. ASSUME NEW j \in left PROVE j \in Images /\ image'[j].row = TRUE
      BY <3>1, <3>3 DEF Gallery
    <3>4. ASSUME NEW j \in Images, j \notin left PROVE image'[j].row = FALSE
      BY <3>1, <3>4 DEF NoImage
    <3> HIDE DEF left
    <3> QED
      BY <3>2, <3>3, <3>4 DEF ImageOK, Gallery
  <2>3. i \in files /\ i \in Gallery
    BY <1>7 DEF GalleryInv
  <2>4. \A q \in Requests : Uploading(q)' => q # r /\ Uploading(q) /\ req[q].arg # i
    BY <2>1, <2>3 DEF Touches, Uploading, GalleryInv
  <2>5. \A q \in Requests \ {r} : Removing(q)' => Removing(q) /\ req[q].arg # i
    BY <2>1, <2>3 DEF Touches, Removing, GalleryInv
  <2> HIDE DEF left, i
  <2> QED
    BY <2>1, <2>2, <2>3, <2>4, <2>5 DEF GalleryInv, Touches, left
<1>8. CASE RemoveFile(r)
  <2>1. Touches(r, {"delete"}) /\ req'[r].pc = "done" /\ UNCHANGED image
    BY <1>0, <1>8, EndsStep DEF RemoveFile, At
  <2>2. Removing(r) /\ files' = files \ {req[r].arg}
    BY <1>8 DEF RemoveFile, At, Removing
  <2>3. Gallery' = Gallery /\ ImageOK'
    BY <1>0, <2>1 DEF Gallery, ImageOK
  <2>4. \A q \in Requests : Uploading(q)' => q # r /\ Uploading(q) /\ req[q].arg # req[r].arg
    BY <2>1, <2>2 DEF Touches, Uploading, GalleryInv
  <2>5. \A q \in Requests : Removing(q)' => q # r /\ Removing(q) /\ req[q].arg # req[r].arg
    BY <2>1, <2>2 DEF Touches, Removing, GalleryInv
  <2> QED
    BY <2>1, <2>2, <2>3, <2>4, <2>5 DEF GalleryInv, Touches
<1> QED
  BY <1>1, <1>2, <1>3, <1>4, <1>5, <1>6, <1>7, <1>8
  DEF GalleryWork, CheckReorder, CheckImage

\* ProductDesk: the gallery's invariant holds initially and after every step.
LEMMA GalleryInvariant == Spec => []GalleryInv
<1>1. Init => GalleryInv
  <2> SUFFICES ASSUME Init PROVE GalleryInv
    OBVIOUS
  <2>1. ImageOK /\ Gallery \subseteq files
    <3>1. CASE NoImages
      <4>1. image \in [Images -> [row : BOOLEAN, pos : {0}, primary : BOOLEAN]]
        BY <3>1 DEF NoImages, NoImage
      <4>2. \A i \in Images : image[i].row = FALSE
        BY <3>1 DEF NoImages, NoImage
      <4> QED
        BY <4>1, <4>2 DEF ImageOK, Gallery
    <3>2. CASE OneImage
      <4>1. image \in [Images -> [row : BOOLEAN, pos : {0}, primary : BOOLEAN]]
        BY <3>2 DEF OneImage, NoImage
      <4> QED
        BY <3>2, <4>1 DEF OneImage, ImageOK
    <3>3. CASE ImagesMade
      <4>1. image \in [Images -> [row : BOOLEAN, pos : {0, 1}, primary : BOOLEAN]]
        BY <3>3 DEF ImagesMade, NoImage
      <4>2. \A i \in Images : image[i].row => i \in files
        BY <3>3 DEF ImagesMade, NoImage
      <4> QED
        BY <4>1, <4>2 DEF ImageOK, Gallery
    <3> QED
      BY <3>1, <3>2, <3>3 DEF Init, NewProduct
  <2>2. ReqOK /\ \A r \in Requests : ~Uploading(r) /\ ~Removing(r)
    BY NoneSent DEF Init, Uploading, Removing
  <2> QED
    BY <2>1, <2>2 DEF GalleryInv
<1>2. GalleryInv /\ [Next]_vars => GalleryInv'
  <2> SUFFICES ASSUME GalleryInv, [Next]_vars PROVE GalleryInv'
    OBVIOUS
  <2>1. CASE UNCHANGED <<req, image, files>>
    BY <2>1 DEF GalleryInv, ReqOK, ImageOK, Uploading, Removing, Gallery
  <2>2. ASSUME NEW r \in Requests, NEW kinds, Touches(r, kinds), UNCHANGED <<image, files>>,
               kinds \intersect {"upload", "delete"} = {} \/ req'[r].pc = "done"
        PROVE  GalleryInv'
    <3>1. ~Uploading(r)' /\ ~Removing(r)'
      BY <2>2 DEF Touches, Uploading, Removing
    <3>2. ImageOK' /\ Gallery' = Gallery
      BY <2>2 DEF ImageOK, Gallery, GalleryInv
    <3> QED
      BY <2>2, <3>1, <3>2, GalleryUntouched
  <2>3. ASSUME NEW r \in Requests, BannerWork(r) \/ VoucherWork(r) \/ Crash(r), UNCHANGED <<image, files>>
        PROVE  GalleryInv'
    <3>1. CASE BannerWork(r)
      BY <2>2, <2>3, <3>1, WindowWork DEF GalleryInv
    <3>2. CASE VoucherWork(r)
      BY <2>2, <2>3, <3>2, CampaignWork DEF GalleryInv
    <3>3. CASE Crash(r)
      BY <2>2, <2>3, <3>3, EndsStep DEF Crash, GalleryInv
    <3> QED
      BY <2>3, <3>1, <3>2, <3>3
  <2>4. ASSUME NEW r \in Requests, UNCHANGED <<image, files>>,
               Touches(r, {"status", "variant", "requires", "create", "move", "remove"})
        PROVE  GalleryInv'
    BY <2>2, <2>4
  <2> QED
    BY <2>1, <2>3, <2>4, GallerySteps, Elsewhere DEF GalleryInv
<1> QED
  BY <1>1, <1>2, PTL DEF Spec

\* "A broken image URL is on the storefront": never, whatever runs at once and
\* wherever a request dies.
THEOREM RowsKeepFiles == Spec => []RowsHaveFiles
<1>1. GalleryInv => RowsHaveFiles
  BY DEF GalleryInv, RowsHaveFiles
<1> QED
  BY <1>1, GalleryInvariant, PTL

-----------------------------------------------------------------------------
(* The banner.                                                             *)

Named(p) == origin[p] \in {"named", "resent"}

\* The picture a request is about to write, if any, and the one it read and
\* will remove if it replaces it.
NamesPicture(r) ==
  \/ req[r].kind = "newbanner"
  \/ req[r].kind = "banner" /\ "picture" \in DOMAIN req[r].arg.change
NewPicture(r) ==
  IF req[r].kind = "newbanner" THEN req[r].arg.picture ELSE req[r].arg.change.picture
Brings(r, p) == req[r].pc = "checked" /\ NamesPicture(r) /\ NewPicture(r) = p
Read(r, p) ==
  /\ req[r].kind \in {"banner", "unbanner"}
  /\ req[r].pc \in {"checked", "replaced"}
  /\ req[r].saw.picture = p

\* The window a request is about to write.
NewWindow(r) == IF req[r].kind = "newbanner" THEN req[r].saw ELSE req[r].arg.window

OriginOK ==
  /\ origin \in [Pictures -> {"none", "fresh", "named", "resent"}]
  /\ \A p \in Pictures : origin[p] = "fresh" => p \in pictures

\* The banner's picture was named, and is there if it was named only once.
ShownOK ==
  banner # None =>
    /\ WindowOpens(banner)
    /\ banner.picture \in Pictures
    /\ Named(banner.picture)
    /\ origin[banner.picture] = "named" => banner.picture \in pictures

\* A picture named once and not yet written is there, is no banner's, no other
\* request's, and nobody has read it.
BringsOK ==
  \A r \in Requests : \A p : Brings(r, p) =>
    /\ p \in Pictures
    /\ Named(p)
    /\ origin[p] = "named" =>
         /\ p \in pictures
         /\ banner # None => banner.picture # p
         /\ \A q \in Requests \ {r} : ~Brings(q, p)
         /\ \A q \in Requests : ~Read(q, p)

\* A picture that is about to be removed is not the banner's, unless resent.
ReadsOK ==
  \A r \in Requests : \A p : Read(r, p) =>
    /\ p \in Pictures
    /\ Named(p)
    /\ req[r].pc = "replaced" /\ origin[p] = "named" /\ banner # None => banner.picture # p

WindowsOK ==
  \A r \in Requests :
    req[r].pc = "checked" /\ req[r].kind \in {"newbanner", "banner"} => WindowOpens(NewWindow(r))

BannerInv == ReqOK /\ OriginOK /\ ShownOK /\ BringsOK /\ ReadsOK /\ WindowsOK

\* What the other requests bring, have read and are about to write stays.
LEMMA OthersStay ==
  ASSUME NEW r \in Requests, NEW kinds, Touches(r, kinds)
  PROVE  \A q \in Requests \ {r} :
           /\ \A p : (Brings(q, p)' <=> Brings(q, p)) /\ (Read(q, p)' <=> Read(q, p))
           /\ req'[q] = req[q]
           /\ NewWindow(q)' = NewWindow(q)
BY DEF Touches, Brings, Read, NewWindow, NamesPicture, NewPicture

\* A request that ends brings nothing and has read nothing.
LEMMA EndedBrings ==
  ASSUME BannerInv, NEW r \in Requests, NEW kinds, Touches(r, kinds),
         req'[r].pc \notin {"checked", "replaced"} \/ kinds \intersect {"newbanner", "banner", "unbanner"} = {}
  PROVE  /\ \A p : ~Brings(r, p)' /\ ~Read(r, p)'
         /\ WindowsOK'
<1>1. \A p : ~Brings(r, p)' /\ ~Read(r, p)'
  BY DEF Touches, Brings, Read, NamesPicture
<1>2. ~(req'[r].pc = "checked" /\ req'[r].kind \in {"newbanner", "banner"})
  BY DEF Touches
<1>3. WindowsOK'
  BY <1>2, OthersStay DEF WindowsOK, BannerInv, WindowOpens
<1> QED
  BY <1>1, <1>3

\* So if nothing else changes, nothing does.
LEMMA BannerUntouched ==
  ASSUME BannerInv, NEW r \in Requests, NEW kinds, Touches(r, kinds), UNCHANGED bannerVars,
         req'[r].pc \notin {"checked", "replaced"} \/ kinds \intersect {"newbanner", "banner", "unbanner"} = {}
  PROVE  BannerInv'
<1>1. /\ \A p : ~Brings(r, p)' /\ ~Read(r, p)'
      /\ WindowsOK'
  BY EndedBrings
<1>2. OriginOK' /\ ShownOK'
  BY DEF BannerInv, OriginOK, ShownOK, bannerVars, WindowOpens, Named
<1>3. BringsOK'
  BY <1>1, OthersStay DEF BannerInv, BringsOK, bannerVars, Named
<1>4. ReadsOK'
  BY <1>1, OthersStay DEF BannerInv, ReadsOK, bannerVars, Named
<1> QED
  BY <1>1, <1>2, <1>3, <1>4 DEF BannerInv, Touches

\* Naming a picture: the first time it becomes named, after that resent.
LEMMA NamesStep ==
  ASSUME OriginOK, NEW change, Names(change), UNCHANGED pictures,
         "picture" \in DOMAIN change =>
           change.picture \in Pictures /\ origin[change.picture] # "none"
  PROVE  /\ OriginOK'
         /\ \A p \in Pictures : Named(p) =>
              /\ Named(p)'
              /\ origin'[p] = "named" =>
                   origin[p] = "named" /\ ~("picture" \in DOMAIN change /\ change.picture = p)
         /\ "picture" \in DOMAIN change =>
              /\ Named(change.picture)'
              /\ origin'[change.picture] = "named" => origin[change.picture] = "fresh"
BY DEF OriginOK, Names, Named

\* A new picture is brought in by the request that names it; it has not been
\* shown, read or named before.
LEMMA NamingStep ==
  ASSUME BannerInv, NEW r \in Requests, NEW kinds, Touches(r, kinds), NEW change, Names(change),
         UNCHANGED <<banner, pictures>>,
         req[r].pc = "new",
         "picture" \in DOMAIN change =>
           change.picture \in Pictures /\ origin[change.picture] # "none",
         \A p : Brings(r, p)' => "picture" \in DOMAIN change /\ change.picture = p,
         \A p : Read(r, p)' => banner # None /\ banner.picture = p /\ req'[r].pc = "checked"
  PROVE  OriginOK' /\ ShownOK' /\ BringsOK' /\ ReadsOK'
<1>0. OriginOK /\ ShownOK /\ BringsOK /\ ReadsOK
  BY DEF BannerInv
<1>1. /\ OriginOK'
      /\ \A p \in Pictures : Named(p) =>
           /\ Named(p)'
           /\ origin'[p] = "named" =>
                origin[p] = "named" /\ ~("picture" \in DOMAIN change /\ change.picture = p)
      /\ "picture" \in DOMAIN change =>
           /\ Named(change.picture)'
           /\ origin'[change.picture] = "named" => origin[change.picture] = "fresh"
  BY <1>0, NamesStep
<1>2. ShownOK'
  BY <1>0, <1>1 DEF ShownOK, WindowOpens
<1>3. \A q \in Requests \ {r} :
        \A p : (Brings(q, p)' <=> Brings(q, p)) /\ (Read(q, p)' <=> Read(q, p)) /\ req'[q] = req[q]
  BY OthersStay
<1>4. ReadsOK'
  <2>1. ASSUME NEW q \in Requests, NEW p, Read(q, p)'
        PROVE  /\ p \in Pictures
               /\ Named(p)'
               /\ req'[q].pc = "replaced" /\ origin'[p] = "named" /\ banner' # None => banner'.picture # p
    <3>1. CASE q = r
      BY <1>0, <1>1, <2>1, <3>1 DEF ShownOK
    <3>2. CASE q # r
      BY <1>0, <1>1, <1>3, <2>1, <3>2 DEF ReadsOK
    <3> QED
      BY <3>1, <3>2
  <2> QED
    BY <2>1 DEF ReadsOK
<1>5. BringsOK'
  <2> SUFFICES ASSUME NEW q \in Requests, NEW p, Brings(q, p)'
               PROVE  /\ p \in Pictures
                      /\ Named(p)'
                      /\ origin'[p] = "named" =>
                           /\ p \in pictures'
                           /\ banner' # None => banner'.picture # p
                           /\ \A x \in Requests \ {q} : ~Brings(x, p)'
                           /\ \A x \in Requests : ~Read(x, p)'
    BY DEF BringsOK
  <2>1. CASE q = r
    <3>1. p \in Pictures /\ Named(p)' /\ (origin'[p] = "named" => origin[p] = "fresh")
      BY <1>1, <2>1
    <3>2. origin[p] = "fresh" => ~Named(p)
      BY DEF Named
    <3>3. origin[p] = "fresh" => \A x \in Requests : ~Brings(x, p) /\ ~Read(x, p)
      BY <1>0, <3>2 DEF BringsOK, ReadsOK
    <3>4. origin[p] = "fresh" => p \in pictures /\ (banner # None => banner.picture # p)
      BY <1>0, <3>1, <3>2 DEF OriginOK, ShownOK
    <3>5. origin[p] = "fresh" => \A x \in Requests : ~Read(x, p)'
      BY <1>3, <3>3, <3>4
    <3> QED
      BY <1>3, <2>1, <3>1, <3>3, <3>4, <3>5
  <2>2. CASE q # r
    <3>1. Brings(q, p) /\ p \in Pictures /\ Named(p) /\ Named(p)'
      BY <1>0, <1>1, <1>3, <2>2 DEF BringsOK
    <3>2. origin'[p] = "named" => origin[p] = "named" /\ ~Brings(r, p)'
      BY <1>1, <3>1
    <3>3. origin[p] = "named" =>
            /\ p \in pictures
            /\ banner # None => banner.picture # p
            /\ \A x \in Requests \ {q} : ~Brings(x, p)
            /\ \A x \in Requests : ~Read(x, p)
      BY <1>0, <3>1 DEF BringsOK
    <3> QED
      BY <1>3, <3>1, <3>2, <3>3
  <2> QED
    BY <2>1, <2>2
<1> QED
  BY <1>1, <1>2, <1>4, <1>5

\* A write of the banner shows the picture the request brought, or the one it
\* had; a picture it goes on to remove is not shown.
LEMMA WriteStep ==
  ASSUME BannerInv, NEW r \in Requests, NEW kinds, Touches(r, kinds),
         UNCHANGED <<pictures, origin>>, req'[r].pc # "checked",
         banner' # None =>
           /\ WindowOpens(banner')
           /\ \/ Brings(r, banner'.picture)
              \/ banner # None /\ banner'.picture = banner.picture,
         \A p : Read(r, p)' => Read(r, p) /\ (banner' # None => banner'.picture # p)
  PROVE  BannerInv'
<1>0. OriginOK /\ ShownOK /\ BringsOK /\ ReadsOK /\ WindowsOK
  BY DEF BannerInv
<1>1. \A q \in Requests \ {r} :
        /\ \A p : (Brings(q, p)' <=> Brings(q, p)) /\ (Read(q, p)' <=> Read(q, p))
        /\ req'[q] = req[q] /\ NewWindow(q)' = NewWindow(q)
  BY OthersStay
<1>2. \A p : ~Brings(r, p)'
  BY DEF Brings
<1>3. \A p : Named(p)' <=> Named(p)
  BY DEF Named
<1>4. OriginOK'
  BY <1>0 DEF OriginOK
<1>5. ShownOK'
  <2> SUFFICES ASSUME banner' # None
               PROVE  /\ banner'.picture \in Pictures
                      /\ Named(banner'.picture)
                      /\ origin[banner'.picture] = "named" => banner'.picture \in pictures
    BY <1>3 DEF ShownOK, WindowOpens
  <2> QED
    BY <1>0 DEF ShownOK, BringsOK
<1>6. BringsOK'
  <2> SUFFICES ASSUME NEW q \in Requests \ {r}, NEW p, Brings(q, p)
               PROVE  /\ p \in Pictures
                      /\ Named(p)
                      /\ origin[p] = "named" =>
                           /\ p \in pictures
                           /\ banner' # None => banner'.picture # p
                           /\ \A x \in Requests \ {q} : ~Brings(x, p)'
                           /\ \A x \in Requests : ~Read(x, p)'
    BY <1>1, <1>2, <1>3 DEF BringsOK
  <2>1. /\ p \in Pictures /\ Named(p)
        /\ origin[p] = "named" =>
             /\ p \in pictures
             /\ banner # None => banner.picture # p
             /\ \A x \in Requests \ {q} : ~Brings(x, p)
             /\ \A x \in Requests : ~Read(x, p)
    BY <1>0 DEF BringsOK
  <2>2. origin[p] = "named" => \A x \in Requests \ {q} : ~Brings(x, p)'
    BY <1>1, <1>2, <2>1
  <2>3. origin[p] = "named" => \A x \in Requests : ~Read(x, p)'
    BY <1>1, <2>1
  <2>4. origin[p] = "named" /\ banner' # None => banner'.picture # p
    BY <2>1
  <2> QED
    BY <2>1, <2>2, <2>3, <2>4
<1>7. ReadsOK'
  <2> SUFFICES ASSUME NEW q \in Requests, NEW p, Read(q, p)'
               PROVE  /\ p \in Pictures
                      /\ Named(p)
                      /\ req'[q].pc = "replaced" /\ origin[p] = "named" /\ banner' # None =>
                           banner'.picture # p
    BY <1>3 DEF ReadsOK
  <2>1. Read(q, p)
    BY <1>1
  <2>2. p \in Pictures /\ Named(p)
    BY <1>0, <2>1 DEF ReadsOK
  <2>3. CASE q = r
    BY <2>2, <2>3
  <2>4. CASE q # r
    <3>1. Brings(r, banner'.picture) /\ banner'.picture = p => origin[p] # "named"
      BY <1>0, <2>1 DEF BringsOK
    <3>2. req[q].pc = "replaced" /\ origin[p] = "named" /\ banner # None => banner.picture # p
      BY <1>0, <2>1 DEF ReadsOK
    <3> QED
      BY <1>1, <2>2, <2>4, <3>1, <3>2
  <2> QED
    BY <2>3, <2>4
<1>8. WindowsOK'
  <2> SUFFICES ASSUME NEW q \in Requests \ {r}, req[q].pc = "checked",
                      req[q].kind \in {"newbanner", "banner"}
               PROVE  WindowOpens(NewWindow(q))
    BY <1>1 DEF WindowsOK, WindowOpens
  <2> QED
    BY <1>0 DEF WindowsOK
<1> QED
  BY <1>4, <1>5, <1>6, <1>7, <1>8 DEF BannerInv, Touches

\* An edit of the banner names a picture that was uploaded, if any.
LEMMA ChangedPicture ==
  ASSUME NEW change \in BannerChanges, "picture" \in DOMAIN change
  PROVE  change.picture \in Pictures /\ origin[change.picture] # "none"
BY DEF BannerChanges

\* Each step of a request about the banner keeps the invariant.
LEMMA BannerSteps ==
  ASSUME BannerInv, NEW r \in Requests, BannerWork(r)
  PROVE  BannerInv'
<1>0. ReqOK /\ OriginOK /\ ShownOK /\ BringsOK /\ ReadsOK /\ WindowsOK
  BY DEF BannerInv
<1>1. ASSUME NEW s \in Bounds, NEW e \in Bounds, NEW p \in Pictures,
             CheckNewBanner(r, [starts |-> s, ends |-> e], p)
      PROVE  BannerInv'
  <2> DEFINE w == [starts |-> s, ends |-> e]
             change == [picture |-> p]
  <2>1. /\ Touches(r, {"newbanner"}) /\ req'[r].kind = "newbanner"
        /\ req'[r].arg = change /\ req'[r].saw = w
    <3>1. Begin(r, "newbanner", "banner", change, w)
      BY <1>1 DEF CheckNewBanner
    <3> HIDE DEF change, w
    <3> QED
      BY <1>0, <3>1, BeginStep
  <2>2. /\ Names(change) /\ UNCHANGED <<banner, pictures>> /\ req[r].pc = "new"
        /\ WindowOpens(w) /\ origin[p] # "none"
    BY <1>1 DEF CheckNewBanner, Begin
  <2>3. DOMAIN change = {"picture"} /\ change.picture = p
    OBVIOUS
  <2>4. \A x : (Brings(r, x)' => x = p) /\ ~Read(r, x)'
    BY <2>1, <2>3 DEF Brings, Read, NewPicture
  <2> HIDE DEF change
  <2>5. OriginOK' /\ ShownOK' /\ BringsOK' /\ ReadsOK'
    BY <2>1, <2>2, <2>3, <2>4, NamingStep
  <2>6. WindowsOK'
    <3>1. NewWindow(r)' = w
      BY <2>1 DEF NewWindow
    <3> HIDE DEF w
    <3> QED
      BY <1>0, <2>1, <2>2, <3>1, OthersStay DEF WindowsOK, WindowOpens
  <2> QED
    BY <2>1, <2>5, <2>6 DEF BannerInv, Touches
<1>2. ASSUME NEW change \in BannerChanges, CheckBanner(r, change)
      PROVE  BannerInv'
  <2> DEFINE arg == [change |-> change, window |-> WindowOf(change)]
  <2>1. /\ Touches(r, {"banner"}) /\ req'[r].kind = "banner" /\ req'[r].pc = "checked"
        /\ req'[r].arg = arg /\ req'[r].saw = banner
    <3>1. Begin(r, "banner", "banner", arg, banner)
      BY <1>2 DEF CheckBanner
    <3> HIDE DEF arg
    <3> QED
      BY <1>0, <3>1, BeginStep
  <2>2. /\ Names(change) /\ UNCHANGED <<banner, pictures>> /\ req[r].pc = "new"
        /\ WindowOpens(WindowOf(change)) /\ banner # None
    BY <1>2 DEF CheckBanner, Begin
  <2>3. "picture" \in DOMAIN change => change.picture \in Pictures /\ origin[change.picture] # "none"
    BY ChangedPicture
  <2>5. OriginOK' /\ ShownOK' /\ BringsOK' /\ ReadsOK'
    <3>1. \A p : Brings(r, p)' => "picture" \in DOMAIN change /\ change.picture = p
      BY <2>1 DEF Brings, NamesPicture, NewPicture
    <3>2. \A p : Read(r, p)' => banner # None /\ banner.picture = p /\ req'[r].pc = "checked"
      BY <2>1, <2>2 DEF Read
    <3> HIDE DEF arg
    <3> QED
      BY <2>1, <2>2, <2>3, <3>1, <3>2, NamingStep
  <2>6. WindowsOK'
    <3> DEFINE w == WindowOf(change)
    <3>1. NewWindow(r)' = w
      BY <2>1 DEF NewWindow
    <3>2. WindowOpens(w)
      BY <2>2
    <3> HIDE DEF w
    <3> QED
      BY <1>0, <2>1, <3>1, <3>2, OthersStay DEF WindowsOK, WindowOpens
  <2> QED
    BY <2>1, <2>5, <2>6 DEF BannerInv, Touches
<1>3. CASE CheckRemoveBanner(r)
  <2> DEFINE change == [x \in {} |-> x]
  <2>1. /\ Touches(r, {"unbanner"}) /\ req'[r].kind = "unbanner" /\ req'[r].pc = "checked"
        /\ req'[r].saw = banner
    <3>1. Begin(r, "unbanner", "banner", None, banner)
      BY <1>3 DEF CheckRemoveBanner
    <3> QED
      BY <1>0, <3>1, BeginStep
  <2>2. UNCHANGED <<banner, pictures, origin>> /\ req[r].pc = "new" /\ banner # None
    BY <1>3 DEF CheckRemoveBanner, Begin, bannerVars
  <2>3. "picture" \notin DOMAIN change
    OBVIOUS
  <2>4. Names(change)
    BY <1>0, <2>2, <2>3 DEF Names, OriginOK
  <2> HIDE DEF change
  <2>6. OriginOK' /\ ShownOK' /\ BringsOK' /\ ReadsOK'
    <3>1. \A p : Brings(r, p)' => "picture" \in DOMAIN change /\ change.picture = p
      BY <2>1 DEF Brings, NamesPicture
    <3>2. \A p : Read(r, p)' => banner # None /\ banner.picture = p /\ req'[r].pc = "checked"
      BY <2>1, <2>2 DEF Read
    <3> QED
      BY <2>1, <2>2, <2>3, <2>4, <3>1, <3>2, NamingStep
  <2>7. WindowsOK'
    BY <1>0, <2>1, OthersStay DEF WindowsOK, WindowOpens
  <2> QED
    BY <2>1, <2>6, <2>7 DEF BannerInv, Touches
<1>4. CASE CreateBanner(r)
  <2>1. /\ Touches(r, {"newbanner"}) /\ req'[r].pc = "done" /\ UNCHANGED <<pictures, origin>>
        /\ req[r].kind = "newbanner" /\ req[r].pc = "checked"
    BY <1>0, <1>4, EndsStep DEF CreateBanner, At
  <2>2. WindowOpens(req[r].saw)
    BY <1>0, <2>1 DEF WindowsOK, NewWindow
  <2>3. banner' # None =>
          /\ WindowOpens(banner')
          /\ Brings(r, banner'.picture) \/ (banner # None /\ banner'.picture = banner.picture)
    <3>1. CASE banner # None
      BY <1>0, <1>4, <3>1 DEF CreateBanner, ShownOK
    <3>2. CASE banner = None
      BY <1>4, <2>1, <2>2, <3>2 DEF CreateBanner, WindowOpens, Brings, NamesPicture, NewPicture
    <3> QED
      BY <3>1, <3>2
  <2>4. \A p : ~Read(r, p)'
    BY <2>1 DEF Read
  <2> QED
    BY <2>1, <2>3, <2>4, WriteStep
<1>5. CASE UpdateBanner(r) /\ banner = None
  <2>1. Touches(r, {req[r].kind}) /\ req'[r].pc = "done" /\ UNCHANGED bannerVars
    BY <1>0, <1>5, EndsStep DEF UpdateBanner, bannerVars
  <2> QED
    BY <2>1, BannerUntouched
<1>6. CASE UpdateBanner(r) /\ banner # None
  <2>1. /\ Touches(r, {"banner"}) /\ req'[r].pc \in {"done", "replaced"}
        /\ req'[r].pc = "replaced" => Replaces(r) /\ req'[r].saw = req[r].saw
        /\ UNCHANGED <<pictures, origin>> /\ banner' = Written(r)
        /\ req[r].kind = "banner" /\ req[r].pc = "checked"
    <3>1. CASE Replaces(r)
      BY <1>0, <1>6, <3>1, GoesStep DEF UpdateBanner, At
    <3>2. CASE ~Replaces(r)
      BY <1>0, <1>6, <3>2, EndsStep DEF UpdateBanner, At
    <3> QED
      BY <3>1, <3>2
  <2>2. WindowOpens(req[r].arg.window)
    BY <1>0, <2>1 DEF WindowsOK, NewWindow
  <2>3. /\ WindowOpens(banner')
        /\ Brings(r, banner'.picture) \/ banner'.picture = banner.picture
    BY <2>1, <2>2 DEF Written, WindowOpens, Brings, NamesPicture, NewPicture
  <2>4. \A p : Read(r, p)' => Read(r, p) /\ banner'.picture # p
    BY <2>1 DEF Read, Replaces
  <2> QED
    BY <1>6, <2>1, <2>3, <2>4, WriteStep
<1>7. CASE RemoveBanner(r)
  <2>1. /\ Touches(r, {"unbanner"}) /\ req'[r].pc \in {"done", "replaced"}
        /\ req'[r].pc = "replaced" => req'[r].saw = req[r].saw
        /\ UNCHANGED <<pictures, origin>> /\ banner' = None
        /\ req[r].kind = "unbanner" /\ req[r].pc = "checked"
    <3>1. CASE banner = None
      BY <1>0, <1>7, <3>1, EndsStep DEF RemoveBanner, At
    <3>2. CASE banner # None
      BY <1>0, <1>7, <3>2, GoesStep DEF RemoveBanner, At
    <3> QED
      BY <3>1, <3>2
  <2>2. \A p : Read(r, p)' => Read(r, p)
    BY <2>1 DEF Read
  <2> QED
    BY <2>1, <2>2, WriteStep
<1>8. CASE RemovePicture(r)
  <2> DEFINE p == req[r].saw.picture
  <2>1. /\ Touches(r, {req[r].kind}) /\ req'[r].pc = "done" /\ UNCHANGED <<banner, origin>>
        /\ pictures' = pictures \ {p} /\ Read(r, p) /\ req[r].pc = "replaced"
    BY <1>0, <1>8, EndsStep DEF RemovePicture, Read
  <2>2. /\ p \in Pictures /\ Named(p)
        /\ origin[p] = "named" /\ banner # None => banner.picture # p
    BY <1>0, <2>1 DEF ReadsOK
  <2> HIDE DEF p
  <2>3. \A x : ~Brings(r, x)' /\ ~Read(r, x)'
    BY <2>1 DEF Brings, Read
  <2>4. OriginOK' /\ ShownOK'
    BY <1>0, <2>1, <2>2 DEF OriginOK, ShownOK, WindowOpens, Named
  <2>5. BringsOK'
    <3>1. \A q \in Requests : \A x : Brings(q, x) /\ origin[x] = "named" => x # p
      BY <1>0, <2>1 DEF BringsOK
    <3> QED
      BY <1>0, <2>1, <2>3, <3>1, OthersStay DEF BringsOK, Named
  <2>6. ReadsOK'
    BY <1>0, <2>1, <2>3, OthersStay DEF ReadsOK, Named
  <2>7. WindowsOK'
    BY <2>1, EndedBrings
  <2> QED
    BY <2>1, <2>4, <2>5, <2>6, <2>7 DEF BannerInv, Touches
<1> QED
  BY <1>1, <1>2, <1>3, <1>4, <1>5, <1>6, <1>7, <1>8 DEF BannerWork

\* A picture uploaded for the banner is fresh, and there.
LEMMA UploadStep ==
  ASSUME BannerInv, NEW p \in Pictures, UploadBanner(p)
  PROVE  BannerInv'
<1>0. ReqOK /\ OriginOK /\ ShownOK /\ BringsOK /\ ReadsOK /\ WindowsOK
  BY DEF BannerInv
<1>1. /\ UNCHANGED <<banner, req>> /\ pictures' = pictures \union {p}
      /\ origin' = [origin EXCEPT ![p] = "fresh"] /\ origin[p] = "none"
  BY DEF UploadBanner, deskVars
<1>2. OriginOK' /\ \A x \in Pictures : Named(x) => origin'[x] = origin[x]
  BY <1>0, <1>1 DEF OriginOK, Named
<1>3. ReqOK' /\ WindowsOK'
  BY <1>0, <1>1 DEF ReqOK, WindowsOK, WindowOpens, NewWindow
<1>4. ShownOK'
  BY <1>0, <1>1, <1>2 DEF ShownOK, WindowOpens, Named
<1>5. BringsOK'
  BY <1>0, <1>1, <1>2 DEF BringsOK, Named, Brings, Read, NamesPicture, NewPicture
<1>6. ReadsOK'
  BY <1>0, <1>1, <1>2 DEF ReadsOK, Named, Read
<1> QED
  BY <1>2, <1>3, <1>4, <1>5, <1>6 DEF BannerInv

\* BannerDesk: the banner's invariant holds initially and after every step.
LEMMA BannerInvariant == Spec => []BannerInv
<1>1. Init => BannerInv
  <2> SUFFICES ASSUME Init PROVE BannerInv
    OBVIOUS
  <2>1. ReqOK /\ \A r \in Requests : req[r].pc = "new"
    BY NoneSent DEF Init
  <2>2. BringsOK /\ ReadsOK /\ WindowsOK
    BY <2>1 DEF BringsOK, ReadsOK, WindowsOK, Brings, Read
  <2>3. CASE NoBanner
    BY <2>1, <2>2, <2>3 DEF NoBanner, BannerInv, OriginOK, ShownOK
  <2>4. CASE BannerInit
    <3>1. PICK p \in Pictures : banner \in {[starts |-> s, ends |-> None, picture |-> p] : s \in Times \union {None}}
      BY <2>4 DEF BannerInit
    <3>2. banner.picture = p /\ banner.ends = None
      BY <3>1
    <3>3. /\ pictures = {p}
          /\ origin = [q \in Pictures |-> IF q = p THEN "named" ELSE "none"]
      BY <2>4, <3>2 DEF BannerInit
    <3> QED
      BY <2>1, <2>2, <3>2, <3>3 DEF BannerInv, OriginOK, ShownOK, WindowOpens, Named
  <2> QED
    BY <2>3, <2>4 DEF Init
<1>2. BannerInv /\ [Next]_vars => BannerInv'
  <2> SUFFICES ASSUME BannerInv, [Next]_vars PROVE BannerInv'
    OBVIOUS
  <2>0. ReqOK
    BY DEF BannerInv
  <2>1. CASE UNCHANGED req /\ UNCHANGED bannerVars
    BY <2>1 DEF BannerInv, ReqOK, OriginOK, ShownOK, BringsOK, ReadsOK, WindowsOK, bannerVars,
                WindowOpens, Named, Brings, Read, NamesPicture, NewPicture, NewWindow
  <2>2. ASSUME NEW r \in Requests, UNCHANGED bannerVars,
               Touches(r, {"status", "variant", "requires", "create", "move", "remove"})
        PROVE  BannerInv'
    BY <2>2, BannerUntouched
  <2>3. ASSUME NEW r \in Requests, GalleryWork(r), UNCHANGED bannerVars
        PROVE  BannerInv'
    <3>1. Touches(r, {"upload", "reorder", "primary", "delete"})
      BY <2>0, <2>3, PictureWork
    <3> QED
      BY <2>3, <3>1, BannerUntouched
  <2>4. ASSUME NEW r \in Requests, VoucherWork(r), UNCHANGED bannerVars
        PROVE  BannerInv'
    <3>1. Touches(r, {"newvoucher", "voucher", "unvoucher"})
      BY <2>0, <2>4, CampaignWork
    <3> QED
      BY <2>4, <3>1, BannerUntouched
  <2>5. ASSUME NEW r \in Requests, Crash(r), UNCHANGED bannerVars
        PROVE  BannerInv'
    <3>1. Touches(r, {req[r].kind}) /\ req'[r].pc = "done"
      BY <2>0, <2>5, EndsStep DEF Crash
    <3> QED
      BY <2>5, <3>1, BannerUntouched
  <2> QED
    BY <2>0, <2>1, <2>2, <2>3, <2>4, <2>5, BannerSteps, UploadStep, Elsewhere
<1> QED
  BY <1>1, <1>2, PTL DEF Spec

\* A banner's window opens before it closes, and its picture is there unless a
\* form named an old one again, whoever edits, replaces or removes it at once.
THEOREM BannersShow == Spec => []BannerShows
<1>1. BannerInv => BannerShows
  BY DEF BannerInv, ShownOK, OriginOK, BannerShows, WindowsOpen, BannerHasPicture, Named
<1> QED
  BY <1>1, BannerInvariant, PTL

-----------------------------------------------------------------------------
(* What is under a category: the least set with its children that has the  *)
(* children of its members.  The model builds it level by level, as many   *)
(* levels as there are categories.                                         *)

\* The levels below c, where rows are the categories and up their parents.
Levels(g, rows, up, c) ==
  g = [n \in Nat |->
         IF n = 0 THEN {d \in rows : up[d] = c}
         ELSE g[n - 1] \union {d \in rows : up[d] \in g[n - 1]}]

Under(rows, up, c) == (CHOOSE g : Levels(g, rows, up, c))[Cardinality(Categories)]

\* What the model calls the descendants are the categories under one.
LEMMA DescendantsAreUnder ==
  /\ \A c : Descendants(c) = Under(Rows, parent, c)
  /\ \A c : Descendants(c)' = Under(Rows', parent', c)
BY DEF Descendants, Children, Under, Levels

\* The first n levels.
FirstLevels(g, n, rows, up, c) ==
  /\ g = [k \in 0..n |-> g[k]]
  /\ g[0] = {d \in rows : up[d] = c}
  /\ \A k \in 1..n : g[k] = g[k - 1] \union {d \in rows : up[d] \in g[k - 1]}

\* The levels of descendants exist whatever the rows and parents.
LEMMA LevelsExist ==
  ASSUME NEW rows, NEW up, NEW c
  PROVE  \E g : Levels(g, rows, up, c)
<1> DEFINE kids == {d \in rows : up[d] = c}
           next(s) == s \union {d \in rows : up[d] \in s}
           OK(g, n) == FirstLevels(g, n, rows, up, c)
<1>1. \A g, n : OK(g, n) <=> /\ g = [k \in 0..n |-> g[k]] /\ g[0] = kids
                             /\ \A k \in 1..n : g[k] = next(g[k - 1])
  BY DEF FirstLevels
<1> HIDE DEF kids, next, OK
<1> DEFINE G == {n \in Nat : \E g : OK(g, n)}
<1>2. 0 \in G
  <2> DEFINE g == [k \in 0..0 |-> kids]
  <2>1. g[0] = kids /\ g = [k \in 0..0 |-> g[k]] /\ 1..0 = {}
    OBVIOUS
  <2> HIDE DEF g
  <2>2. OK(g, 0)
    BY <1>1, <2>1
  <2> QED
    BY <2>2
<1>3. ASSUME NEW n \in Nat, n \in G
      PROVE  n + 1 \in G
  <2>1. PICK g : OK(g, n)
    BY <1>3
  <2> DEFINE h == [k \in 0..(n + 1) |-> IF k = n + 1 THEN next(g[n]) ELSE g[k]]
  <2>2. /\ h = [k \in 0..(n + 1) |-> h[k]] /\ h[n + 1] = next(g[n])
        /\ \A k \in 0..n : h[k] = g[k]
    OBVIOUS
  <2>3. h[0] = kids
    BY <1>1, <2>1, <2>2
  <2>4. ASSUME NEW k \in 1..(n + 1)
        PROVE  h[k] = next(h[k - 1])
    <3>1. CASE k = n + 1
      <4>1. k - 1 = n /\ n \in 0..n
        BY <3>1
      <4> HIDE DEF h
      <4> QED
        BY <2>2, <3>1, <4>1
    <3>2. CASE k # n + 1
      <4>1. k \in 1..n /\ k \in 0..n /\ k - 1 \in 0..n
        BY <3>2
      <4>2. g[k] = next(g[k - 1])
        BY <1>1, <2>1, <4>1
      <4> HIDE DEF h
      <4> QED
        BY <2>2, <4>1, <4>2
    <3> QED
      BY <3>1, <3>2
  <2> HIDE DEF h
  <2>5. OK(h, n + 1)
    BY <1>1, <2>2, <2>3, <2>4
  <2> QED
    BY <2>5
<1>4. \A n \in Nat : n \in G
  <2> HIDE DEF G
  <2> QED
    BY <1>2, <1>3, NumberInduction
\* The levels do not depend on how many there are.
<1>5. ASSUME NEW m \in Nat, NEW n \in Nat, NEW g, NEW h, OK(g, m), OK(h, n)
      PROVE  \A k \in Nat : k <= m /\ k <= n => g[k] = h[k]
  <2> DEFINE H == {k \in Nat : k <= m /\ k <= n => g[k] = h[k]}
  <2>1. 0 \in H
    BY <1>1, <1>5
  <2>2. ASSUME NEW k \in Nat, k \in H
        PROVE  k + 1 \in H
    <3>1. CASE k + 1 <= m /\ k + 1 <= n
      <4>1. k + 1 \in 1..m /\ k + 1 \in 1..n /\ (k + 1) - 1 = k /\ k <= m /\ k <= n
        BY <3>1
      <4>2. g[k + 1] = next(g[k]) /\ h[k + 1] = next(h[k])
        BY <1>1, <1>5, <4>1
      <4> QED
        BY <2>2, <4>1, <4>2
    <3>2. CASE ~(k + 1 <= m /\ k + 1 <= n)
      BY <3>2
    <3> QED
      BY <3>1, <3>2
  <2>3. \A k \in Nat : k \in H
    <3> HIDE DEF H
    <3> QED
      BY <2>1, <2>2, NumberInduction
  <2> QED
    BY <2>3
<1> DEFINE first(n) == CHOOSE g : OK(g, n)
           line == [n \in Nat |-> first(n)[n]]
<1>6. \A n \in Nat : OK(first(n), n)
  BY <1>4
<1> HIDE DEF first
<1>7. line[0] = kids
  <2>1. OK(first(0), 0)
    BY <1>6
  <2> QED
    BY <1>1, <2>1
<1>8. ASSUME NEW n \in Nat, n # 0
      PROVE  line[n] = next(line[n - 1])
  <2>1. n - 1 \in Nat /\ n \in 1..n /\ n - 1 <= n /\ n - 1 <= n - 1
    BY <1>8
  <2>2. OK(first(n), n) /\ OK(first(n - 1), n - 1)
    BY <1>6, <2>1
  <2>3. first(n)[n] = next(first(n)[n - 1])
    BY <1>1, <2>1, <2>2
  <2>4. first(n)[n - 1] = first(n - 1)[n - 1]
    BY <1>5, <2>1, <2>2
  <2> QED
    BY <2>1, <2>3, <2>4
<1>9. line = [n \in Nat |-> line[n]]
  OBVIOUS
<1> HIDE DEF line
<1>10. line = [n \in Nat |-> IF n = 0 THEN kids ELSE next(line[n - 1])]
  BY <1>7, <1>8, <1>9
<1>11. Levels(line, rows, up, c)
  BY <1>10, Zenon DEF Levels, kids, next
<1> QED
  BY <1>11

\* As many levels as there are categories are enough.
LEMMA UnderIsLeast ==
  ASSUME NEW rows \in SUBSET Categories, NEW up, NEW c
  PROVE  /\ Under(rows, up, c) \subseteq rows
         /\ \A d \in rows : up[d] = c => d \in Under(rows, up, c)
         /\ \A d \in rows : up[d] \in Under(rows, up, c) => d \in Under(rows, up, c)
         /\ \A S : /\ \A d \in rows : up[d] = c => d \in S
                   /\ \A d \in rows : up[d] \in S => d \in S
                   => Under(rows, up, c) \subseteq S
<1> DEFINE g == CHOOSE f : Levels(f, rows, up, c)
           kids == {d \in rows : up[d] = c}
           next(s) == s \union {d \in rows : up[d] \in s}
           N == Cardinality(Categories)
<1>1. Levels(g, rows, up, c)
  BY LevelsExist
<1>2. Under(rows, up, c) = g[N]
  BY DEF Under
<1> HIDE DEF g
<1>3. g = [n \in Nat |-> IF n = 0 THEN kids ELSE next(g[n - 1])]
  BY <1>1, Zenon DEF Levels
<1>4. /\ \A s : s \subseteq next(s) /\ \A d \in rows : up[d] \in s => d \in next(s)
      /\ \A s \in SUBSET rows : next(s) \in SUBSET rows
      /\ kids \in SUBSET rows /\ \A d \in rows : up[d] = c => d \in kids
  OBVIOUS
<1>5. IsFiniteSet(Categories) /\ N \in Nat
  BY CategoriesAssumption, FS_CardinalityType
<1> HIDE DEF N
<1>6. \A s \in SUBSET rows : IsFiniteSet(s) /\ Cardinality(s) \in Nat /\ Cardinality(s) <= N
  BY <1>5, FS_Subset, FS_CardinalityType DEF N
<1>7. g[0] = kids /\ \A n \in Nat : g[n + 1] = next(g[n])
  <2> HIDE DEF kids, next
  <2>1. \A n \in Nat : n + 1 # 0 /\ (n + 1) - 1 = n /\ n + 1 \in Nat
    OBVIOUS
  <2> QED
    BY <1>3, <2>1
<1> HIDE DEF kids, next
<1>8. \A n \in Nat : g[n] \in SUBSET rows
  <2> DEFINE H == {n \in Nat : g[n] \in SUBSET rows}
  <2>1. 0 \in H /\ \A n \in Nat : n \in H => n + 1 \in H
    BY <1>4, <1>7
  <2>2. \A n \in Nat : n \in H
    <3> HIDE DEF H
    <3> QED
      BY <2>1, NumberInduction
  <2> QED
    BY <2>2
<1>9. \A n \in Nat : kids \subseteq g[n]
  <2> DEFINE H == {n \in Nat : kids \subseteq g[n]}
  <2>1. 0 \in H
    BY <1>7
  <2>2. \A n \in Nat : n \in H => n + 1 \in H
    BY <1>4, <1>7
  <2>3. \A n \in Nat : n \in H
    <3> HIDE DEF H
    <3> QED
      BY <2>1, <2>2, NumberInduction
  <2> QED
    BY <2>3
\* A level that adds nothing ends it, and one that adds something adds one.
<1>10. \A n \in Nat : next(g[n]) = g[n] \/ Cardinality(g[n]) >= n + 1
  <2> DEFINE H == {n \in Nat : next(g[n]) = g[n] \/ Cardinality(g[n]) >= n + 1}
  <2>1. 0 \in H
    <3>1. CASE g[0] = {}
      <4>1. next({}) = {}
        BY <1>7, <3>1 DEF next, kids
      <4> QED
        BY <3>1, <4>1
    <3>2. CASE g[0] # {}
      <4>1. IsFiniteSet(g[0]) /\ Cardinality(g[0]) \in Nat
        BY <1>6, <1>8
      <4>2. Cardinality(g[0]) # 0
        BY <3>2, <4>1, FS_EmptySet
      <4>3. Cardinality(g[0]) >= 0 + 1
        BY <4>1, <4>2
      <4> QED
        BY <4>3
    <3> QED
      BY <3>1, <3>2
  <2>2. ASSUME NEW n \in Nat, n \in H
        PROVE  n + 1 \in H
    <3>1. g[n + 1] = next(g[n]) /\ n + 1 \in Nat
      BY <1>7
    <3>2. CASE next(g[n]) = g[n]
      <4>1. next(g[n + 1]) = g[n + 1]
        BY <3>1, <3>2
      <4> QED
        BY <3>1, <4>1
    <3>3. CASE next(g[n]) # g[n]
      <4>1. Cardinality(g[n]) >= n + 1
        BY <2>2, <3>3
      <4>2. g[n] \subseteq g[n + 1] /\ g[n] # g[n + 1]
        BY <1>4, <3>1, <3>3
      <4>3. /\ IsFiniteSet(g[n + 1]) /\ Cardinality(g[n + 1]) \in Nat
            /\ Cardinality(g[n]) \in Nat
        BY <1>6, <1>8, <3>1
      <4>4. /\ Cardinality(g[n]) <= Cardinality(g[n + 1])
            /\ Cardinality(g[n]) = Cardinality(g[n + 1]) => g[n] = g[n + 1]
        BY <4>2, <4>3, FS_Subset
      <4>5. Cardinality(g[n + 1]) >= (n + 1) + 1
        BY <4>1, <4>2, <4>3, <4>4
      <4> QED
        BY <3>1, <4>5
    <3> QED
      BY <3>2, <3>3
  <2>3. \A n \in Nat : n \in H
    <3> HIDE DEF H
    <3> QED
      BY <2>1, <2>2, NumberInduction
  <2> QED
    BY <2>3
<1>11. next(g[N]) = g[N]
  <2>1. Cardinality(g[N]) \in Nat /\ Cardinality(g[N]) <= N
    BY <1>5, <1>6, <1>8
  <2>2. ~(Cardinality(g[N]) >= N + 1)
    BY <1>5, <2>1
  <2> QED
    BY <1>5, <1>10, <2>2
<1>12. ASSUME NEW S, \A d \in rows : up[d] = c => d \in S,
              \A d \in rows : up[d] \in S => d \in S
       PROVE  g[N] \subseteq S
  <2> DEFINE H == {n \in Nat : g[n] \subseteq S}
  <2>1. 0 \in H
    BY <1>7, <1>12 DEF kids
  <2>2. ASSUME NEW n \in Nat, n \in H
        PROVE  n + 1 \in H
    <3>1. next(g[n]) \subseteq S
      BY <1>12, <2>2 DEF next
    <3> QED
      BY <1>7, <3>1
  <2>3. \A n \in Nat : n \in H
    <3> HIDE DEF H
    <3> QED
      BY <2>1, <2>2, NumberInduction
  <2> QED
    BY <1>5, <2>3
<1>13. /\ g[N] \subseteq rows
       /\ \A d \in rows : up[d] = c => d \in g[N]
       /\ \A d \in rows : up[d] \in g[N] => d \in g[N]
  BY <1>4, <1>5, <1>8, <1>9, <1>11
<1> QED
  BY <1>2, <1>12, <1>13

-----------------------------------------------------------------------------
(* The tree: what a move, a new category and a deletion leave.             *)

Forest(rows, up) == \A c \in rows : c \notin Under(rows, up, c)

\* What is under something under a category is under that category.
LEMMA UnderUnder ==
  ASSUME NEW rows \in SUBSET Categories, NEW up, NEW c, NEW d \in Under(rows, up, c)
  PROVE  Under(rows, up, d) \subseteq Under(rows, up, c)
<1>1. d \in rows /\ \A e \in rows : up[e] \in Under(rows, up, c) => e \in Under(rows, up, c)
  BY UnderIsLeast
<1>2. \A e \in rows : up[e] = d => e \in Under(rows, up, c)
  BY <1>1
<1> QED
  BY <1>1, <1>2, UnderIsLeast

\* A category moved to one that is not itself and not under it closes no cycle.
LEMMA MoveKeepsForest ==
  ASSUME NEW rows \in SUBSET Categories, NEW up, NEW new, NEW c \in rows, NEW p,
         Forest(rows, up), p # c, p \notin Under(rows, up, c),
         new[c] = p, \A d \in rows : d # c => new[d] = up[d]
  PROVE  Forest(rows, new)
<1> DEFINE U(d) == Under(rows, up, d)  V(d) == Under(rows, new, d)  S == U(c) \union {c}
<1>1. /\ \A d \in rows : d \notin U(d)
      /\ p \notin S
  BY DEF Forest
<1>2. \A d : U(d) \subseteq rows /\ \A e \in rows : up[e] = d \/ up[e] \in U(d) => e \in U(d)
  BY UnderIsLeast
<1>3. \A d : \A T : /\ \A e \in rows : new[e] = d => e \in T
                    /\ \A e \in rows : new[e] \in T => e \in T
                    => V(d) \subseteq T
  BY UnderIsLeast
<1>4. \A d \in U(c) : U(d) \subseteq U(c)
  BY UnderUnder
<1> HIDE DEF U, V
\* Of what was under c, nothing gets more under it.
<1>5. ASSUME NEW d \in S
      PROVE  V(d) \subseteq U(d)
  <2>1. U(d) \subseteq U(c)
    BY <1>4
  <2>2. ASSUME NEW e \in rows, new[e] = d \/ new[e] \in U(d)
        PROVE  e \in U(d)
    <3>1. new[e] \in S
      BY <2>1, <2>2
    <3>2. e # c
      BY <1>1, <3>1
    <3>3. new[e] = up[e]
      BY <3>2
    <3> QED
      BY <1>2, <2>2, <3>3
  <2> QED
    BY <1>3, <2>2
\* Anything else gets c, and what is under c, at most.
<1>6. ASSUME NEW d \in rows, d \notin S
      PROVE  V(d) \subseteq U(d) \union S
  <2>1. ASSUME NEW e \in rows, new[e] = d \/ new[e] \in U(d) \union S
        PROVE  e \in U(d) \union S
    <3>1. CASE e = c
      BY <3>1
    <3>2. CASE e # c
      <4>1. new[e] = up[e]
        BY <3>2
      <4>2. CASE up[e] = d \/ up[e] \in U(d)
        BY <1>2, <4>2
      <4>3. CASE up[e] \in S
        BY <1>2, <4>3
      <4> QED
        BY <2>1, <4>1, <4>2, <4>3
    <3> QED
      BY <3>1, <3>2
  <2> HIDE DEF S
  <2> QED
    BY <1>3, <2>1
<1>7. ASSUME NEW d \in rows
      PROVE  d \notin V(d)
  BY <1>1, <1>5, <1>6
<1> QED
  BY <1>7 DEF Forest, V

\* A new category has nothing under it.
LEMMA CreationKeepsForest ==
  ASSUME NEW rows \in SUBSET Categories, NEW up, NEW new, NEW c \in Categories, c \notin rows,
         Forest(rows, up), \A d \in rows : up[d] # c,
         new[c] # c, \A d \in rows : new[d] = up[d]
  PROVE  Forest(rows \union {c}, new)
<1> DEFINE all == rows \union {c}
           U(d) == Under(rows, up, d)  V(d) == Under(all, new, d)
<1>1. \A d \in rows : d \notin U(d)
  BY DEF Forest
<1>2. \A d : U(d) \subseteq rows /\ \A e \in rows : up[e] = d \/ up[e] \in U(d) => e \in U(d)
  BY UnderIsLeast
<1>3. \A d : \A T : /\ \A e \in all : new[e] = d => e \in T
                    /\ \A e \in all : new[e] \in T => e \in T
                    => V(d) \subseteq T
  <2>1. all \in SUBSET Categories
    OBVIOUS
  <2> HIDE DEF all
  <2> QED
    BY <2>1, UnderIsLeast
<1> HIDE DEF U, V
<1>4. V(c) \subseteq {}
  <2> DEFINE T == {}
  <2>1. /\ \A e \in all : new[e] = c => e \in T
        /\ \A e \in all : new[e] \in T => e \in T
    OBVIOUS
  <2> HIDE DEF all, T
  <2>2. V(c) \subseteq T
    BY <1>3, <2>1
  <2> QED
    BY <2>2 DEF T
<1>5. ASSUME NEW d \in rows
      PROVE  V(d) \subseteq U(d) \union {c}
  <2>1. ASSUME NEW e \in all, new[e] = d \/ new[e] \in U(d) \union {c}
        PROVE  e \in U(d) \union {c}
    <3>1. CASE e = c
      BY <3>1
    <3>2. CASE e # c
      <4>1. e \in rows /\ new[e] = up[e] /\ up[e] # c
        BY <3>2
      <4> QED
        BY <1>2, <2>1, <4>1
    <3> QED
      BY <3>1, <3>2
  <2> HIDE DEF all
  <2> QED
    BY <1>3, <2>1
<1>6. ASSUME NEW d \in all
      PROVE  d \notin V(d)
  BY <1>1, <1>4, <1>5
<1> QED
  BY <1>6 DEF Forest, V

\* Nor does a deletion put anything under a category.
LEMMA DeletionKeepsForest ==
  ASSUME NEW rows \in SUBSET Categories, NEW up, NEW new, NEW c,
         Forest(rows, up), \A d \in rows : d # c => new[d] = up[d]
  PROVE  Forest(rows \ {c}, new)
<1> DEFINE left == rows \ {c}
           U(d) == Under(rows, up, d)  V(d) == Under(left, new, d)
<1>1. \A d \in rows : d \notin U(d)
  BY DEF Forest
<1>2. \A d : \A e \in rows : up[e] = d \/ up[e] \in U(d) => e \in U(d)
  BY UnderIsLeast
<1>3. \A d : \A T : /\ \A e \in left : new[e] = d => e \in T
                    /\ \A e \in left : new[e] \in T => e \in T
                    => V(d) \subseteq T
  BY UnderIsLeast
<1> HIDE DEF U, V
<1>4. ASSUME NEW d \in left
      PROVE  V(d) \subseteq U(d)
  <2>1. \A e \in left : new[e] = d \/ new[e] \in U(d) => e \in U(d)
    BY <1>2
  <2> QED
    BY <1>3, <2>1
<1>5. \A d \in left : d \notin V(d)
  BY <1>1, <1>4
<1> QED
  BY <1>5 DEF Forest, V

-----------------------------------------------------------------------------
(* One request after another: two that are in flight about one thing are   *)
(* remembered.                                                             *)

Flying(r) == req[r].pc \notin {"new", "done"}

TurnInv ==
  \A q, r \in Requests :
    q # r /\ Flying(q) /\ Flying(r) /\ req[q].on = req[r].on => req[r].on \in overlapped

\* Every step of a request takes it up or moves it on.
Proceeds(r) ==
  \/ \E kind, on, arg, saw : Begin(r, kind, on, arg, saw)
  \/ Flying(r) /\ \E pc, saw : Goes(r, pc, saw)

\* Work on a product carries on one request and starts none.
LEMMA ProductProceeds ==
  ASSUME NEW r \in Requests,
         StatusWork(r) \/ VariantWork(r) \/ GalleryWork(r) \/ RequirementWork(r)
  PROVE  Proceeds(r)
<1> USE DEF Proceeds, Ends, At, Flying
<1>1. CASE StatusWork(r)
  BY <1>1 DEF StatusWork, CheckStatus, ReadStamp, WriteStatus
<1>2. CASE VariantWork(r)
  BY <1>2 DEF VariantWork, CheckNewVariant, CheckEdit, WriteVariant, CommitVariant
<1>3. CASE GalleryWork(r)
  <2>1. CASE \E i \in Images : CheckUpload(r, i)
    BY <2>1 DEF CheckUpload
  <2>2. CASE StoreFile(r) \/ CountImages(r) \/ CreateImage(r)
    BY <2>2 DEF StoreFile, CountImages, CreateImage
  <2>3. CASE \E order \in [Gallery -> 0..Cardinality(Images)] : CheckReorder(r, order)
    BY <2>3 DEF CheckReorder
  <2>4. CASE \E i \in Images, kind \in {"primary", "delete"} : CheckImage(r, kind, i)
    BY <2>4 DEF CheckImage
  <2>5. CASE ReorderImages(r) \/ SetPrimaryImage(r) \/ RemoveFile(r)
    BY <2>5 DEF ReorderImages, SetPrimaryImage, RemoveFile
  <2>6. CASE DeleteImage(r)
    BY <2>6 DEF DeleteImage
  <2> QED
    BY <1>3, <2>1, <2>2, <2>3, <2>4, <2>5, <2>6 DEF GalleryWork
<1>4. CASE RequirementWork(r)
  BY <1>4 DEF RequirementWork, CheckRequirements, DeleteRequirements, InsertRequirements
<1> QED
  BY <1>1, <1>2, <1>3, <1>4

\* So does work on the tree, a banner or a voucher.
LEMMA ReferencesProceed ==
  ASSUME NEW r \in Requests, TreeWork(r) \/ BannerWork(r) \/ VoucherWork(r)
  PROVE  Proceeds(r)
<1> USE DEF Proceeds, Ends, At, Flying
<1>1. CASE TreeWork(r)
  BY <1>1 DEF TreeWork, CheckCreate, CheckMove, CheckDelete, CreateCategory, UpdateCategory,
              DeleteCategory
<1>2. CASE BannerWork(r)
  <2>1. CASE UpdateBanner(r)
    BY <2>1 DEF UpdateBanner
  <2>2. CASE RemoveBanner(r)
    BY <2>2 DEF RemoveBanner
  <2> QED
    BY <1>2, <2>1, <2>2
    DEF BannerWork, CheckNewBanner, CreateBanner, CheckBanner, CheckRemoveBanner, RemovePicture
<1>3. CASE VoucherWork(r)
  BY <1>3 DEF VoucherWork, CheckNewVoucher, CreateVoucher, CheckVoucher, UpdateVoucher,
              CheckRemoveVoucher, RemoveVoucher
<1> QED
  BY <1>1, <1>2, <1>3

\* A request takes its turn, or the overlap is recorded, and never forgotten.
LEMMA TurnStep ==
  ASSUME ReqOK, TurnInv, [Next]_vars
  PROVE  TurnInv' /\ overlapped \subseteq overlapped'
<1>1. UNCHANGED deskVars \/ \E r \in Requests : Proceeds(r)
  <2>1. CASE UNCHANGED vars
    BY <2>1 DEF vars
  <2>2. CASE \E p \in Pictures : UploadBanner(p)
    BY <2>2 DEF UploadBanner
  <2>3. CASE Redeem
    BY <2>3 DEF Redeem
  <2>4. ASSUME NEW r \in Requests, Crash(r)
        PROVE  Proceeds(r)
    BY <2>4 DEF Crash, Ends, Proceeds, Flying
  <2> QED
    BY <2>1, <2>2, <2>3, <2>4, ProductProceeds, ReferencesProceed DEF Next
<1>2. CASE UNCHANGED deskVars
  BY <1>2 DEF TurnInv, Flying, deskVars
<1>3. ASSUME NEW r \in Requests, NEW kind, NEW on, NEW arg, NEW saw, Begin(r, kind, on, arg, saw)
      PROVE  TurnInv' /\ overlapped \subseteq overlapped'
  <2>1. /\ Touches(r, {kind}) /\ req'[r].on = on /\ req[r].pc = "new"
        /\ overlapped' = IF InFlight(on) = {} THEN overlapped ELSE overlapped \union {on}
    <3>1. Touches(r, {kind}) /\ req'[r].on = on
      BY <1>3, BeginStep
    <3> QED
      BY <1>3, <3>1 DEF Begin
  <2>2. \A q \in Requests \ {r} : req'[q] = req[q]
    BY <2>1 DEF Touches
  <2>3. ASSUME NEW q \in Requests \ {r}, Flying(q), req[q].on = on
        PROVE  on \in overlapped'
    <3>1. q \in InFlight(on)
      BY <2>3 DEF InFlight, Flying
    <3> QED
      BY <2>1, <3>1
  <2>4. overlapped \subseteq overlapped'
    BY <2>1
  <2> QED
    BY <2>1, <2>2, <2>3, <2>4 DEF TurnInv, Flying
<1>4. ASSUME NEW r \in Requests, NEW pc, NEW saw, Flying(r), Goes(r, pc, saw)
      PROVE  TurnInv' /\ overlapped \subseteq overlapped'
  <2>1. Touches(r, {req[r].kind}) /\ req'[r].on = req[r].on /\ overlapped' = overlapped
    BY <1>4, GoesStep DEF Goes
  <2>2. \A q \in Requests : req'[q].on = req[q].on /\ (Flying(q)' => Flying(q))
    BY <1>4, <2>1 DEF Touches, Flying
  <2> QED
    BY <2>1, <2>2 DEF TurnInv
<1> QED
  BY <1>1, <1>2, <1>3, <1>4 DEF Proceeds

-----------------------------------------------------------------------------
(* The category tree, whoever writes it.                                   *)

Creating(r) == At(r, "create", "checked")
Moving(r) == At(r, "move", "checked")
Deleting(r) == At(r, "remove", "checked")

\* A parent that was found for a category of this type keeps its type; it may
\* be deleted meanwhile, and its id is not given out again.
Fits(p, type) == p # None => p \in Rows \union gone /\ (p \in Rows => typeOf[p] = type)

CreateOK(r) ==
  /\ req[r].on = "tree"
  /\ req[r].arg.of \in Categories \ (Rows \union gone) /\ req[r].arg.type # None
  /\ Fits(req[r].arg.parent, req[r].arg.type)

MoveOK(r) ==
  /\ req[r].on = "tree"
  /\ req[r].arg.of \in Rows \union gone
  /\ req[r].arg.of \in Rows => typeOf[req[r].arg.of] = req[r].arg.type
  /\ Fits(req[r].arg.parent, req[r].arg.type)

DeleteOK(r) == req[r].on = "tree" /\ req[r].arg \in Rows \union gone

TreeInv ==
  /\ ReqOK
  /\ typeOf = [c \in Categories |-> typeOf[c]] /\ parent = [c \in Categories |-> parent[c]]
  /\ gone \intersect Rows = {}
  /\ OneTreePerType
  /\ \A r \in Requests : Creating(r) => CreateOK(r)
  /\ \A r \in Requests : Moving(r) => MoveOK(r)
  /\ \A r \in Requests : Deleting(r) => DeleteOK(r)
  /\ \A q, r \in Requests : q # r /\ Creating(q) /\ Creating(r) => req[q].arg.of # req[r].arg.of

\* Checked: the parent of a move is another category, and not one from under it.
Above(r) ==
  /\ req[r].arg.parent # req[r].arg.of
  /\ req[r].arg.parent \notin Under(Rows, parent, req[r].arg.of)

\* In turn, what a move was checked against is still there when it is made.
ForestInv ==
  "tree" \notin overlapped =>
    Forest(Rows, parent) /\ \A r \in Requests : Moving(r) => Above(r)

\* A step that leaves the tree alone, as far as its own request is in order.
LEMMA TreeIdle ==
  ASSUME TreeInv, NEW r \in Requests, NEW kinds, Touches(r, kinds), UNCHANGED treeVars,
         Creating(r)' => /\ CreateOK(r)'
                         /\ \A q \in Requests \ {r} : Creating(q) => req[q].arg.of # req'[r].arg.of,
         Moving(r)' => MoveOK(r)', Deleting(r)' => DeleteOK(r)'
  PROVE  TreeInv'
<1>1. typeOf' = typeOf /\ parent' = parent /\ gone' = gone /\ Rows' = Rows
  BY DEF treeVars, Rows
<1>2. \A q \in Requests \ {r} : req'[q] = req[q]
  BY DEF Touches
<1>3. OneTreePerType'
  BY <1>1 DEF TreeInv, OneTreePerType
<1>4. ASSUME NEW q \in Requests \ {r}
      PROVE  /\ Creating(q)' = Creating(q) /\ CreateOK(q)' = CreateOK(q)
             /\ Moving(q)' = Moving(q) /\ MoveOK(q)' = MoveOK(q)
             /\ Deleting(q)' = Deleting(q) /\ DeleteOK(q)' = DeleteOK(q)
  BY <1>1, <1>2, Zenon DEF Creating, CreateOK, Moving, MoveOK, Deleting, DeleteOK, At, Fits
<1>5. /\ \A q \in Requests : Creating(q)' => CreateOK(q)'
      /\ \A q \in Requests : Moving(q)' => MoveOK(q)'
      /\ \A q \in Requests : Deleting(q)' => DeleteOK(q)'
  BY <1>4 DEF TreeInv
<1>6. ASSUME NEW q \in Requests, NEW s \in Requests, q # s, Creating(q)', Creating(s)'
      PROVE  req'[q].arg.of # req'[s].arg.of
  BY <1>2, <1>4, <1>6 DEF TreeInv
<1> QED
  BY <1>1, <1>3, <1>5, <1>6 DEF TreeInv, Touches

\* A step that leaves the categories alone leaves the forest.
LEMMA ForestIdle ==
  ASSUME ForestInv, NEW r \in Requests, NEW kinds, Touches(r, kinds), UNCHANGED treeVars,
         overlapped \subseteq overlapped', Moving(r)' => Above(r)' \/ "tree" \in overlapped'
  PROVE  ForestInv'
<1>1. parent' = parent /\ Rows' = Rows
  BY DEF treeVars, Rows
<1>2. \A q \in Requests \ {r} : req'[q] = req[q]
  BY DEF Touches
<1>3. ASSUME NEW q \in Requests \ {r}
      PROVE  Moving(q)' = Moving(q) /\ Above(q)' = Above(q)
  BY <1>1, <1>2, Zenon DEF Moving, Above, At
<1>4. Forest(Rows, parent)' = Forest(Rows, parent)
  BY <1>1 DEF Forest, Under, Levels
<1> QED
  BY <1>3, <1>4 DEF ForestInv

\* Work on anything else.
LEMMA TreeElsewhere ==
  ASSUME TreeInv, ForestInv, NEW r \in Requests, NEW kinds, Touches(r, kinds), UNCHANGED treeVars,
         overlapped \subseteq overlapped',
         kinds \intersect {"create", "move", "remove"} = {} \/ req'[r].pc = "done"
  PROVE  TreeInv' /\ ForestInv'
<1>1. ~Creating(r)' /\ ~Moving(r)' /\ ~Deleting(r)'
  BY DEF Touches, Creating, Moving, Deleting, At
<1> QED
  BY <1>1, TreeIdle, ForestIdle

\* A parent that is compatible fits, and is not from under the category.
LEMMA CompatibleFits ==
  ASSUME NEW p, NEW type, NEW self, ParentIsCompatible(p, type, self)
  PROVE  /\ Fits(p, type)
         /\ self # None /\ self \in Rows => p # self /\ p \notin Under(Rows, parent, self)
<1>1. Fits(p, type)
  BY DEF ParentIsCompatible, Fits
<1>2. ASSUME self # None, self \in Rows
      PROVE  p # self /\ p \notin Under(Rows, parent, self)
  <2>1. CASE p = None
    <3>1. p \notin Categories /\ Rows \in SUBSET Categories
      BY <2>1, CategoriesAssumption DEF Rows
    <3>2. Under(Rows, parent, self) \subseteq Rows
      BY <3>1, UnderIsLeast
    <3> QED
      BY <1>2, <2>1, <3>1, <3>2
  <2>2. CASE p # None
    BY <1>2, <2>2, DescendantsAreUnder DEF ParentIsCompatible
  <2> QED
    BY <2>1, <2>2
<1> QED
  BY <1>1, <1>2

\* The checks.
LEMMA TreeChecks ==
  ASSUME TreeInv, ForestInv, overlapped \subseteq overlapped', NEW r \in Requests,
         \/ \E c \in Categories, type \in CategoryTypes, p \in Categories \union {None} :
              CheckCreate(r, c, type, p)
         \/ \E c \in Categories, p \in Categories \union {None} : CheckMove(r, c, p)
         \/ \E c \in Categories : CheckDelete(r, c)
  PROVE  TreeInv' /\ ForestInv'
<1>0. ReqOK
  BY DEF TreeInv
<1>1. ASSUME NEW c \in Categories, NEW type \in CategoryTypes, NEW p, CheckCreate(r, c, type, p)
      PROVE  TreeInv' /\ ForestInv'
  <2> DEFINE a == [of |-> c, type |-> type, parent |-> p]
  <2>1. /\ Begin(r, "create", "tree", a, None) /\ UNCHANGED treeVars
        /\ c \notin Rows \union gone /\ Fits(p, type)
        /\ \A q \in Requests : Creating(q) => req[q].arg.of # c
    BY <1>1, CompatibleFits DEF CheckCreate, Creating
  <2>2. a.of = c /\ a.type = type /\ a.parent = p /\ type # None
    BY CategoriesAssumption
  <2> HIDE DEF a
  <2>3. /\ Touches(r, {"create"}) /\ req'[r].kind = "create"
        /\ req'[r].on = "tree" /\ req'[r].arg = a
    BY <1>0, <2>1, BeginStep
  <2>4. Rows' = Rows /\ gone' = gone /\ typeOf' = typeOf
    BY <2>1 DEF treeVars, Rows
  <2>5. CreateOK(r)' /\ \A q \in Requests \ {r} : Creating(q) => req[q].arg.of # req'[r].arg.of
    BY <2>1, <2>2, <2>3, <2>4 DEF CreateOK, Fits
  <2>6. ~Moving(r)' /\ ~Deleting(r)'
    BY <2>3 DEF Moving, Deleting, At
  <2> QED
    BY <2>1, <2>3, <2>5, <2>6, TreeIdle, ForestIdle
<1>2. ASSUME NEW c \in Categories, NEW p, CheckMove(r, c, p)
      PROVE  TreeInv' /\ ForestInv'
  <2> DEFINE a == [of |-> c, type |-> typeOf[c], parent |-> p]
  <2>1. /\ Begin(r, "move", "tree", a, None) /\ UNCHANGED treeVars
        /\ c \in Rows /\ c # None /\ Fits(p, typeOf[c])
        /\ p # c /\ p \notin Under(Rows, parent, c)
    BY <1>2, CompatibleFits, CategoriesAssumption DEF CheckMove
  <2>2. a.of = c /\ a.type = typeOf[c] /\ a.parent = p
    OBVIOUS
  <2> HIDE DEF a
  <2>3. /\ Touches(r, {"move"}) /\ req'[r].kind = "move"
        /\ req'[r].on = "tree" /\ req'[r].arg = a
    BY <1>0, <2>1, BeginStep
  <2>4. Rows' = Rows /\ gone' = gone /\ typeOf' = typeOf /\ parent' = parent
    BY <2>1 DEF treeVars, Rows
  <2>5. MoveOK(r)'
    BY <2>1, <2>2, <2>3, <2>4 DEF MoveOK, Fits
  <2>6. ~Creating(r)' /\ ~Deleting(r)'
    BY <2>3 DEF Creating, Deleting, At
  <2>7. Above(r)'
    BY <2>1, <2>2, <2>3, <2>4, Zenon DEF Above
  <2> QED
    BY <2>1, <2>3, <2>5, <2>6, <2>7, TreeIdle, ForestIdle
<1>3. ASSUME NEW c \in Categories, CheckDelete(r, c)
      PROVE  TreeInv' /\ ForestInv'
  <2>1. Begin(r, "remove", "tree", c, None) /\ UNCHANGED treeVars /\ c \in Rows
    BY <1>3 DEF CheckDelete
  <2>2. /\ Touches(r, {"remove"}) /\ req'[r].kind = "remove"
        /\ req'[r].on = "tree" /\ req'[r].arg = c
    BY <1>0, <2>1, BeginStep
  <2>3. Rows' = Rows
    BY <2>1 DEF treeVars, Rows
  <2>4. DeleteOK(r)' /\ ~Creating(r)' /\ ~Moving(r)'
    BY <2>1, <2>2, <2>3 DEF DeleteOK, Creating, Moving, At
  <2> QED
    BY <2>1, <2>2, <2>4, TreeIdle, ForestIdle
<1> QED
  BY <1>1, <1>2, <1>3

\* A request that has written the tree is done, and those that were in flight
\* with it are remembered.
LEMMA WriterEnds ==
  ASSUME TreeInv, TurnInv, overlapped \subseteq overlapped', NEW r \in Requests, Ends(r),
         Creating(r) \/ Moving(r) \/ Deleting(r)
  PROVE  /\ ReqOK' /\ ~Creating(r)' /\ ~Moving(r)' /\ ~Deleting(r)'
         /\ \A q \in Requests \ {r} : req'[q] = req[q]
         /\ \A q \in Requests \ {r} :
              /\ Creating(q)' = Creating(q) /\ Moving(q)' = Moving(q) /\ Deleting(q)' = Deleting(q)
         /\ "tree" \notin overlapped' => \A q \in Requests : ~Moving(q)'
<1>1. Touches(r, {req[r].kind}) /\ req'[r].pc = "done"
  BY EndsStep DEF TreeInv
<1>2. \A q \in Requests \ {r} : req'[q] = req[q]
  BY <1>1 DEF Touches
<1>3. ~Creating(r)' /\ ~Moving(r)' /\ ~Deleting(r)'
  BY <1>1 DEF Creating, Moving, Deleting, At
<1>4. ASSUME NEW q \in Requests \ {r}
      PROVE  Creating(q)' = Creating(q) /\ Moving(q)' = Moving(q) /\ Deleting(q)' = Deleting(q)
  BY <1>2, Zenon DEF Creating, Moving, Deleting, At
<1>5. ASSUME "tree" \notin overlapped', NEW q \in Requests, Moving(q)'
      PROVE  FALSE
  <2>1. q # r /\ Moving(q)
    BY <1>3, <1>4, <1>5
  <2>2. req[q].on = "tree" /\ req[r].on = "tree"
    BY <2>1 DEF TreeInv, CreateOK, MoveOK, DeleteOK
  <2>3. Flying(q) /\ Flying(r)
    BY <2>1 DEF Creating, Moving, Deleting, At, Flying
  <2> QED
    BY <1>5, <2>1, <2>2, <2>3 DEF TurnInv
<1> QED
  BY <1>1, <1>2, <1>3, <1>4, <1>5 DEF Touches

\* What was checked stands, whatever comes into the tree and goes out of it.
LEMMA ChecksStand ==
  ASSUME TreeInv, NEW q \in Requests, req'[q] = req[q],
         \A c \in Rows' : c \in Rows => typeOf'[c] = typeOf[c],
         Rows \union gone \subseteq Rows' \union gone',
         \A c \in Rows \union gone : c \in Rows' => c \in Rows
  PROVE  /\ Moving(q) => MoveOK(q)'
         /\ Deleting(q) => DeleteOK(q)'
         /\ Creating(q) /\ req[q].arg.of \notin Rows' \union gone' => CreateOK(q)'
<1>1. ASSUME NEW p, NEW type, Fits(p, type)
      PROVE  Fits(p, type)'
  BY <1>1 DEF Fits
<1>2. ASSUME Moving(q)
      PROVE  MoveOK(q)'
  <2>1. MoveOK(q)
    BY <1>2 DEF TreeInv
  <2>2. Fits(req[q].arg.parent, req[q].arg.type)'
    BY <1>1, <2>1 DEF MoveOK, Fits
  <2> QED
    BY <2>1, <2>2 DEF MoveOK
<1>3. ASSUME Creating(q), req[q].arg.of \notin Rows' \union gone'
      PROVE  CreateOK(q)'
  <2>1. CreateOK(q)
    BY <1>3 DEF TreeInv
  <2>2. Fits(req[q].arg.parent, req[q].arg.type)'
    BY <1>1, <2>1 DEF CreateOK, Fits
  <2> QED
    BY <1>3, <2>1, <2>2 DEF CreateOK
<1>4. Deleting(q) => DeleteOK(q)'
  BY DEF TreeInv, DeleteOK
<1> QED
  BY <1>2, <1>3, <1>4

\* A new category hangs under a parent of its type and has nothing under it.
LEMMA CategoryCreated ==
  ASSUME TreeInv, ForestInv, TurnInv, overlapped \subseteq overlapped', NEW r \in Requests,
         CreateCategory(r)
  PROVE  TreeInv' /\ ForestInv'
<1> DEFINE a == req[r].arg  c == a.of  p == a.parent
<1>1. Creating(r) /\ Ends(r) /\ gone' = gone
  BY DEF CreateCategory, Creating
<1>2. /\ ReqOK' /\ ~Creating(r)' /\ ~Moving(r)' /\ ~Deleting(r)'
      /\ \A q \in Requests \ {r} : req'[q] = req[q]
      /\ \A q \in Requests \ {r} :
           /\ Creating(q)' = Creating(q) /\ Moving(q)' = Moving(q) /\ Deleting(q)' = Deleting(q)
      /\ "tree" \notin overlapped' => \A q \in Requests : ~Moving(q)'
  BY <1>1, WriterEnds
<1>3. CASE ~(p = None \/ p \in Rows)
  <2>1. UNCHANGED treeVars
    BY <1>3 DEF CreateCategory, treeVars
  <2>2. Touches(r, {req[r].kind}) /\ req'[r].pc = "done"
    BY <1>1, EndsStep DEF TreeInv
  <2> QED
    BY <2>1, <2>2, TreeElsewhere
<1>4. CASE p = None \/ p \in Rows
  <2>1. typeOf' = [typeOf EXCEPT ![c] = a.type] /\ parent' = [parent EXCEPT ![c] = p]
    BY <1>4 DEF CreateCategory
  <2>2. c \in Categories /\ c \notin Rows /\ c \notin gone /\ a.type # None /\ Fits(p, a.type)
    BY <1>1 DEF TreeInv, CreateOK
  <2>3. \A q \in Requests \ {r} : Creating(q) => req[q].arg.of # c
    BY <1>1 DEF TreeInv
  <2> HIDE DEF a, c, p
  <2>4. /\ typeOf = [d \in Categories |-> typeOf[d]] /\ parent = [d \in Categories |-> parent[d]]
        /\ OneTreePerType /\ gone \intersect Rows = {} /\ Rows \in SUBSET Categories
    BY DEF TreeInv, Rows
  <2>5. /\ typeOf' = [d \in Categories |-> typeOf'[d]] /\ parent' = [d \in Categories |-> parent'[d]]
        /\ typeOf'[c] = a.type /\ parent'[c] = p
        /\ \A d \in Categories : d # c => typeOf'[d] = typeOf[d] /\ parent'[d] = parent[d]
    BY <2>1, <2>2, <2>4
  <2>6. Rows' = Rows \union {c}
    BY <2>2, <2>5 DEF Rows
  <2>7. /\ \A d \in Rows : parent[d] # c
        /\ p # c
    BY <1>4, <2>2, <2>4, CategoriesAssumption DEF OneTreePerType
  <2>8. OneTreePerType'
    <3>1. p # None => p \in Rows /\ typeOf[p] = a.type
      BY <1>4, <2>2 DEF Fits
    <3>2. ASSUME NEW d \in Rows', parent'[d] # None
          PROVE  parent'[d] \in Rows' /\ typeOf'[parent'[d]] = typeOf'[d]
      <4>1. CASE d = c
        BY <2>4, <2>5, <2>6, <2>7, <3>1, <3>2, <4>1
      <4>2. CASE d # c
        <5>1. d \in Rows /\ parent'[d] = parent[d] /\ typeOf'[d] = typeOf[d]
          BY <2>4, <2>5, <2>6, <4>2
        <5>2. parent[d] \in Rows /\ typeOf[parent[d]] = typeOf[d] /\ parent[d] # c
          BY <2>4, <2>7, <3>2, <5>1 DEF OneTreePerType
        <5> QED
          BY <2>4, <2>5, <2>6, <5>1, <5>2
      <4> QED
        BY <4>1, <4>2
    <3> QED
      BY <3>2 DEF OneTreePerType
  <2>9. /\ \A d \in Rows' : d \in Rows => typeOf'[d] = typeOf[d]
        /\ Rows \union gone \subseteq Rows' \union gone'
        /\ \A d \in Rows \union gone : d \in Rows' => d \in Rows
    BY <1>1, <2>2, <2>4, <2>5, <2>6
  <2>10. ASSUME NEW q \in Requests \ {r}
         PROVE  /\ Creating(q)' => CreateOK(q)'
                /\ Moving(q)' => MoveOK(q)'
                /\ Deleting(q)' => DeleteOK(q)'
    <3>1. Creating(q) => req[q].arg.of \notin Rows' \union gone'
      BY <1>1, <2>3, <2>6 DEF TreeInv, CreateOK
    <3> QED
      BY <1>2, <2>9, <3>1, ChecksStand
  <2>11. ASSUME NEW q \in Requests, NEW s \in Requests, q # s, Creating(q)', Creating(s)'
         PROVE  req'[q].arg.of # req'[s].arg.of
    BY <1>2, <2>11 DEF TreeInv
  <2>12. gone' \intersect Rows' = {}
    BY <1>1, <2>2, <2>4, <2>6
  <2>13. TreeInv'
    <3>1. /\ \A q \in Requests : Creating(q)' => CreateOK(q)'
          /\ \A q \in Requests : Moving(q)' => MoveOK(q)'
          /\ \A q \in Requests : Deleting(q)' => DeleteOK(q)'
      BY <1>2, <2>10
    <3>2. \A q, s \in Requests :
            q # s /\ Creating(q)' /\ Creating(s)' => req'[q].arg.of # req'[s].arg.of
      BY <2>11
    <3> QED
      BY <1>2, <2>5, <2>8, <2>12, <3>1, <3>2 DEF TreeInv
  <2>14. ForestInv'
    <3>1. ASSUME "tree" \notin overlapped'
          PROVE  Forest(Rows', parent')
      <4>1. Forest(Rows, parent)
        BY <3>1 DEF ForestInv
      <4>2. \A d \in Rows : parent'[d] = parent[d]
        BY <2>2, <2>4, <2>5
      <4> QED
        BY <2>2, <2>4, <2>5, <2>6, <2>7, <4>1, <4>2, CreationKeepsForest
    <3> QED
      BY <1>2, <3>1 DEF ForestInv, Forest, Under, Levels
  <2> QED
    BY <2>13, <2>14
<1> QED
  BY <1>3, <1>4

\* A category moved under none of its own descendants leaves a forest.
LEMMA CategoryMoved ==
  ASSUME TreeInv, ForestInv, TurnInv, overlapped \subseteq overlapped', NEW r \in Requests,
         UpdateCategory(r)
  PROVE  TreeInv' /\ ForestInv'
<1> DEFINE a == req[r].arg  c == a.of  p == a.parent
<1>1. Moving(r) /\ Ends(r) /\ gone' = gone /\ typeOf' = typeOf
  BY DEF UpdateCategory, Moving
<1>2. /\ ReqOK' /\ ~Creating(r)' /\ ~Moving(r)' /\ ~Deleting(r)'
      /\ \A q \in Requests \ {r} : req'[q] = req[q]
      /\ \A q \in Requests \ {r} :
           /\ Creating(q)' = Creating(q) /\ Moving(q)' = Moving(q) /\ Deleting(q)' = Deleting(q)
      /\ "tree" \notin overlapped' => \A q \in Requests : ~Moving(q)'
  BY <1>1, WriterEnds
<1>3. CASE ~(c \in Rows /\ (p = None \/ p \in Rows))
  <2>1. UNCHANGED treeVars
    BY <1>1, <1>3 DEF UpdateCategory, treeVars
  <2>2. Touches(r, {req[r].kind}) /\ req'[r].pc = "done"
    BY <1>1, EndsStep DEF TreeInv
  <2> QED
    BY <2>1, <2>2, TreeElsewhere
<1>4. CASE c \in Rows /\ (p = None \/ p \in Rows)
  <2>1. parent' = [parent EXCEPT ![c] = p]
    BY <1>4 DEF UpdateCategory
  <2>2. Fits(p, a.type) /\ typeOf[c] = a.type
    BY <1>1, <1>4 DEF TreeInv, MoveOK
  <2>3. "tree" \notin overlapped => p # c /\ p \notin Under(Rows, parent, c)
    BY <1>1 DEF ForestInv, Above
  <2>4. c \in Rows /\ (p = None \/ p \in Rows)
    BY <1>4
  <2> HIDE DEF a, c, p
  <2>5. /\ typeOf = [d \in Categories |-> typeOf[d]] /\ parent = [d \in Categories |-> parent[d]]
        /\ OneTreePerType /\ gone \intersect Rows = {} /\ Rows \in SUBSET Categories
        /\ Rows' = Rows
    BY <1>1 DEF TreeInv, Rows
  <2>6. /\ parent' = [d \in Categories |-> parent'[d]] /\ parent'[c] = p
        /\ \A d \in Categories : d # c => parent'[d] = parent[d]
    BY <2>1, <2>4, <2>5
  <2>7. OneTreePerType'
    <3>1. p # None => p \in Rows /\ typeOf[p] = typeOf[c]
      BY <2>2, <2>4 DEF Fits
    <3>2. ASSUME NEW d \in Rows, parent'[d] # None
          PROVE  parent'[d] \in Rows /\ typeOf[parent'[d]] = typeOf[d]
      <4>1. CASE d = c
        BY <2>6, <3>1, <3>2, <4>1
      <4>2. CASE d # c
        BY <2>5, <2>6, <3>2, <4>2 DEF OneTreePerType
      <4> QED
        BY <4>1, <4>2
    <3> QED
      BY <1>1, <2>5, <3>2 DEF OneTreePerType
  <2>8. ASSUME NEW q \in Requests \ {r}
        PROVE  /\ Creating(q)' => CreateOK(q)'
               /\ Moving(q)' => MoveOK(q)'
               /\ Deleting(q)' => DeleteOK(q)'
    <3>1. Creating(q) => req[q].arg.of \notin Rows' \union gone'
      BY <1>1, <2>5 DEF TreeInv, CreateOK
    <3> QED
      BY <1>1, <1>2, <2>5, <3>1, ChecksStand
  <2>9. TreeInv'
    <3>1. /\ \A q \in Requests : Creating(q)' => CreateOK(q)'
          /\ \A q \in Requests : Moving(q)' => MoveOK(q)'
          /\ \A q \in Requests : Deleting(q)' => DeleteOK(q)'
      BY <1>2, <2>8
    <3>2. \A q, s \in Requests :
            q # s /\ Creating(q)' /\ Creating(s)' => req'[q].arg.of # req'[s].arg.of
      BY <1>2 DEF TreeInv
    <3> QED
      BY <1>1, <1>2, <2>5, <2>6, <2>7, <3>1, <3>2 DEF TreeInv
  <2>10. ForestInv'
    <3>1. ASSUME "tree" \notin overlapped'
          PROVE  Forest(Rows', parent')
      <4>1. Forest(Rows, parent) /\ p # c /\ p \notin Under(Rows, parent, c)
        BY <2>3, <3>1 DEF ForestInv
      <4>2. \A d \in Rows : d # c => parent'[d] = parent[d]
        BY <2>5, <2>6
      <4> QED
        BY <2>4, <2>5, <2>6, <4>1, <4>2, MoveKeepsForest
    <3> QED
      BY <1>2, <3>1 DEF ForestInv, Forest, Under, Levels
  <2> QED
    BY <2>9, <2>10
<1> QED
  BY <1>3, <1>4

\* A category is deleted only when nothing is under it.
LEMMA CategoryDeleted ==
  ASSUME TreeInv, ForestInv, TurnInv, overlapped \subseteq overlapped', NEW r \in Requests,
         DeleteCategory(r)
  PROVE  TreeInv' /\ ForestInv'
<1> DEFINE c == req[r].arg
<1>1. Deleting(r) /\ Ends(r)
  BY DEF DeleteCategory, Deleting
<1>2. /\ ReqOK' /\ ~Creating(r)' /\ ~Moving(r)' /\ ~Deleting(r)'
      /\ \A q \in Requests \ {r} : req'[q] = req[q]
      /\ \A q \in Requests \ {r} :
           /\ Creating(q)' = Creating(q) /\ Moving(q)' = Moving(q) /\ Deleting(q)' = Deleting(q)
      /\ "tree" \notin overlapped' => \A q \in Requests : ~Moving(q)'
  BY <1>1, WriterEnds
<1>3. CASE ~(Children(c) = {} /\ c \notin InUse)
  <2>1. UNCHANGED treeVars
    BY <1>3 DEF DeleteCategory
  <2>2. Touches(r, {req[r].kind}) /\ req'[r].pc = "done"
    BY <1>1, EndsStep DEF TreeInv
  <2> QED
    BY <2>1, <2>2, TreeElsewhere
<1>4. CASE Children(c) = {} /\ c \notin InUse
  <2>1. /\ typeOf' = [typeOf EXCEPT ![c] = None] /\ parent' = [parent EXCEPT ![c] = None]
        /\ gone' = gone \union {c} /\ Children(c) = {}
    BY <1>4 DEF DeleteCategory
  <2>2. c \in Rows \union gone
    BY <1>1 DEF TreeInv, DeleteOK
  <2> HIDE DEF c
  <2>3. /\ typeOf = [d \in Categories |-> typeOf[d]] /\ parent = [d \in Categories |-> parent[d]]
        /\ OneTreePerType /\ gone \intersect Rows = {} /\ Rows \in SUBSET Categories
    BY DEF TreeInv, Rows
  <2>4. /\ typeOf' = [d \in Categories |-> typeOf'[d]] /\ parent' = [d \in Categories |-> parent'[d]]
        /\ \A d \in Categories : d # c => typeOf'[d] = typeOf[d] /\ parent'[d] = parent[d]
        /\ c \in Categories => typeOf'[c] = None
    BY <2>1, <2>3
  <2>5. Rows' = Rows \ {c}
    BY <2>4 DEF Rows
  <2>6. OneTreePerType'
    <3>1. ASSUME NEW d \in Rows', parent'[d] # None
          PROVE  parent'[d] \in Rows' /\ typeOf'[parent'[d]] = typeOf'[d]
      <4>1. d \in Rows /\ d # c /\ parent'[d] = parent[d] /\ typeOf'[d] = typeOf[d]
        BY <2>3, <2>4, <2>5
      <4>2. parent[d] # c
        BY <2>1, <4>1 DEF Children
      <4>3. parent[d] \in Rows /\ typeOf[parent[d]] = typeOf[d]
        BY <2>3, <3>1, <4>1 DEF OneTreePerType
      <4> QED
        BY <2>3, <2>4, <2>5, <4>1, <4>2, <4>3
    <3> QED
      BY <3>1 DEF OneTreePerType
  <2>7. /\ \A d \in Rows' : d \in Rows => typeOf'[d] = typeOf[d]
        /\ Rows \union gone \subseteq Rows' \union gone'
        /\ \A d \in Rows \union gone : d \in Rows' => d \in Rows
    BY <2>1, <2>3, <2>4, <2>5
  <2>8. ASSUME NEW q \in Requests \ {r}
        PROVE  /\ Creating(q)' => CreateOK(q)'
               /\ Moving(q)' => MoveOK(q)'
               /\ Deleting(q)' => DeleteOK(q)'
    <3>1. Creating(q) => req[q].arg.of \notin Rows' \union gone'
      BY <2>1, <2>2, <2>5 DEF TreeInv, CreateOK
    <3> QED
      BY <1>2, <2>7, <3>1, ChecksStand
  <2>9. TreeInv'
    <3>1. /\ \A q \in Requests : Creating(q)' => CreateOK(q)'
          /\ \A q \in Requests : Moving(q)' => MoveOK(q)'
          /\ \A q \in Requests : Deleting(q)' => DeleteOK(q)'
      BY <1>2, <2>8
    <3>2. \A q, s \in Requests :
            q # s /\ Creating(q)' /\ Creating(s)' => req'[q].arg.of # req'[s].arg.of
      BY <1>2 DEF TreeInv
    <3>3. gone' \intersect Rows' = {}
      BY <2>1, <2>3, <2>5
    <3> QED
      BY <1>2, <2>4, <2>6, <3>1, <3>2, <3>3 DEF TreeInv
  <2>10. ForestInv'
    <3>1. ASSUME "tree" \notin overlapped'
          PROVE  Forest(Rows', parent')
      <4>1. Forest(Rows, parent)
        BY <3>1 DEF ForestInv
      <4>2. \A d \in Rows : d # c => parent'[d] = parent[d]
        BY <2>3, <2>4
      <4> QED
        BY <2>3, <2>5, <4>1, <4>2, DeletionKeepsForest
    <3> QED
      BY <1>2, <3>1 DEF ForestInv, Forest, Under, Levels
  <2> QED
    BY <2>9, <2>10
<1> QED
  BY <1>3, <1>4

\* Every step keeps the tree in order, and the turns.
LEMMA TreeStep ==
  ASSUME TreeInv, ForestInv, TurnInv, [Next]_vars
  PROVE  TreeInv' /\ ForestInv' /\ TurnInv'
<1>0. ReqOK
  BY DEF TreeInv
<1>1. TurnInv' /\ overlapped \subseteq overlapped'
  BY <1>0, TurnStep
<1>2. ASSUME NEW r \in Requests, NEW kinds, Touches(r, kinds), UNCHANGED treeVars,
             kinds \intersect {"create", "move", "remove"} = {} \/ req'[r].pc = "done"
      PROVE  TreeInv' /\ ForestInv'
  BY <1>1, <1>2, TreeElsewhere
<1>3. ASSUME NEW r \in Requests, TreeWork(r)
      PROVE  TreeInv' /\ ForestInv'
  BY <1>1, <1>3, TreeChecks, CategoryCreated, CategoryMoved, CategoryDeleted DEF TreeWork
<1>4. ASSUME NEW r \in Requests, UNCHANGED treeVars,
             StatusWork(r) \/ VariantWork(r) \/ RequirementWork(r) \/ GalleryWork(r)
      PROVE  TreeInv' /\ ForestInv'
  BY <1>0, <1>2, <1>4, ShelfWork, PictureWork
<1>5. ASSUME NEW r \in Requests, UNCHANGED treeVars, BannerWork(r) \/ VoucherWork(r)
      PROVE  TreeInv' /\ ForestInv'
  BY <1>0, <1>2, <1>5, WindowWork, CampaignWork
<1>6. ASSUME NEW r \in Requests, UNCHANGED treeVars, Crash(r)
      PROVE  TreeInv' /\ ForestInv'
  BY <1>0, <1>2, <1>6, EndsStep DEF Crash
<1>7. ASSUME UNCHANGED deskVars, UNCHANGED treeVars
      PROVE  TreeInv' /\ ForestInv'
  <2>1. /\ req' = req /\ overlapped' = overlapped
        /\ typeOf' = typeOf /\ parent' = parent /\ gone' = gone /\ Rows' = Rows
    BY <1>7 DEF deskVars, treeVars, Rows
  <2>2. ForestInv'
    <3>1. Forest(Rows, parent)' = Forest(Rows, parent)
      BY <2>1 DEF Forest, Under, Levels
    <3>2. \A q \in Requests : Moving(q)' = Moving(q) /\ Above(q)' = Above(q)
      BY <2>1, Zenon DEF Moving, Above, At
    <3> QED
      BY <2>1, <3>1, <3>2 DEF ForestInv
  <2>3. \A q \in Requests :
          /\ Creating(q)' = Creating(q) /\ CreateOK(q)' = CreateOK(q)
          /\ Moving(q)' = Moving(q) /\ MoveOK(q)' = MoveOK(q)
          /\ Deleting(q)' = Deleting(q) /\ DeleteOK(q)' = DeleteOK(q)
    BY <2>1, Zenon DEF Creating, CreateOK, Moving, MoveOK, Deleting, DeleteOK, At, Fits
  <2>4. OneTreePerType' /\ ReqOK'
    BY <2>1 DEF TreeInv, OneTreePerType, ReqOK
  <2> QED
    BY <2>1, <2>2, <2>3, <2>4 DEF TreeInv
<1>8. CASE UNCHANGED vars
  BY <1>1, <1>7, <1>8 DEF vars
<1>9. CASE \E p \in Pictures : UploadBanner(p) /\ OnlyBanner
  BY <1>1, <1>7, <1>9 DEF UploadBanner, OnlyBanner
<1>10. CASE Redeem /\ OnlyVoucher
  BY <1>1, <1>7, <1>10 DEF Redeem, OnlyVoucher
<1> QED
  BY <1>1, <1>3, <1>4, <1>5, <1>6, <1>8, <1>9, <1>10
  DEF Next, OnlyProduct, OnlyBanner, OnlyVoucher

\* The tree is in order in every first state.
LEMMA TreeBegins ==
  ASSUME Init
  PROVE  TreeInv /\ ForestInv /\ TurnInv
<1>1. ReqOK /\ \A r \in Requests : req[r].pc = "new"
  BY NoneSent DEF Init
<1>2. \A r \in Requests : ~Creating(r) /\ ~Moving(r) /\ ~Deleting(r) /\ ~Flying(r)
  BY <1>1 DEF Creating, Moving, Deleting, At, Flying
<1>3. /\ parent = [c \in Categories |-> None] /\ gone = {}
      /\ typeOf = [c \in Categories |-> typeOf[c]]
  BY DEF Init, NoTree, TreeInit
<1>4. OneTreePerType /\ Rows \in SUBSET Categories
  BY <1>3 DEF OneTreePerType, Rows
<1>5. ASSUME NEW c \in Rows
      PROVE  c \notin Under(Rows, parent, c)
  <2> DEFINE T == {}
  <2>1. /\ \A d \in Rows : parent[d] = c => d \in T
        /\ \A d \in Rows : parent[d] \in T => d \in T
    BY <1>3, <1>4, CategoriesAssumption
  <2> HIDE DEF T
  <2>2. Under(Rows, parent, c) \subseteq T
    BY <1>4, <2>1, UnderIsLeast
  <2> QED
    BY <2>2 DEF T
<1>6. parent = [c \in Categories |-> parent[c]]
  BY <1>3
<1> QED
  BY <1>1, <1>2, <1>3, <1>4, <1>5, <1>6 DEF TreeInv, ForestInv, TurnInv, Forest

\* Whatever operators create, move and delete at once, a parent exists and is of
\* its child's type; and no category is under itself, unless two requests about
\* the tree were in flight together.
THEOREM TreeTheorem == Spec => []TreeInOrder
<1> DEFINE Inv == TreeInv /\ ForestInv /\ TurnInv
<1>1. Init => Inv
  BY TreeBegins
<1>2. Inv /\ [Next]_vars => Inv'
  <2> SUFFICES ASSUME TreeInv, ForestInv, TurnInv, [Next]_vars
               PROVE  TreeInv' /\ ForestInv' /\ TurnInv'
    OBVIOUS
  <2> QED
    BY TreeStep
<1>3. Inv => TreeInOrder
  BY DescendantsAreUnder DEF TreeInOrder, AcyclicInTurn, TreeInv, ForestInv, Forest
<1> QED
  BY <1>1, <1>2, <1>3, PTL DEF Spec

-----------------------------------------------------------------------------
(* The product: its status, its prices, its requirements and its gallery,  *)
(* as long as its requests are made one after another.                     *)

ProductShape ==
  product = [status |-> product.status, stamps |-> product.stamps, range |-> product.range]

\* What setStatus has read is what is stored, or was.
StatusInv ==
  /\ product.stamps \in Nat
  /\ product.status = "PUBLISHED" => product.stamps > 0
  /\ \A r \in Requests : Flying(r) /\ req[r].kind = "status" => req[r].on = "status"
  /\ \A r \in Requests : At(r, "status", "read") =>
       /\ req[r].saw \in Nat /\ req[r].saw <= product.stamps
       /\ "status" \notin overlapped => req[r].saw = product.stamps
  /\ "status" \notin overlapped => product.stamps <= 1

IsVariant(row) == row = [f \in {"price", "was", "archived"} |-> row[f]]

Honest(row) == row.was = 0 \/ row.was > row.price

\* An edit that was checked leaves an honest markdown, and one that was written
\* carries the range that belongs to it.
PriceOK(r) ==
  /\ req[r].on = "prices" /\ req[r].arg.of \in Variants
  /\ "prices" \notin overlapped =>
       /\ Honest(Overlaid(variant[req[r].arg.of], req[r].arg.set))
       /\ req[r].pc = "written" => req[r].saw = PriceRange(Edited(r))

PricesInv ==
  /\ variant = [v \in Variants |-> variant[v]] /\ \A v \in Variants : IsVariant(variant[v])
  /\ \A r \in Requests : Flying(r) /\ req[r].kind = "variant" => PriceOK(r)
  /\ "prices" \notin overlapped =>
       product.range = PriceRange(variant) /\ \A v \in Variants : Honest(variant[v])

RequiresInv ==
  /\ \A r \in Requests : Flying(r) /\ req[r].kind = "requires" =>
       /\ req[r].on = "requires"
       /\ "requires" \notin overlapped /\ req[r].pc = "deleted" => req[r].saw = requires
  /\ "requires" \notin overlapped => requires = sent

\* The positions of a gallery are 0, 1, 2 ... and one image is the primary.
Arranged(rows, pos, main) ==
  /\ {pos[i] : i \in rows} = 0..(Cardinality(rows) - 1)
  /\ rows # {} => Cardinality({i \in rows : main[i]}) = 1

Position == [i \in Images |-> image[i].pos]
Main == [i \in Images |-> image[i].primary]

ArrangeKinds == {"upload", "reorder", "primary", "delete"}

\* What a request about the gallery has to show: while it is the only one, the
\* images are those it has counted or was given an order of.
ArrangeOK(r) ==
  /\ req[r].on = "gallery"
  /\ req[r].kind = "primary" => req[r].arg \in Images
  /\ "gallery" \notin overlapped =>
       /\ At(r, "upload", "counted") => req[r].saw = Cardinality(Gallery)
       /\ At(r, "reorder", "checked") =>
            /\ req[r].arg \in [Gallery -> 0..(Cardinality(Gallery) - 1)]
            /\ \A i, j \in Gallery : i # j => req[r].arg[i] # req[r].arg[j]

ArrangedInv ==
  /\ \A r \in Requests : Flying(r) /\ req[r].kind \in ArrangeKinds => ArrangeOK(r)
  /\ "gallery" \notin overlapped => Arranged(Gallery, Position, Main)

\* Two requests in flight about one thing.
LEMMA Together ==
  ASSUME TurnInv, overlapped \subseteq overlapped', NEW q \in Requests, NEW r \in Requests,
         q # r, Flying(q), Flying(r), req[q].on = req[r].on
  PROVE  req[r].on \in overlapped'
BY DEF TurnInv

\* What the others leave of what these are about.
LEMMA StatusMoves ==
  ASSUME ReqOK, ProductShape, NEW r \in Requests, StatusWork(r)
  PROVE  /\ Touches(r, {"status"}) /\ UNCHANGED <<variant, image, files, requires, sent>>
         /\ ProductShape' /\ product'.range = product.range
<1>1. CASE \E to \in ProductStatus : CheckStatus(r, to)
  <2>1. Touches(r, {"status"}) /\ UNCHANGED productVars
    BY <1>1, BeginStep DEF CheckStatus
  <2> QED
    BY <2>1 DEF productVars, ProductShape
<1>2. CASE ReadStamp(r)
  <2>1. Touches(r, {"status"}) /\ UNCHANGED productVars
    BY <1>2, GoesStep DEF ReadStamp, At
  <2> QED
    BY <2>1 DEF productVars, ProductShape
<1>3. CASE WriteStatus(r)
  <2> DEFINE st == req[r].arg
             n == product.stamps + (IF IsFirstPublish(req[r].arg, req[r].saw) THEN 1 ELSE 0)
  <2>1. Touches(r, {"status"}) /\ UNCHANGED <<variant, image, files, requires, sent>>
    BY <1>3, EndsStep DEF WriteStatus, At
  <2>2. product' = [product EXCEPT !.status = st, !.stamps = n]
    BY <1>3 DEF WriteStatus
  <2> HIDE DEF st, n
  <2>3. product' = [status |-> st, stamps |-> n, range |-> product.range]
    BY <2>2 DEF ProductShape
  <2> QED
    BY <2>1, <2>3 DEF ProductShape
<1> QED
  BY <1>1, <1>2, <1>3 DEF StatusWork

\* What work on a variant leaves alone.
LEMMA VariantMoves ==
  ASSUME ReqOK, ProductShape, NEW r \in Requests, VariantWork(r)
  PROVE  /\ Touches(r, {"variant"}) /\ UNCHANGED <<image, files, requires, sent>>
         /\ ProductShape' /\ product'.status = product.status /\ product'.stamps = product.stamps
<1>1. CASE \E v \in Variants : \E p \in Prices, w \in Prices \union {0} : CheckNewVariant(r, v, p, w)
  <2>1. Touches(r, {"variant"}) /\ UNCHANGED productVars
    BY <1>1, BeginStep DEF CheckNewVariant
  <2> QED
    BY <2>1 DEF productVars, ProductShape
<1>2. CASE \E v \in Variants : \E change \in VariantChanges : CheckEdit(r, v, change)
  <2>1. Touches(r, {"variant"}) /\ UNCHANGED productVars
    BY <1>2, BeginStep DEF CheckEdit
  <2> QED
    BY <2>1 DEF productVars, ProductShape
<1>3. CASE WriteVariant(r)
  <2>1. Touches(r, {"variant"}) /\ UNCHANGED productVars
    BY <1>3, GoesStep DEF WriteVariant, At
  <2> QED
    BY <2>1 DEF productVars, ProductShape
<1>4. CASE CommitVariant(r)
  <2>1. Touches(r, {"variant"}) /\ UNCHANGED <<image, files, requires, sent>>
    BY <1>4, EndsStep DEF CommitVariant, At
  <2>2. product' = [product EXCEPT !.range = req[r].saw]
    BY <1>4 DEF CommitVariant
  <2>3. product' = [status |-> product.status, stamps |-> product.stamps, range |-> req[r].saw]
    BY <2>2 DEF ProductShape
  <2> QED
    BY <2>1, <2>3 DEF ProductShape
<1> QED
  BY <1>1, <1>2, <1>3, <1>4 DEF VariantWork

\* What work on the gallery leaves alone.
LEMMA GalleryMoves ==
  ASSUME ReqOK, NEW r \in Requests, GalleryWork(r)
  PROVE  /\ Touches(r, {"upload", "reorder", "primary", "delete"})
         /\ UNCHANGED <<product, variant, requires, sent>>
<1>1. CASE \E i \in Images : CheckUpload(r, i)
  BY <1>1, PictureWork DEF CheckUpload, productVars
<1>2. CASE \E order \in [Gallery -> 0..Cardinality(Images)] : CheckReorder(r, order)
  BY <1>2, PictureWork DEF CheckReorder, productVars
<1>3. CASE \E i \in Images, kind \in {"primary", "delete"} : CheckImage(r, kind, i)
  BY <1>3, PictureWork DEF CheckImage, productVars
<1>4. CASE StoreFile(r) \/ CountImages(r) \/ CreateImage(r)
  BY <1>4, PictureWork DEF StoreFile, CountImages, CreateImage, productVars
<1>5. CASE ReorderImages(r) \/ SetPrimaryImage(r) \/ RemoveFile(r)
  BY <1>5, PictureWork DEF ReorderImages, SetPrimaryImage, RemoveFile
<1>6. CASE DeleteImage(r)
  BY <1>6, PictureWork DEF DeleteImage
<1> QED
  BY <1>1, <1>2, <1>3, <1>4, <1>5, <1>6 DEF GalleryWork

\* What work on the required tools leaves alone.
LEMMA RequirementMoves ==
  ASSUME ReqOK, NEW r \in Requests, RequirementWork(r)
  PROVE  Touches(r, {"requires"}) /\ UNCHANGED <<product, variant, image, files>>
<1>1. CASE \E list \in SUBSET Tools : CheckRequirements(r, list)
  BY <1>1, BeginStep DEF CheckRequirements, productVars
<1>2. CASE DeleteRequirements(r)
  BY <1>2, GoesStep DEF DeleteRequirements, At, productVars
<1>3. CASE InsertRequirements(r)
  BY <1>3, EndsStep DEF InsertRequirements, At
<1> QED
  BY <1>1, <1>2, <1>3 DEF RequirementWork

-----------------------------------------------------------------------------
(* The status.                                                             *)

\* A step that keeps the stamps, and whose request is not about the status, or
\* is done, or has only been checked.
LEMMA StatusIdle ==
  ASSUME StatusInv, NEW r \in Requests, NEW kinds, Touches(r, kinds),
         overlapped \subseteq overlapped',
         product'.status = product.status, product'.stamps = product.stamps,
         \/ "status" \notin kinds
         \/ req'[r].pc = "done"
         \/ req'[r].pc = "checked" /\ req'[r].on = "status"
  PROVE  StatusInv'
<1>1. \A q \in Requests \ {r} : req'[q] = req[q]
  BY DEF Touches
<1>2. Flying(r)' /\ req'[r].kind = "status" => req'[r].on = "status"
  BY DEF Touches, Flying
<1>3. ~At(r, "status", "read")'
  BY DEF Touches, At
<1>4. \A q \in Requests : At(q, "status", "read")' => q # r /\ At(q, "status", "read")
  BY <1>1, <1>3 DEF At
<1>5. \A q \in Requests : Flying(q)' /\ req'[q].kind = "status" => req'[q].on = "status"
  BY <1>1, <1>2 DEF StatusInv, Flying
<1> QED
  BY <1>1, <1>4, <1>5 DEF StatusInv

\* Work on the status keeps what is said of the publication.
LEMMA StatusSteps ==
  ASSUME ReqOK, ProductShape, StatusInv, TurnInv, overlapped \subseteq overlapped',
         NEW r \in Requests, StatusWork(r)
  PROVE  StatusInv'
<1>1. CASE \E to \in ProductStatus : CheckStatus(r, to)
  <2>1. PICK to \in ProductStatus : Begin(r, "status", "status", to, None) /\ UNCHANGED productVars
    BY <1>1 DEF CheckStatus
  <2>2. /\ Touches(r, {"status"}) /\ req'[r].pc = "checked" /\ req'[r].on = "status"
        /\ product' = product
    BY <2>1, BeginStep DEF productVars
  <2> QED
    BY <2>2, StatusIdle
<1>2. CASE ReadStamp(r)
  <2>1. /\ Touches(r, {"status"}) /\ req'[r].pc = "read" /\ req'[r].saw = product.stamps
        /\ req'[r].on = req[r].on /\ product' = product
    BY <1>2, GoesStep DEF ReadStamp, At, productVars
  <2>2. req[r].on = "status"
    BY <1>2 DEF ReadStamp, At, StatusInv, Flying
  <2>3. \A q \in Requests \ {r} : req'[q] = req[q]
    BY <2>1 DEF Touches
  <2>4. \A q \in Requests : Flying(q)' /\ req'[q].kind = "status" => req'[q].on = "status"
    BY <2>1, <2>2, <2>3 DEF StatusInv, Flying
  <2>5. ASSUME NEW q \in Requests, At(q, "status", "read")'
        PROVE  /\ req'[q].saw \in Nat /\ req'[q].saw <= product'.stamps
               /\ "status" \notin overlapped' => req'[q].saw = product'.stamps
    <3>1. CASE q = r
      BY <2>1, <3>1 DEF StatusInv
    <3>2. CASE q # r
      BY <2>1, <2>3, <2>5, <3>2 DEF StatusInv, At
    <3> QED
      BY <3>1, <3>2
  <2> QED
    BY <2>1, <2>4, <2>5 DEF StatusInv
<1>3. CASE WriteStatus(r)
  <2> DEFINE st == req[r].arg  saw == req[r].saw
             more == IF IsFirstPublish(st, saw) THEN 1 ELSE 0
  <2>1. Touches(r, {"status"}) /\ req'[r].pc = "done" /\ At(r, "status", "read")
    BY <1>3, EndsStep DEF WriteStatus, At
  <2>2. product' = [product EXCEPT !.status = st, !.stamps = @ + more]
    BY <1>3 DEF WriteStatus
  <2>3. /\ saw \in Nat /\ saw <= product.stamps /\ product.stamps \in Nat
        /\ "status" \notin overlapped => saw = product.stamps /\ product.stamps <= 1
    BY <2>1 DEF StatusInv
  <2>4. more \in {0, 1} /\ (more = 1 => saw = 0) /\ (st = "PUBLISHED" /\ saw = 0 => more = 1)
    BY DEF IsFirstPublish
  <2> HIDE DEF st, saw, more
  <2>5. product'.status = st /\ product'.stamps = product.stamps + more
    BY <2>2 DEF ProductShape
  <2>6. /\ product'.stamps \in Nat /\ product.stamps <= product'.stamps
        /\ product'.status = "PUBLISHED" => product'.stamps > 0
        /\ "status" \notin overlapped' => product'.stamps <= 1
    BY <2>3, <2>4, <2>5
  <2>7. \A q \in Requests \ {r} : req'[q] = req[q]
    BY <2>1 DEF Touches
  <2>8. \A q \in Requests : Flying(q)' /\ req'[q].kind = "status" => req'[q].on = "status"
    BY <2>1, <2>7 DEF StatusInv, Flying
  <2>9. ASSUME NEW q \in Requests, At(q, "status", "read")'
        PROVE  /\ req'[q].saw \in Nat /\ req'[q].saw <= product'.stamps
               /\ "status" \in overlapped'
    <3>1. q # r /\ At(q, "status", "read")
      BY <2>1, <2>7, <2>9 DEF At
    <3>2. req'[q].saw \in Nat /\ req'[q].saw <= product.stamps
      BY <2>7, <3>1 DEF StatusInv
    <3>3. Flying(q) /\ Flying(r) /\ req[q].on = "status" /\ req[r].on = "status"
      BY <2>1, <3>1 DEF At, Flying, StatusInv
    <3> QED
      BY <2>3, <2>6, <3>1, <3>2, <3>3, Together
  <2> QED
    BY <2>6, <2>8, <2>9 DEF StatusInv
<1> QED
  BY <1>1, <1>2, <1>3 DEF StatusWork

-----------------------------------------------------------------------------
(* The requirements.                                                       *)

\* A step that writes no requirements keeps what is said of them.
LEMMA RequirementsIdle ==
  ASSUME RequiresInv, NEW r \in Requests, NEW kinds, Touches(r, kinds),
         overlapped \subseteq overlapped', UNCHANGED <<requires, sent>>,
         \/ "requires" \notin kinds
         \/ req'[r].pc = "done"
         \/ req'[r].pc = "checked" /\ req'[r].on = "requires"
  PROVE  RequiresInv'
<1>1. \A q \in Requests \ {r} : req'[q] = req[q]
  BY DEF Touches
<1>2. Flying(r)' /\ req'[r].kind = "requires" => req'[r].on = "requires" /\ req'[r].pc # "deleted"
  BY DEF Touches, Flying
<1> QED
  BY <1>1, <1>2 DEF RequiresInv, Flying

\* A list of tools is deleted and stored again by one request.
LEMMA RequirementSteps ==
  ASSUME ReqOK, RequiresInv, TurnInv, overlapped \subseteq overlapped',
         NEW r \in Requests, RequirementWork(r)
  PROVE  RequiresInv'
<1>1. CASE \E list \in SUBSET Tools : CheckRequirements(r, list)
  <2>1. PICK list \in SUBSET Tools :
          Begin(r, "requires", "requires", list, None) /\ UNCHANGED productVars
    BY <1>1 DEF CheckRequirements
  <2>2. /\ Touches(r, {"requires"}) /\ req'[r].pc = "checked" /\ req'[r].on = "requires"
        /\ UNCHANGED <<requires, sent>>
    BY <2>1, BeginStep DEF productVars
  <2> QED
    BY <2>2, RequirementsIdle
<1>2. CASE DeleteRequirements(r)
  <2>1. /\ Touches(r, {"requires"}) /\ req'[r].saw = requires /\ req'[r].on = req[r].on
        /\ UNCHANGED <<requires, sent>>
    BY <1>2, GoesStep DEF DeleteRequirements, At, productVars
  <2>2. req[r].on = "requires"
    BY <1>2 DEF DeleteRequirements, At, RequiresInv, Flying
  <2>3. \A q \in Requests \ {r} : req'[q] = req[q]
    BY <2>1 DEF Touches
  <2> QED
    BY <2>1, <2>2, <2>3 DEF RequiresInv, Flying
<1>3. CASE InsertRequirements(r)
  <2>1. /\ Touches(r, {"requires"}) /\ req'[r].pc = "done"
        /\ Flying(r) /\ req[r].kind = "requires" /\ req[r].pc = "deleted"
    BY <1>3, EndsStep DEF InsertRequirements, At, Flying
  <2>2. req[r].on = "requires" /\ ("requires" \notin overlapped => req[r].saw = requires)
    BY <2>1 DEF RequiresInv
  <2>3. \A q \in Requests \ {r} : req'[q] = req[q]
    BY <2>1 DEF Touches
  <2>4. ASSUME "requires" \notin overlapped'
        PROVE  requires' = sent'
    <3>1. requires \ req[r].saw = {}
      BY <2>2, <2>4
    <3>2. requires' = req[r].arg /\ sent' = req[r].arg
      BY <1>3, <3>1 DEF InsertRequirements
    <3> QED
      BY <3>2
  <2>5. ASSUME NEW q \in Requests, Flying(q)', req'[q].kind = "requires"
        PROVE  req'[q].on = "requires" /\ "requires" \in overlapped'
    <3>1. q # r /\ Flying(q) /\ req[q].on = "requires" /\ req'[q] = req[q]
      BY <2>1, <2>3, <2>5 DEF RequiresInv, Flying
    <3> QED
      BY <2>1, <2>2, <3>1, Together
  <2> QED
    BY <2>4, <2>5 DEF RequiresInv
<1> QED
  BY <1>1, <1>2, <1>3 DEF RequirementWork

-----------------------------------------------------------------------------
(* The prices.                                                             *)

\* An edited variant has the sent columns and keeps the others.
LEMMA OverlaidVariant ==
  ASSUME NEW row, IsVariant(row), NEW change
  PROVE  /\ IsVariant(Overlaid(row, change))
         /\ \A f \in {"price", "was", "archived"} :
              Overlaid(row, change)[f] = IF f \in DOMAIN change THEN change[f] ELSE row[f]
<1>1. DOMAIN row = {"price", "was", "archived"}
  BY DEF IsVariant
<1>2. Overlaid(row, change) =
        [f \in {"price", "was", "archived"} |-> IF f \in DOMAIN change THEN change[f] ELSE row[f]]
  BY <1>1 DEF Overlaid
<1> QED
  BY <1>2 DEF IsVariant

\* A step that changes neither variants nor the range keeps what is said of them.
LEMMA PricesIdle ==
  ASSUME PricesInv, NEW r \in Requests, NEW kinds, Touches(r, kinds),
         overlapped \subseteq overlapped', variant' = variant, product'.range = product.range,
         "variant" \notin kinds \/ req'[r].pc = "done" \/ PriceOK(r)'
  PROVE  PricesInv'
<1>1. \A q \in Requests \ {r} : req'[q] = req[q]
  BY DEF Touches
<1>2. ASSUME NEW q \in Requests \ {r}, Flying(q)', req'[q].kind = "variant"
      PROVE  PriceOK(q)'
  <2>1. PriceOK(q) /\ req'[q] = req[q]
    BY <1>1, <1>2 DEF PricesInv, Flying
  <2>2. Edited(q)' = Edited(q)
    BY <2>1 DEF Edited
  <2> QED
    BY <2>1, <2>2 DEF PriceOK
<1>3. Flying(r)' /\ req'[r].kind = "variant" => PriceOK(r)'
  BY DEF Touches, Flying
<1>4. \A q \in Requests : Flying(q)' /\ req'[q].kind = "variant" => PriceOK(q)'
  BY <1>2, <1>3
<1> QED
  BY <1>4 DEF PricesInv, PriceOK

\* An edit that was checked is honest, also one that names neither price.
LEMMA CheckedHonest ==
  ASSUME NEW row, IsVariant(row), NEW change, HonestMarkdown(Overlaid(row, change), DOMAIN change),
         Honest(row)
  PROVE  Honest(Overlaid(row, change))
<1>1. CASE DOMAIN change \intersect {"price", "was"} # {}
  BY <1>1 DEF HonestMarkdown, Honest
<1>2. CASE DOMAIN change \intersect {"price", "was"} = {}
  <2>1. "price" \notin DOMAIN change /\ "was" \notin DOMAIN change
    BY <1>2
  <2>2. Overlaid(row, change).price = row.price /\ Overlaid(row, change).was = row.was
    BY <2>1, OverlaidVariant
  <2> QED
    BY <2>2 DEF Honest
<1> QED
  BY <1>1, <1>2

\* Work on a variant ends with the range its rows call for.
LEMMA PricesSteps ==
  ASSUME ReqOK, ProductShape, PricesInv, TurnInv, overlapped \subseteq overlapped',
         NEW r \in Requests, VariantWork(r)
  PROVE  PricesInv'
<1>1. ASSUME NEW v \in Variants, NEW change,
             Begin(r, "variant", "prices", [of |-> v, set |-> change], None), UNCHANGED productVars,
             "prices" \notin overlapped => Honest(Overlaid(variant[v], change))
      PROVE  PricesInv'
  <2> DEFINE a == [of |-> v, set |-> change]
  <2>1. a.of = v /\ a.set = change
    OBVIOUS
  <2>2. Begin(r, "variant", "prices", a, None)
    BY <1>1
  <2> HIDE DEF a
  <2>3. /\ Touches(r, {"variant"}) /\ req'[r].pc = "checked" /\ req'[r].on = "prices"
        /\ req'[r].arg = a
    BY <2>2, BeginStep
  <2>4. variant' = variant /\ product' = product
    BY <1>1 DEF productVars
  <2>5. PriceOK(r)'
    BY <1>1, <2>1, <2>3, <2>4 DEF PriceOK
  <2> QED
    BY <2>3, <2>4, <2>5, PricesIdle
<1>2. ASSUME NEW v \in Variants, NEW p, NEW w, CheckNewVariant(r, v, p, w)
      PROVE  PricesInv'
  <2> DEFINE new == [price |-> p, was |-> w, archived |-> FALSE]
  <2>1. /\ HonestMarkdown(new, {"price", "was"})
        /\ Begin(r, "variant", "prices", [of |-> v, set |-> new], None) /\ UNCHANGED productVars
    BY <1>2 DEF CheckNewVariant
  <2>2. new.was = 0 \/ new.was > new.price
    BY <2>1 DEF HonestMarkdown
  <2>3. IsVariant(variant[v])
    BY DEF PricesInv
  <2>4. DOMAIN new = {"price", "was", "archived"}
    OBVIOUS
  <2> HIDE DEF new
  <2>5. Overlaid(variant[v], new).was = new.was /\ Overlaid(variant[v], new).price = new.price
    BY <2>3, <2>4, OverlaidVariant
  <2>6. Honest(Overlaid(variant[v], new))
    BY <2>2, <2>5 DEF Honest
  <2> QED
    BY <1>1, <2>1, <2>6
<1>3. ASSUME NEW v \in Variants, NEW change, CheckEdit(r, v, change)
      PROVE  PricesInv'
  <2>1. /\ HonestMarkdown(Overlaid(variant[v], change), DOMAIN change)
        /\ Begin(r, "variant", "prices", [of |-> v, set |-> change], None) /\ UNCHANGED productVars
    BY <1>3 DEF CheckEdit
  <2>2. IsVariant(variant[v]) /\ ("prices" \notin overlapped => Honest(variant[v]))
    BY DEF PricesInv
  <2> QED
    BY <1>1, <2>1, <2>2, CheckedHonest
<1>4. CASE WriteVariant(r)
  <2>1. /\ Touches(r, {"variant"}) /\ req'[r].saw = PriceRange(Edited(r))
        /\ req'[r].on = req[r].on /\ req'[r].arg = req[r].arg
        /\ Flying(r) /\ req[r].kind = "variant" /\ variant' = variant /\ product' = product
    <3>1. /\ Goes(r, "written", PriceRange(Edited(r))) /\ At(r, "variant", "checked")
          /\ variant' = variant /\ product' = product
      BY <1>4 DEF WriteVariant, productVars
    <3>2. Flying(r) /\ req[r].kind = "variant"
      BY <3>1 DEF At, Flying
    <3> QED
      BY <3>1, <3>2, GoesStep
  <2>2. PriceOK(r)
    BY <2>1 DEF PricesInv
  <2>3. Edited(r)' = Edited(r)
    BY <2>1 DEF Edited
  <2>4. PriceOK(r)'
    BY <2>1, <2>2, <2>3 DEF PriceOK
  <2> QED
    BY <2>1, <2>4, PricesIdle
<1>5. CASE CommitVariant(r)
  <2> DEFINE v == req[r].arg.of  row == Overlaid(variant[v], req[r].arg.set)
  <2>1. /\ Touches(r, {"variant"}) /\ req'[r].pc = "done"
        /\ Flying(r) /\ req[r].kind = "variant" /\ req[r].pc = "written"
    BY <1>5, EndsStep DEF CommitVariant, At, Flying
  <2>2. /\ v \in Variants /\ req[r].on = "prices" /\ IsVariant(row)
        /\ "prices" \notin overlapped => Honest(row) /\ req[r].saw = PriceRange(Edited(r))
    BY <2>1, OverlaidVariant DEF PricesInv, PriceOK
  <2>3. Edited(r) = [variant EXCEPT ![v] = row]
    BY DEF Edited
  <2> HIDE DEF v, row
  <2>4. variant' = Edited(r) /\ product' = [product EXCEPT !.range = req[r].saw]
    BY <1>5 DEF CommitVariant
  <2>5. /\ variant' = [u \in Variants |-> variant'[u]] /\ variant'[v] = row
        /\ \A u \in Variants : u # v => variant'[u] = variant[u]
    BY <2>2, <2>3, <2>4 DEF PricesInv
  <2>6. product'.range = req[r].saw
    BY <2>4 DEF ProductShape
  <2>7. \A u \in Variants : IsVariant(variant'[u])
    BY <2>2, <2>5 DEF PricesInv
  <2>8. ASSUME "prices" \notin overlapped'
        PROVE  product'.range = PriceRange(variant') /\ \A u \in Variants : Honest(variant'[u])
    BY <2>2, <2>4, <2>5, <2>6, <2>8 DEF PricesInv
  <2>9. ASSUME NEW q \in Requests, Flying(q)', req'[q].kind = "variant"
        PROVE  /\ req'[q].on = "prices" /\ req'[q].arg.of \in Variants
               /\ "prices" \in overlapped'
    <3>1. q # r /\ Flying(q) /\ req'[q] = req[q] /\ req[q].on = "prices" /\ req[q].arg.of \in Variants
      BY <2>1, <2>9 DEF PricesInv, PriceOK, Flying, Touches
    <3> QED
      BY <2>1, <2>2, <3>1, Together
  <2>10. \A q \in Requests : Flying(q)' /\ req'[q].kind = "variant" => PriceOK(q)'
    BY <2>9 DEF PriceOK
  <2> QED
    BY <2>5, <2>7, <2>8, <2>10 DEF PricesInv
<1> QED
  BY <1>2, <1>3, <1>4, <1>5 DEF VariantWork

-----------------------------------------------------------------------------
(* The order of the gallery.                                               *)

\* Different numbers below the size of a set are all the numbers below it,
LEMMA NumberedOnce ==
  ASSUME NEW S, IsFiniteSet(S), NEW f \in [S -> 0..(Cardinality(S) - 1)],
         \A i, j \in S : i # j => f[i] # f[j]
  PROVE  {f[i] : i \in S} = 0..(Cardinality(S) - 1)
<1> DEFINE n == Cardinality(S)  T == 0..(n - 1)
<1>1. n \in Nat
  BY FS_CardinalityType
<1> HIDE DEF n
<1>2. IsFiniteSet(T) /\ Cardinality(T) = n
  BY <1>1, FS_Interval
<1> HIDE DEF T
<1>3. f \in Injection(S, T)
  BY DEF Injection, T, n, IsInjective
<1>4. f \in Surjection(S, T)
  BY <1>2, <1>3, FS_Injection DEF n
<1> QED
  BY <1>4 DEF Surjection, T, n

\* and where the numbers are all those below the size, they are different.
LEMMA EachOnce ==
  ASSUME NEW S, IsFiniteSet(S), NEW f, {f[i] : i \in S} = 0..(Cardinality(S) - 1)
  PROVE  \A i, j \in S : i # j => f[i] # f[j]
<1> DEFINE n == Cardinality(S)  T == 0..(n - 1)  g == [i \in S |-> f[i]]
<1>1. n \in Nat
  BY FS_CardinalityType
<1>2. g \in [S -> T] /\ \A x \in T : \E i \in S : g[i] = x
  OBVIOUS
<1> HIDE DEF n, g
<1>3. IsFiniteSet(T) /\ Cardinality(T) = n
  BY <1>1, FS_Interval
<1> HIDE DEF T
<1>4. g \in Surjection(S, T)
  BY <1>2 DEF Surjection
<1>5. g \in Injection(S, T)
  BY <1>3, <1>4, FS_SurjSameCardinalityImpliesInj DEF n
<1>6. \A i, j \in S : i # j => g[i] # g[j]
  BY <1>5 DEF Injection, IsInjective
<1> QED
  BY <1>6 DEF g

\* How many of a set come before each of it: the gaps are closed.
LEMMA PlacesClose ==
  ASSUME NEW S, IsFiniteSet(S), NEW pos, \A i \in S : pos[i] \in Int,
         \A i, j \in S : i # j => pos[i] # pos[j],
         NEW before \in [S -> SUBSET S], \A i, j \in S : j \in before[i] <=> pos[j] < pos[i],
         NEW place, place = [i \in S |-> Cardinality(before[i])]
  PROVE  /\ place \in [S -> 0..(Cardinality(S) - 1)]
         /\ \A i, j \in S : i # j => place[i] # place[j]
         /\ {place[i] : i \in S} = 0..(Cardinality(S) - 1)
<1> DEFINE n == Cardinality(S)
<1>1. n \in Nat
  BY FS_CardinalityType
<1>2. \A T \in SUBSET S : /\ IsFiniteSet(T) /\ Cardinality(T) \in Nat /\ Cardinality(T) <= n
                          /\ Cardinality(T) = n => T = S
  BY FS_Subset, FS_CardinalityType
<1>3. \A i \in S : before[i] \in SUBSET S /\ i \notin before[i]
  OBVIOUS
<1>4. \A i, j \in S : pos[i] < pos[j] => before[i] \subseteq before[j] /\ i \in before[j]
  OBVIOUS
<1> HIDE DEF n
<1>5. ASSUME NEW i \in S
      PROVE  Cardinality(before[i]) \in 0..(n - 1)
  <2>1. before[i] # S
    BY <1>3
  <2>2. /\ Cardinality(before[i]) \in Nat /\ Cardinality(before[i]) <= n
        /\ Cardinality(before[i]) # n
    BY <1>2, <1>3, <2>1
  <2> QED
    BY <1>1, <2>2
<1>6. ASSUME NEW i \in S, NEW j \in S, pos[i] < pos[j]
      PROVE  Cardinality(before[i]) # Cardinality(before[j])
  <2>1. before[i] \subseteq before[j] /\ before[i] # before[j] /\ IsFiniteSet(before[j])
    BY <1>2, <1>3, <1>4, <1>6
  <2>2. Cardinality(before[j]) = Cardinality(before[i]) => before[j] = before[i]
    BY <2>1, FS_Subset
  <2> QED
    BY <2>1, <2>2
<1>7. place \in [S -> 0..(n - 1)]
  BY <1>5
<1>8. \A i, j \in S : i # j => place[i] # place[j]
  <2>1. \A i, j \in S : i # j => pos[i] < pos[j] \/ pos[j] < pos[i]
    OBVIOUS
  <2> QED
    BY <1>6, <2>1
<1>9. {place[i] : i \in S} = 0..(n - 1)
  BY <1>7, <1>8, NumberedOnce DEF n
<1> QED
  BY <1>7, <1>8, <1>9 DEF n

\* One image is the primary.
LEMMA OneOf ==
  ASSUME NEW S, NEW x, S = {x}
  PROVE  Cardinality(S) = 1
BY FS_Singleton

-----------------------------------------------------------------------------

\* The gallery has a size.
LEMMA GalleryFinite == IsFiniteSet(Gallery) /\ Gallery \subseteq Images /\ Cardinality(Gallery) \in Nat
<1>1. Gallery \subseteq Images
  BY DEF Gallery
<1>2. IsFiniteSet(Gallery)
  BY <1>1, ImagesAssumption, FS_Subset
<1> QED
  BY <1>1, <1>2, FS_CardinalityType

\* A step that leaves the images, as far as its own request is in order.
LEMMA ArrangedIdle ==
  ASSUME ArrangedInv, NEW r \in Requests, NEW kinds, Touches(r, kinds),
         overlapped \subseteq overlapped', image' = image,
         kinds \intersect ArrangeKinds = {} \/ req'[r].pc = "done" \/ ArrangeOK(r)'
  PROVE  ArrangedInv'
<1>1. \A q \in Requests \ {r} : req'[q] = req[q]
  BY DEF Touches
<1>2. Gallery' = Gallery /\ Position' = Position /\ Main' = Main
  BY DEF Gallery, Position, Main
<1>3. ASSUME NEW q \in Requests \ {r}, Flying(q)', req'[q].kind \in ArrangeKinds
      PROVE  ArrangeOK(q)'
  <2>1. ArrangeOK(q) /\ req'[q] = req[q]
    BY <1>1, <1>3 DEF ArrangedInv, Flying
  <2> QED
    BY <1>2, <2>1 DEF ArrangeOK, At
<1>4. Flying(r)' /\ req'[r].kind \in ArrangeKinds => ArrangeOK(r)'
  BY DEF Touches, Flying
<1>5. \A q \in Requests : Flying(q)' /\ req'[q].kind \in ArrangeKinds => ArrangeOK(q)'
  BY <1>3, <1>4
<1>6. Arranged(Gallery, Position, Main)' = Arranged(Gallery, Position, Main)
  BY <1>2 DEF Arranged
<1> QED
  BY <1>5, <1>6 DEF ArrangedInv

\* A request that writes the images is the only one about them, or is remembered
\* not to be.
LEMMA ArrangedWrites ==
  ASSUME ArrangedInv, TurnInv, overlapped \subseteq overlapped', NEW r \in Requests,
         Flying(r), req[r].kind \in ArrangeKinds,
         Touches(r, {req[r].kind}), req'[r].pc \in {"done", "deleted"},
         req'[r].on = req[r].on, req'[r].arg = req[r].arg,
         "gallery" \notin overlapped' => Arranged(Gallery, Position, Main)'
  PROVE  ArrangedInv'
<1>1. \A q \in Requests \ {r} : req'[q] = req[q]
  BY DEF Touches
<1>2. req[r].on = "gallery" /\ req'[r].kind = req[r].kind
      /\ (req[r].kind = "primary" => req[r].arg \in Images)
  BY DEF ArrangedInv, ArrangeOK, Touches
<1>3. ASSUME NEW q \in Requests \ {r}, Flying(q)', req'[q].kind \in ArrangeKinds
      PROVE  ArrangeOK(q)'
  <2>1. Flying(q) /\ req'[q] = req[q] /\ req[q].kind \in ArrangeKinds
    BY <1>1, <1>3 DEF Flying
  <2>2. ArrangeOK(q)
    BY <2>1 DEF ArrangedInv
  <2>3. "gallery" \in overlapped'
    BY <1>2, <2>1, <2>2, Together DEF ArrangeOK
  <2> QED
    BY <2>1, <2>2, <2>3 DEF ArrangeOK
<1>4. Flying(r)' => ArrangeOK(r)'
  BY <1>2 DEF ArrangeOK, At, Flying
<1>5. \A q \in Requests : Flying(q)' /\ req'[q].kind \in ArrangeKinds => ArrangeOK(q)'
  BY <1>3, <1>4
<1> QED
  BY <1>5 DEF ArrangedInv

\* A request to arrange the gallery has read it as it is.
LEMMA ArrangedBegins ==
  ASSUME ReqOK, ArrangedInv, overlapped \subseteq overlapped', NEW r \in Requests,
         NEW kind \in ArrangeKinds, NEW arg, Begin(r, kind, "gallery", arg, None),
         UNCHANGED productVars, kind = "primary" => arg \in Images,
         kind = "reorder" => /\ arg \in [Gallery -> 0..(Cardinality(Gallery) - 1)]
                             /\ \A i, j \in Gallery : i # j => arg[i] # arg[j]
  PROVE  ArrangedInv'
<1>1. /\ Touches(r, {kind}) /\ req'[r].pc = "checked" /\ req'[r].kind = kind
      /\ req'[r].on = "gallery" /\ req'[r].arg = arg
  BY BeginStep
<1>2. image' = image /\ Gallery' = Gallery
  BY DEF productVars, Gallery
<1>3. ArrangeOK(r)'
  BY <1>1, <1>2 DEF ArrangeOK, At
<1> QED
  BY <1>1, <1>2, <1>3, ArrangedIdle

\* An upload arranges nothing until it writes its row.
LEMMA ArrangedUpload ==
  ASSUME ReqOK, ArrangedInv, overlapped \subseteq overlapped', NEW r \in Requests,
         StoreFile(r) \/ CountImages(r)
  PROVE  ArrangedInv'
<1>1. /\ At(r, "upload", req[r].pc) /\ Flying(r) /\ image' = image
      /\ \/ Goes(r, "stored", None)
         \/ Goes(r, "counted", Cardinality(Gallery))
  BY DEF StoreFile, CountImages, At, Flying, productVars
<1>2. req[r].on = "gallery" /\ Gallery' = Gallery /\ req[r].kind = "upload"
  BY <1>1 DEF ArrangedInv, ArrangeOK, ArrangeKinds, At, Gallery
<1>3. CASE Goes(r, "stored", None)
  <2>1. /\ Touches(r, {req[r].kind}) /\ req'[r].on = req[r].on /\ req'[r].kind = req[r].kind
        /\ req'[r].pc = "stored"
    BY <1>3, GoesStep
  <2>2. ArrangeOK(r)'
    BY <1>2, <2>1 DEF ArrangeOK, At
  <2> QED
    BY <1>1, <2>1, <2>2, ArrangedIdle
<1>4. CASE Goes(r, "counted", Cardinality(Gallery))
  <2>1. /\ Touches(r, {req[r].kind}) /\ req'[r].on = req[r].on /\ req'[r].kind = req[r].kind
        /\ req'[r].saw = Cardinality(Gallery)
    BY <1>4, GoesStep
  <2>2. ArrangeOK(r)'
    BY <1>2, <2>1 DEF ArrangeOK, At
  <2> QED
    BY <1>1, <2>1, <2>2, ArrangedIdle
<1> QED
  BY <1>1, <1>3, <1>4

\* createImage appends, and the first image is the primary one.
LEMMA Appended ==
  ASSUME GalleryInv, Arranged(Gallery, Position, Main), NEW r \in Requests, CreateImage(r),
         req[r].saw = Cardinality(Gallery)
  PROVE  Arranged(Gallery, Position, Main)'
<1> DEFINE i == req[r].arg  n == Cardinality(Gallery)
<1>1. i \in Images /\ i \notin Gallery
  BY DEF CreateImage, At, Uploading, GalleryInv
<1>2. IsFiniteSet(Gallery) /\ n \in Nat
  BY GalleryFinite
<1>3. PICK A : image \in [Images -> [row : BOOLEAN, pos : A, primary : BOOLEAN]]
  BY DEF GalleryInv, ImageOK
<1>4. image' = [image EXCEPT ![i] = [row |-> TRUE, pos |-> n, primary |-> n = 0]]
  BY DEF CreateImage
<1> HIDE DEF i, n
<1>5. /\ image'[i] = [row |-> TRUE, pos |-> n, primary |-> n = 0]
      /\ \A j \in Images : j # i => image'[j] = image[j]
  BY <1>1, <1>3, <1>4
<1>6. Gallery' = Gallery \union {i}
  BY <1>1, <1>3, <1>5 DEF Gallery
<1>7. Cardinality(Gallery') = n + 1
  BY <1>1, <1>2, <1>6, FS_AddElement DEF n
<1>8. /\ Position'[i] = n /\ \A j \in Gallery : Position'[j] = Position[j]
      /\ Main'[i] = (n = 0) /\ \A j \in Gallery : Main'[j] = Main[j]
  BY <1>1, <1>5 DEF Position, Main, Gallery
<1>9. {Position'[j] : j \in Gallery'} = 0..(Cardinality(Gallery') - 1)
  <2>1. {Position'[j] : j \in Gallery'} = {Position[j] : j \in Gallery} \union {n}
    BY <1>6, <1>8
  <2>2. {Position[j] : j \in Gallery} = 0..(n - 1)
    BY DEF Arranged, n
  <2>3. 0..(n - 1) \union {n} = 0..n
    BY <1>2
  <2>4. Cardinality(Gallery') - 1 = n
    BY <1>2, <1>7
  <2> QED
    BY <2>1, <2>2, <2>3, <2>4
<1>10. Cardinality({j \in Gallery' : Main'[j]}) = 1
  <2>1. CASE n = 0
    <3>1. Gallery = {}
      BY <1>2, <2>1, FS_EmptySet DEF n
    <3>2. {j \in Gallery' : Main'[j]} = {i}
      BY <1>6, <1>8, <2>1, <3>1
    <3> QED
      BY <3>2, OneOf
  <2>2. CASE n # 0
    <3>1. Gallery # {}
      BY <2>2, FS_EmptySet DEF n
    <3>2. {j \in Gallery' : Main'[j]} = {j \in Gallery : Main[j]}
      BY <1>6, <1>8, <2>2
    <3> QED
      BY <3>1, <3>2 DEF Arranged
  <2> QED
    BY <2>1, <2>2
<1> QED
  BY <1>9, <1>10 DEF Arranged

\* A complete order is the new one.
LEMMA Reordered ==
  ASSUME GalleryInv, Arranged(Gallery, Position, Main), NEW r \in Requests, ReorderImages(r),
         req[r].arg \in [Gallery -> 0..(Cardinality(Gallery) - 1)],
         \A i, j \in Gallery : i # j => req[r].arg[i] # req[r].arg[j]
  PROVE  Arranged(Gallery, Position, Main)'
<1> DEFINE order == req[r].arg
<1>1. Gallery' = Gallery
  BY Rearranged DEF GalleryInv
<1>2. PICK A : image \in [Images -> [row : BOOLEAN, pos : A, primary : BOOLEAN]]
  BY DEF GalleryInv, ImageOK
<1>3. image' = [i \in Images |-> IF i \in Gallery THEN [image[i] EXCEPT !.pos = order[i]] ELSE image[i]]
  BY DEF ReorderImages
<1>4. {order[i] : i \in Gallery} = 0..(Cardinality(Gallery) - 1)
  BY GalleryFinite, NumberedOnce
<1> HIDE DEF order
<1>5. \A i \in Gallery : Position'[i] = order[i] /\ Main'[i] = Main[i]
  <2> SUFFICES ASSUME NEW i \in Gallery PROVE Position'[i] = order[i] /\ Main'[i] = Main[i]
    OBVIOUS
  <2>1. i \in Images
    BY DEF Gallery
  <2>2. image'[i] = [image[i] EXCEPT !.pos = order[i]] /\ image[i] \in [row : BOOLEAN, pos : A, primary : BOOLEAN]
    BY <1>2, <1>3, <2>1
  <2>3. image'[i].pos = order[i] /\ image'[i].primary = image[i].primary
    BY <2>2
  <2> QED
    BY <2>1, <2>3 DEF Position, Main
<1>6. {Position'[i] : i \in Gallery'} = {order[i] : i \in Gallery}
  BY <1>1, <1>5
<1>7. {i \in Gallery' : Main'[i]} = {i \in Gallery : Main[i]}
  BY <1>1, <1>5
<1> QED
  BY <1>1, <1>4, <1>6, <1>7 DEF Arranged

\* One primary takes the other's place.
LEMMA Starred ==
  ASSUME GalleryInv, Arranged(Gallery, Position, Main), NEW r \in Requests, SetPrimaryImage(r),
         req[r].arg \in Images
  PROVE  Arranged(Gallery, Position, Main)'
<1> DEFINE p == req[r].arg
<1>1. Gallery' = Gallery
  BY Rearranged DEF GalleryInv
<1>2. PICK A : image \in [Images -> [row : BOOLEAN, pos : A, primary : BOOLEAN]]
  BY DEF GalleryInv, ImageOK
<1>3. CASE image[p].row
  <2>1. image' = [i \in Images |-> [image[i] EXCEPT !.primary = i = p]] /\ p \in Gallery
    BY <1>3 DEF SetPrimaryImage, Gallery
  <2> HIDE DEF p
  <2>2. \A i \in Images : image'[i].pos = image[i].pos /\ image'[i].primary = (i = p)
    BY <1>2, <2>1
  <2>3. \A i \in Gallery : Position'[i] = Position[i] /\ Main'[i] = (i = p)
    BY <2>2 DEF Position, Main, Gallery
  <2>4. {Position'[i] : i \in Gallery'} = {Position[i] : i \in Gallery}
    BY <1>1, <2>3
  <2>5. {i \in Gallery' : Main'[i]} = {p}
    BY <1>1, <2>1, <2>3
  <2> QED
    BY <1>1, <2>4, <2>5, OneOf DEF Arranged
<1>4. CASE ~image[p].row
  <2>1. Position' = Position /\ Main' = Main
    BY <1>4 DEF SetPrimaryImage, Position, Main
  <2> QED
    BY <1>1, <2>1 DEF Arranged
<1> QED
  BY <1>3, <1>4

\* What is left closes the gap, and its first image is the primary.
LEMMA Closed ==
  ASSUME Arranged(Gallery, Position, Main), NEW r \in Requests, DeleteImage(r),
         req[r].arg \in Gallery
  PROVE  Arranged(Gallery, Position, Main)'
<1> DEFINE left == Gallery \ {req[r].arg}
           before == [i \in left |-> {j \in left : image[j].pos < image[i].pos}]
           place == [i \in left |-> Cardinality(before[i])]
           n == Cardinality(Gallery)
<1>1. /\ IsFiniteSet(left) /\ left \subseteq Images /\ left \subseteq Gallery
      /\ Cardinality(left) \in Nat /\ n \in Nat
  BY GalleryFinite, FS_Subset, FS_CardinalityType
<1>2. /\ \A i \in left : Position[i] \in Int
      /\ \A i, j \in left : i # j => Position[i] # Position[j]
  <2>1. {Position[i] : i \in Gallery} = 0..(n - 1)
    BY DEF Arranged
  <2>2. \A i, j \in Gallery : i # j => Position[i] # Position[j]
    BY <2>1, EachOnce, GalleryFinite
  <2> QED
    BY <1>1, <2>1, <2>2
<1>3. image' = [i \in Images |-> IF i \notin left THEN NoImage
                  ELSE [row |-> TRUE, pos |-> place[i], primary |-> place[i] = 0]]
  BY DEF DeleteImage
<1>4. /\ before \in [left -> SUBSET left]
      /\ \A i, j \in left : j \in before[i] <=> Position[j] < Position[i]
  <2>1. \A i \in left : Position[i] = image[i].pos
    BY <1>1 DEF Position
  <2> QED
    BY <2>1
<1>a. place = [i \in left |-> Cardinality(before[i])]
  OBVIOUS
<1> HIDE DEF left, n, before, place
<1>5. /\ place \in [left -> 0..(Cardinality(left) - 1)]
      /\ \A i, j \in left : i # j => place[i] # place[j]
      /\ {place[i] : i \in left} = 0..(Cardinality(left) - 1)
  BY <1>1, <1>2, <1>4, <1>a, PlacesClose
<1>6. ASSUME NEW i \in left
      PROVE  /\ i \in Images /\ image'[i].row = TRUE
             /\ Position'[i] = place[i] /\ Main'[i] = (place[i] = 0)
  <2>1. i \in Images /\ image'[i] = [row |-> TRUE, pos |-> place[i], primary |-> place[i] = 0]
    BY <1>1, <1>3
  <2>2. image'[i].row = TRUE /\ image'[i].pos = place[i] /\ image'[i].primary = (place[i] = 0)
    BY <2>1
  <2> QED
    BY <2>1, <2>2 DEF Position, Main
<1>7. ASSUME NEW i \in Images, i \notin left
      PROVE  image'[i].row = FALSE
  BY <1>3, <1>7 DEF NoImage
<1>8. Gallery' = left
  BY <1>6, <1>7 DEF Gallery
<1>9. \A i \in left : Position'[i] = place[i] /\ Main'[i] = (place[i] = 0)
  BY <1>6
<1>10. {Position'[i] : i \in left} = {place[i] : i \in left}
  BY <1>9
<1>11. ASSUME left # {}
       PROVE  Cardinality({i \in left : Main'[i]}) = 1
  <2>1. Cardinality(left) # 0
    BY <1>1, <1>11, FS_EmptySet
  <2>2. 0 \in 0..(Cardinality(left) - 1)
    BY <1>1, <2>1
  <2>3. PICK first \in left : place[first] = 0
    BY <1>5, <2>2
  <2>4. {i \in left : Main'[i]} = {first}
    BY <1>5, <1>9, <2>3
  <2> QED
    BY <2>4, OneOf
<1> QED
  BY <1>5, <1>8, <1>10, <1>11 DEF Arranged

\* Each step of an upload, an arrangement or a removal keeps the order.
LEMMA ArrangedSteps ==
  ASSUME GalleryInv, ArrangedInv, TurnInv, overlapped \subseteq overlapped',
         NEW r \in Requests, GalleryWork(r)
  PROVE  ArrangedInv'
<1>0. ReqOK
  BY DEF GalleryInv
<1>1. ASSUME NEW i \in Images, CheckUpload(r, i)
      PROVE  ArrangedInv'
  <2>1. Begin(r, "upload", "gallery", i, None) /\ UNCHANGED productVars
    BY <1>1 DEF CheckUpload
  <2>2. "upload" \in ArrangeKinds
    BY DEF ArrangeKinds
  <2> QED
    BY <1>0, <2>1, <2>2, ArrangedBegins
<1>2. ASSUME NEW order, CheckReorder(r, order)
      PROVE  ArrangedInv'
  <2>1. /\ Begin(r, "reorder", "gallery", order, None) /\ UNCHANGED productVars
        /\ order \in [Gallery -> 0..(Cardinality(Gallery) - 1)]
        /\ \A i, j \in Gallery : i # j => order[i] # order[j]
    BY <1>2 DEF CheckReorder
  <2>2. "reorder" \in ArrangeKinds
    BY DEF ArrangeKinds
  <2> QED
    BY <1>0, <2>1, <2>2, ArrangedBegins
<1>3. ASSUME NEW i \in Images, NEW kind \in {"primary", "delete"}, CheckImage(r, kind, i)
      PROVE  ArrangedInv'
  <2>1. Begin(r, kind, "gallery", i, None) /\ UNCHANGED productVars
    BY <1>3 DEF CheckImage
  <2>2. kind \in ArrangeKinds /\ kind # "reorder"
    BY DEF ArrangeKinds
  <2> QED
    BY <1>0, <2>1, <2>2, ArrangedBegins
<1>4. ASSUME NEW pc, NEW saw, Goes(r, pc, saw), Flying(r), pc = "done", image' = image
      PROVE  ArrangedInv'
  <2>1. Touches(r, {req[r].kind}) /\ req'[r].pc = "done"
    BY <1>0, <1>4, GoesStep
  <2> QED
    BY <1>4, <2>1, ArrangedIdle
<1>5. ASSUME NEW pc \in {"done", "deleted"}, Goes(r, pc, None), Flying(r), req[r].kind \in ArrangeKinds,
             "gallery" \notin overlapped => Arranged(Gallery, Position, Main)'
      PROVE  ArrangedInv'
  <2>1. /\ Touches(r, {req[r].kind}) /\ req'[r].pc = pc
        /\ req'[r].on = req[r].on /\ req'[r].arg = req[r].arg
    BY <1>0, <1>5, GoesStep
  <2> QED
    BY <1>5, <2>1, ArrangedWrites
<1>6. "gallery" \notin overlapped => Arranged(Gallery, Position, Main)
  BY DEF ArrangedInv
<1>7. ASSUME Flying(r), req[r].kind \in ArrangeKinds
      PROVE  ArrangeOK(r)
  BY <1>7 DEF ArrangedInv
<1>8. CASE CreateImage(r)
  <2>1. Flying(r) /\ At(r, "upload", "counted") /\ req[r].kind \in ArrangeKinds /\ Goes(r, "done", None)
    BY <1>8 DEF CreateImage, At, Flying, Ends, ArrangeKinds
  <2>2. "gallery" \notin overlapped => req[r].saw = Cardinality(Gallery)
    BY <1>7, <2>1 DEF ArrangeOK
  <2> QED
    BY <1>5, <1>6, <1>8, <2>1, <2>2, Appended
<1>9. CASE ReorderImages(r)
  <2>1. Flying(r) /\ At(r, "reorder", "checked") /\ req[r].kind \in ArrangeKinds /\ Goes(r, "done", None)
    BY <1>9 DEF ReorderImages, At, Flying, Ends, ArrangeKinds
  <2>2. "gallery" \notin overlapped =>
          /\ req[r].arg \in [Gallery -> 0..(Cardinality(Gallery) - 1)]
          /\ \A i, j \in Gallery : i # j => req[r].arg[i] # req[r].arg[j]
    BY <1>7, <2>1 DEF ArrangeOK
  <2> QED
    BY <1>5, <1>6, <1>9, <2>1, <2>2, Reordered
<1>10. CASE SetPrimaryImage(r)
  <2>1. Flying(r) /\ At(r, "primary", "checked") /\ req[r].kind \in ArrangeKinds /\ Goes(r, "done", None)
    BY <1>10 DEF SetPrimaryImage, At, Flying, Ends, ArrangeKinds
  <2>2. req[r].arg \in Images
    BY <1>7, <2>1 DEF ArrangeOK, At
  <2> QED
    BY <1>5, <1>6, <1>10, <2>1, <2>2, Starred
<1>11. CASE DeleteImage(r) /\ req[r].arg \in Gallery
  <2>1. Flying(r) /\ req[r].kind \in ArrangeKinds /\ Goes(r, "deleted", None)
    BY <1>11 DEF DeleteImage, At, Flying, ArrangeKinds
  <2> QED
    BY <1>5, <1>6, <1>11, <2>1, Closed
<1>12. CASE DeleteImage(r) /\ req[r].arg \notin Gallery
  BY <1>4, <1>12 DEF DeleteImage, Ends, At, Flying
<1>13. CASE RemoveFile(r)
  BY <1>4, <1>13 DEF RemoveFile, Ends, At, Flying
<1> QED
  BY <1>0, <1>1, <1>2, <1>3, <1>8, <1>9, <1>10, <1>11, <1>12, <1>13, ArrangedUpload DEF GalleryWork

-----------------------------------------------------------------------------
(* The product as a whole.                                                 *)

ProductInv ==
  ProductShape /\ StatusInv /\ PricesInv /\ RequiresInv /\ ArrangedInv /\ TurnInv

\* A step of anything but the product.
LEMMA ProductElsewhere ==
  ASSUME ProductInv, overlapped \subseteq overlapped', TurnInv', UNCHANGED productVars,
         NEW r \in Requests, NEW kinds, Touches(r, kinds),
         \/ kinds \intersect {"status", "variant", "requires", "upload", "reorder", "primary", "delete"} = {}
         \/ req'[r].pc = "done"
  PROVE  ProductInv'
<1>1. product' = product /\ variant' = variant /\ image' = image /\ UNCHANGED <<requires, sent>>
  BY DEF productVars
<1>2. ProductShape'
  BY <1>1 DEF ProductInv, ProductShape
<1>3. StatusInv'
  BY <1>1, StatusIdle DEF ProductInv
<1>4. PricesInv'
  BY <1>1, PricesIdle DEF ProductInv
<1>5. RequiresInv'
  BY <1>1, RequirementsIdle DEF ProductInv
<1>6. ArrangedInv'
  <2>1. kinds \intersect ArrangeKinds = {} \/ req'[r].pc = "done"
    BY DEF ArrangeKinds
  <2> QED
    BY <1>1, <2>1, ArrangedIdle DEF ProductInv
<1> QED
  BY <1>2, <1>3, <1>4, <1>5, <1>6 DEF ProductInv

\* One part's step leaves what the other parts say alone.
LEMMA ProductWork ==
  ASSUME GalleryInv, ProductInv, overlapped \subseteq overlapped', TurnInv', NEW r \in Requests,
         StatusWork(r) \/ VariantWork(r) \/ GalleryWork(r) \/ RequirementWork(r)
  PROVE  ProductInv'
<1>0. ReqOK
  BY DEF GalleryInv
<1> USE DEF ProductInv
<1>1. CASE StatusWork(r)
  <2>1. /\ Touches(r, {"status"}) /\ variant' = variant /\ image' = image
        /\ UNCHANGED <<requires, sent>> /\ ProductShape' /\ product'.range = product.range
    BY <1>0, <1>1, StatusMoves
  <2>2. StatusInv'
    BY <1>0, <1>1, StatusSteps
  <2>3. PricesInv' /\ RequiresInv'
    BY <2>1, PricesIdle, RequirementsIdle
  <2>4. ArrangedInv'
    BY <2>1, ArrangedIdle DEF ArrangeKinds
  <2> QED
    BY <2>1, <2>2, <2>3, <2>4
<1>2. CASE VariantWork(r)
  <2>1. /\ Touches(r, {"variant"}) /\ image' = image /\ UNCHANGED <<requires, sent>> /\ ProductShape'
        /\ product'.status = product.status /\ product'.stamps = product.stamps
    BY <1>0, <1>2, VariantMoves
  <2>2. PricesInv'
    BY <1>0, <1>2, PricesSteps
  <2>3. StatusInv' /\ RequiresInv'
    BY <2>1, StatusIdle, RequirementsIdle
  <2>4. ArrangedInv'
    BY <2>1, ArrangedIdle DEF ArrangeKinds
  <2> QED
    BY <2>1, <2>2, <2>3, <2>4
<1>3. CASE GalleryWork(r)
  <2>1. /\ Touches(r, {"upload", "reorder", "primary", "delete"}) /\ product' = product
        /\ variant' = variant /\ UNCHANGED <<requires, sent>>
    BY <1>0, <1>3, GalleryMoves
  <2>2. ProductShape'
    BY <2>1 DEF ProductShape
  <2>3. StatusInv' /\ PricesInv' /\ RequiresInv'
    BY <2>1, StatusIdle, PricesIdle, RequirementsIdle
  <2>4. ArrangedInv'
    BY <1>3, ArrangedSteps
  <2> QED
    BY <2>2, <2>3, <2>4
<1>4. CASE RequirementWork(r)
  <2>1. Touches(r, {"requires"}) /\ product' = product /\ variant' = variant /\ image' = image
    BY <1>0, <1>4, RequirementMoves
  <2>2. ProductShape'
    BY <2>1 DEF ProductShape
  <2>3. RequiresInv'
    BY <1>0, <1>4, RequirementSteps
  <2>4. StatusInv' /\ PricesInv'
    BY <2>1, StatusIdle, PricesIdle
  <2>5. ArrangedInv'
    BY <2>1, ArrangedIdle DEF ArrangeKinds
  <2> QED
    BY <2>2, <2>3, <2>4, <2>5
<1> QED
  BY <1>1, <1>2, <1>3, <1>4

\* Every step keeps the product in order.
LEMMA ProductStep ==
  ASSUME GalleryInv, ProductInv, [Next]_vars
  PROVE  ProductInv'
<1>0. ReqOK
  BY DEF GalleryInv
<1>1. TurnInv' /\ overlapped \subseteq overlapped'
  BY <1>0, TurnStep DEF ProductInv
<1>2. ASSUME UNCHANGED deskVars, UNCHANGED productVars
      PROVE  ProductInv'
  <2>1. /\ req' = req /\ overlapped' = overlapped /\ product' = product /\ variant' = variant
        /\ image' = image /\ requires' = requires /\ sent' = sent
    BY <1>2 DEF deskVars, productVars
  <2>2. ProductShape' /\ StatusInv' /\ RequiresInv'
    BY <2>1 DEF ProductInv, ProductShape, StatusInv, RequiresInv, Flying, At
  <2>3. PricesInv'
    <3>1. \A q \in Requests : PriceOK(q)' = PriceOK(q) /\ Flying(q)' = Flying(q)
      BY <2>1, Zenon DEF PriceOK, Edited, Flying
    <3> QED
      BY <2>1, <3>1 DEF ProductInv, PricesInv
  <2>4. ArrangedInv'
    <3>1. Gallery' = Gallery /\ Position' = Position /\ Main' = Main
      BY <2>1 DEF Gallery, Position, Main
    <3>2. \A q \in Requests : ArrangeOK(q)' = ArrangeOK(q) /\ Flying(q)' = Flying(q)
      BY <2>1, <3>1, Zenon DEF ArrangeOK, At, Flying
    <3>3. Arranged(Gallery, Position, Main)' = Arranged(Gallery, Position, Main)
      BY <3>1 DEF Arranged
    <3> QED
      BY <2>1, <3>2, <3>3 DEF ProductInv, ArrangedInv
  <2> QED
    BY <1>1, <2>2, <2>3, <2>4 DEF ProductInv
<1>3. ASSUME NEW r \in Requests, UNCHANGED productVars,
             TreeWork(r) \/ BannerWork(r) \/ VoucherWork(r) \/ Crash(r)
      PROVE  ProductInv'
  <2>1. CASE TreeWork(r)
    BY <1>0, <1>1, <1>3, <2>1, CategoryWork, ProductElsewhere
  <2>2. CASE BannerWork(r)
    BY <1>0, <1>1, <1>3, <2>2, WindowWork, ProductElsewhere
  <2>3. CASE VoucherWork(r)
    BY <1>0, <1>1, <1>3, <2>3, CampaignWork, ProductElsewhere
  <2>4. CASE Crash(r)
    <3>1. Touches(r, {req[r].kind}) /\ req'[r].pc = "done"
      BY <1>0, <2>4, EndsStep DEF Crash
    <3> QED
      BY <1>1, <1>3, <3>1, ProductElsewhere
  <2> QED
    BY <1>3, <2>1, <2>2, <2>3, <2>4
<1>4. CASE UNCHANGED vars
  BY <1>2, <1>4 DEF vars
<1>5. CASE \E p \in Pictures : UploadBanner(p) /\ OnlyBanner
  BY <1>2, <1>5 DEF UploadBanner, OnlyBanner
<1>6. CASE Redeem /\ OnlyVoucher
  BY <1>2, <1>6 DEF Redeem, OnlyVoucher
<1> QED
  BY <1>1, <1>3, <1>4, <1>5, <1>6, ProductWork DEF Next, OnlyTree, OnlyBanner, OnlyVoucher

\* A product as it may be found: its prices,
LEMMA PricesBegin ==
  ASSUME VariantsMade \/ NoVariants \/ SoldVariant
  PROVE  /\ ProductShape /\ product.status = "DRAFT" /\ product.stamps = 0
         /\ variant = [v \in Variants |-> variant[v]] /\ product.range = PriceRange(variant)
         /\ \A v \in Variants : IsVariant(variant[v]) /\ Honest(variant[v])
<1>1. \A p : [price |-> p, was |-> 0, archived |-> FALSE]
               = [f \in {"price", "was", "archived"} |->
                    [price |-> p, was |-> 0, archived |-> FALSE][f]]
  OBVIOUS
<1>2. ASSUME variant = [v \in Variants |-> variant[v]],
             \A v \in Variants : \E p : variant[v] = [price |-> p, was |-> 0, archived |-> FALSE],
             product = [status |-> "DRAFT", stamps |-> 0, range |-> PriceRange(variant)]
      PROVE  /\ ProductShape /\ product.status = "DRAFT" /\ product.stamps = 0
             /\ variant = [v \in Variants |-> variant[v]] /\ product.range = PriceRange(variant)
             /\ \A v \in Variants : IsVariant(variant[v]) /\ Honest(variant[v])
  <2> DEFINE range == PriceRange(variant)
  <2>1. product = [status |-> "DRAFT", stamps |-> 0, range |-> range]
    BY <1>2
  <2> HIDE DEF range
  <2>2. /\ product.status = "DRAFT" /\ product.stamps = 0 /\ product.range = range
        /\ product = [status |-> product.status, stamps |-> product.stamps, range |-> product.range]
    BY <2>1
  <2>3. ASSUME NEW v \in Variants
        PROVE  IsVariant(variant[v]) /\ Honest(variant[v])
    BY <1>1, <1>2 DEF IsVariant, Honest
  <2> QED
    BY <1>2, <2>2, <2>3 DEF ProductShape, range
<1>3. CASE VariantsMade
  <2>1. \A v \in Variants : variant[v] \in {NoVariant} \union [price : Prices, was : {0}, archived : {FALSE}]
    BY <1>3 DEF VariantsMade
  <2>2. \A v \in Variants : \E p : variant[v] = [price |-> p, was |-> 0, archived |-> FALSE]
    BY <2>1 DEF NoVariant
  <2>3. variant = [v \in Variants |-> variant[v]]
    BY <1>3 DEF VariantsMade
  <2> QED
    BY <1>2, <1>3, <2>2, <2>3 DEF VariantsMade
<1>4. CASE NoVariants
  <2>1. \A v \in Variants : variant[v] = [price |-> 0, was |-> 0, archived |-> FALSE]
    BY <1>4 DEF NoVariants, NoVariant
  <2>2. Sellable(variant) = {}
    BY <2>1 DEF Sellable
  <2>3. PriceRange(variant) = <<0, 0>>
    BY <2>2 DEF PriceRange
  <2>4. variant = [v \in Variants |-> variant[v]]
    BY <1>4 DEF NoVariants
  <2> QED
    BY <1>2, <1>4, <2>1, <2>3, <2>4 DEF NoVariants
<1>5. CASE SoldVariant
  <2> DEFINE p == Min(Prices)
  <2>1. /\ variant = [v \in Variants |-> [NoVariant EXCEPT !.price = p]]
        /\ product = [status |-> "DRAFT", stamps |-> 0, range |-> PriceRange(variant)]
    BY <1>5 DEF SoldVariant
  <2> HIDE DEF p
  <2>2. \A v \in Variants : variant[v] = [price |-> p, was |-> 0, archived |-> FALSE]
    BY <2>1 DEF NoVariant
  <2>3. variant = [v \in Variants |-> variant[v]]
    BY <2>1
  <2> QED
    BY <1>2, <2>1, <2>2, <2>3
<1> QED
  BY <1>3, <1>4, <1>5

\* and its gallery.
LEMMA ArrangedBegin ==
  ASSUME NoImages \/ OneImage \/ ImagesMade
  PROVE  Arranged(Gallery, Position, Main)
<1>1. CASE NoImages
  <2>1. Gallery = {}
    BY <1>1 DEF NoImages, NoImage, Gallery
  <2>2. Cardinality(Gallery) = 0 /\ 0..(0 - 1) = {}
    BY <2>1, FS_EmptySet
  <2> QED
    BY <2>1, <2>2 DEF Arranged
<1>2. CASE OneImage
  <2>1. PICK i \in Images :
          image = [j \in Images |-> IF j = i THEN [row |-> TRUE, pos |-> 0, primary |-> TRUE] ELSE NoImage]
    BY <1>2 DEF OneImage
  <2>2. Gallery = {i} /\ Position[i] = 0 /\ Main[i] = TRUE
    BY <2>1 DEF Gallery, Position, Main, NoImage
  <2>3. Cardinality(Gallery) = 1 /\ {j \in Gallery : Main[j]} = {i} /\ {Position[j] : j \in Gallery} = {0}
    BY <2>2, OneOf
  <2>4. 0..(1 - 1) = {0}
    OBVIOUS
  <2> QED
    BY <2>3, <2>4, OneOf DEF Arranged
<1>3. CASE ImagesMade
  <2>1. PICK g \in SUBSET Images, first \in Images, main \in Images :
          /\ Cardinality(g) = 2 /\ {first, main} \subseteq g
          /\ image = [i \in Images |->
               IF i \in g THEN [row |-> TRUE, pos |-> IF i = first THEN 0 ELSE 1, primary |-> i = main]
               ELSE NoImage]
    BY <1>3 DEF ImagesMade
  <2>2. /\ \A i \in g : image[i].row = TRUE /\ image[i].pos = (IF i = first THEN 0 ELSE 1)
                        /\ image[i].primary = (i = main)
        /\ \A i \in Images \ g : image[i].row = FALSE
    BY <2>1 DEF NoImage
  <2>3. Gallery = g
    BY <2>2 DEF Gallery
  <2>4. \A i \in g : Position[i] = (IF i = first THEN 0 ELSE 1) /\ Main[i] = (i = main)
    BY <2>2 DEF Position, Main
  <2>5. PICK other \in g : other # first
    <3>1. g # {first}
      BY <2>1, OneOf
    <3> QED
      BY <2>1, <3>1
  <2>6. {Position[i] : i \in g} = {0, 1}
    BY <2>1, <2>4, <2>5
  <2>7. {i \in g : Main[i]} = {main}
    BY <2>1, <2>4
  <2>8. 0..(2 - 1) = {0, 1}
    OBVIOUS
  <2> QED
    BY <2>1, <2>3, <2>6, <2>7, <2>8, OneOf DEF Arranged
<1> QED
  BY <1>1, <1>2, <1>3

\* The product is in order in every first state.
LEMMA ProductBegins ==
  ASSUME Init
  PROVE  ProductInv
<1>1. \A r \in Requests : ~Flying(r) /\ req[r].pc = "new"
  BY NoneSent DEF Init, Flying
<1>2. /\ ProductShape /\ product.status = "DRAFT" /\ product.stamps = 0
      /\ variant = [v \in Variants |-> variant[v]] /\ product.range = PriceRange(variant)
      /\ \A v \in Variants : IsVariant(variant[v]) /\ Honest(variant[v])
  BY PricesBegin DEF Init, NewProduct
<1>3. Arranged(Gallery, Position, Main)
  BY ArrangedBegin DEF Init, NewProduct
<1>4. requires = sent
  BY DEF Init, NewProduct, NoTools
<1>5. StatusInv
  BY <1>1, <1>2 DEF StatusInv, At
<1> QED
  BY <1>1, <1>2, <1>3, <1>4, <1>5 DEF ProductInv, PricesInv, RequiresInv, ArrangedInv, TurnInv

\* Whatever operators do to a product one after another, its range, its
\* markdowns, its gallery, its requirements and its date are in order.
THEOREM ProductTheorem == Spec => []ProductInOrder
<1>1. Init => ProductInv
  BY ProductBegins
<1>2. GalleryInv /\ ProductInv /\ [Next]_vars => ProductInv'
  BY ProductStep
<1>3. ProductInv => ProductInOrder
  <2> SUFFICES ASSUME ProductInv PROVE ProductInOrder
    OBVIOUS
  <2>1. PriceRangeCurrent /\ MarkdownHonest
    BY DEF ProductInv, PricesInv, PriceRangeCurrent, MarkdownHonest, Honest
  <2>2. RequirementsReplaced /\ PublishedOnce
    BY DEF ProductInv, RequiresInv, StatusInv, RequirementsReplaced, PublishedOnce
  <2>3. GalleryInOrder
    <3>1. \A i \in Gallery : Position[i] = image[i].pos /\ Main[i] = image[i].primary
      BY DEF Gallery, Position, Main
    <3>2. /\ {Position[i] : i \in Gallery} = {image[i].pos : i \in Gallery}
          /\ {i \in Gallery : Main[i]} = {i \in Gallery : image[i].primary}
      BY <3>1
    <3>3. "gallery" \notin overlapped => Arranged(Gallery, Position, Main)
      BY DEF ProductInv, ArrangedInv
    <3> QED
      BY <3>2, <3>3 DEF Arranged, GalleryInOrder
  <2> QED
    BY <2>1, <2>2, <2>3 DEF ProductInOrder
<1> QED
  BY <1>1, <1>2, <1>3, GalleryInvariant, PTL DEF Spec
=============================================================================
