----------------------------- MODULE BackOffice -----------------------------
(***************************************************************************)
(* The back office: operators at work on one product, on the category      *)
(* tree, on a banner or on a voucher.  What they write is disjoint, so the *)
(* requests of a behaviour are all about one thing: a product's status,    *)
(* variants, gallery or requirements, the tree, the banner or the voucher. *)
(***************************************************************************)
EXTENDS ProductDesk, CategoryTree, BannerDesk, VoucherDesk

vars == <<deskVars, productVars, treeVars, bannerVars, voucherVars>>

\* One part is as operators may have left it, the others are untouched.
Init ==
  /\ DeskInit
  /\ \/ /\ \/ VariantsMade /\ NoImages
           \/ NoVariants /\ ImagesMade
        /\ NoTools /\ NoTree /\ NoBanner /\ NoVoucher
     \/ SoldVariant /\ OneImage /\ NoTools /\ NoTree /\ NoBanner /\ NoVoucher
     \/ NewProduct /\ TreeInit /\ NoBanner /\ NoVoucher
     \/ NewProduct /\ NoTree /\ BannerInit /\ NoVoucher
     \/ NewProduct /\ NoTree /\ NoBanner /\ VoucherInit

\* What the requests sent so far are about.
WorkingOn(kinds) == \A r \in Requests : req[r].pc # "new" => req[r].kind \in kinds

OnlyProduct == UNCHANGED <<treeVars, bannerVars, voucherVars>>
OnlyTree == UNCHANGED <<productVars, bannerVars, voucherVars>>
OnlyBanner == UNCHANGED <<productVars, treeVars, voucherVars>>
OnlyVoucher == UNCHANGED <<productVars, treeVars, bannerVars>>

StatusWork(r) ==
  \/ \E to \in ProductStatus : CheckStatus(r, to)
  \/ ReadStamp(r)
  \/ WriteStatus(r)

\* A variant edit changes a price, a compare-at price or both, or retires the
\* variant or brings it back.
VariantChanges ==
  [{"price"} -> Prices] \union [{"was"} -> Prices \union {0}]
    \union [price : Prices, was : Prices] \union [{"archived"} -> BOOLEAN]

VariantWork(r) ==
  \/ \E v \in Variants : \E p \in Prices, w \in Prices \union {0} : CheckNewVariant(r, v, p, w)
  \/ \E v \in Variants : \E change \in VariantChanges : CheckEdit(r, v, change)
  \/ WriteVariant(r)
  \/ CommitVariant(r)

GalleryWork(r) ==
  \/ \E i \in Images : CheckUpload(r, i)
  \/ StoreFile(r)
  \/ CountImages(r)
  \/ CreateImage(r)
  \/ \E order \in [Gallery -> 0..Cardinality(Images)] : CheckReorder(r, order)
  \/ ReorderImages(r)
  \/ \E i \in Images, kind \in {"primary", "delete"} : CheckImage(r, kind, i)
  \/ SetPrimaryImage(r)
  \/ DeleteImage(r)
  \/ RemoveFile(r)

RequirementWork(r) ==
  \/ \E list \in SUBSET Tools : CheckRequirements(r, list)
  \/ DeleteRequirements(r)
  \/ InsertRequirements(r)

TreeWork(r) ==
  \/ \E c \in Categories, type \in CategoryTypes, p \in Categories \union {None} :
       CheckCreate(r, c, type, p)
  \/ \E c \in Categories, p \in Categories \union {None} : CheckMove(r, c, p)
  \/ \E c \in Categories : CheckDelete(r, c)
  \/ CreateCategory(r)
  \/ UpdateCategory(r)
  \/ DeleteCategory(r)

\* A banner edit moves one end of the window, or names a picture.
BannerChanges ==
  [{"starts"} -> Bounds] \union [{"ends"} -> Bounds] \union
  [{"picture"} -> {p \in Pictures : origin[p] # "none"}]

BannerWork(r) ==
  \/ \E s, e \in Bounds, p \in Pictures : CheckNewBanner(r, [starts |-> s, ends |-> e], p)
  \/ CreateBanner(r)
  \/ \E change \in BannerChanges : CheckBanner(r, change)
  \/ UpdateBanner(r)
  \/ CheckRemoveBanner(r)
  \/ RemoveBanner(r)
  \/ RemovePicture(r)

VoucherChanges ==
  [{"percentOff"} -> Percentage] \union [{"amountIdr"} -> Rupiah]
    \union [{"maxDiscountIdr"} -> Rupiah]
    \union [{"startsAt"} -> Days] \union [{"endsAt"} -> Days]

VoucherWork(r) ==
  \/ \E v \in NewVouchers : CheckNewVoucher(r, v)
  \/ CreateVoucher(r)
  \/ \E change \in VoucherChanges : CheckVoucher(r, change)
  \/ UpdateVoucher(r)
  \/ CheckRemoveVoucher(r)
  \/ RemoveVoucher(r)

\* A request takes up what the requests before it are about.
Next ==
  \/ \E r \in Requests :
       \/ OnlyProduct /\ \/ WorkingOn({"status"}) /\ StatusWork(r)
                         \/ WorkingOn({"variant"}) /\ VariantWork(r)
                         \/ WorkingOn({"upload", "reorder", "primary", "delete"}) /\ GalleryWork(r)
                         \/ WorkingOn({"requires"}) /\ RequirementWork(r)
       \/ OnlyTree /\ WorkingOn({"create", "move", "remove"}) /\ TreeWork(r)
       \/ OnlyBanner /\ WorkingOn({"newbanner", "banner", "unbanner"}) /\ BannerWork(r)
       \/ OnlyVoucher /\ WorkingOn({"newvoucher", "voucher", "unvoucher"}) /\ VoucherWork(r)
       \/ Crash(r) /\ UNCHANGED <<productVars, treeVars, bannerVars, voucherVars>>
  \/ \E p \in Pictures : banner # None /\ UploadBanner(p) /\ OnlyBanner
  \/ Redeem /\ OnlyVoucher

Spec == Init /\ [][Next]_vars
=============================================================================
