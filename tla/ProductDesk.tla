---------------------------- MODULE ProductDesk -----------------------------
(***************************************************************************)
(* One product in the back office: its status, its variants and the price  *)
(* range computed from them, its gallery and the files behind it, and the  *)
(* tools a kit requires.                                                   *)
(*                                                                         *)
(* A transaction runs at READ COMMITTED and takes no lock but those of the *)
(* rows it writes, so what it reads may be old when it commits.            *)
(***************************************************************************)
EXTENDS Desk

CONSTANTS
  Variants,  \* variants the product may have
  Prices,    \* what a variant may cost, and be marked down from
  Images,    \* images that may be uploaded
  Tools      \* tools a kit may require

ASSUME PricesAssumption == Prices \subseteq Nat \ {0}
ASSUME ImagesAssumption == IsFiniteSet(Images)

ProductStatus == {"DRAFT", "PUBLISHED", "ARCHIVED"}

VARIABLES
  product,   \* status, how often published_at was stamped, and the price range
  variant,   \* price, compare-at price (0 for none) and is_archived; price 0 for no row
  image,     \* the image rows: is there one, its position, is it the primary
  files,     \* the files in the media directory
  requires,  \* product_requirement rows
  sent       \* history: the last list of requirements that was stored

productVars == <<product, variant, image, files, requires, sent>>

NoVariant == [price |-> 0, was |-> 0, archived |-> FALSE]
NoImage == [row |-> FALSE, pos |-> 0, primary |-> FALSE]

\* A row with the columns a request names replaced.
Overlaid(row, change) ==
  [f \in DOMAIN row |-> IF f \in DOMAIN change THEN change[f] ELSE row[f]]

Sellable(vs) == {v \in Variants : vs[v].price > 0 /\ ~vs[v].archived}

\* priceRange: of the variants on sale, 0/0 when there are none.
PriceRange(vs) ==
  LET prices == {vs[v].price : v \in Sellable(vs)}
  IN IF prices = {} THEN <<0, 0>> ELSE <<Min(prices), Max(prices)>>

Gallery == {i \in Images : image[i].row}

\* A product as it is created: a draft without variants, images or tools.
NoVariants ==
  /\ variant = [v \in Variants |-> NoVariant]
  /\ product = [status |-> "DRAFT", stamps |-> 0, range |-> <<0, 0>>]
NoImages == image = [i \in Images |-> NoImage] /\ files = {}
NoTools == requires = {} /\ sent = {}
NewProduct == NoVariants /\ NoImages /\ NoTools

\* A product an operator has worked on: with variants, or with images in any
\* order and any of them the primary.
VariantsMade ==
  /\ variant \in [Variants -> {NoVariant} \union
                               [price : Prices, was : {0}, archived : {FALSE}]]
  /\ product = [status |-> "DRAFT", stamps |-> 0, range |-> PriceRange(variant)]

SoldVariant ==
  /\ variant = [v \in Variants |-> [NoVariant EXCEPT !.price = Min(Prices)]]
  /\ product = [status |-> "DRAFT", stamps |-> 0, range |-> PriceRange(variant)]

OneImage ==
  /\ \E i \in Images :
       image = [j \in Images |-> IF j = i THEN [row |-> TRUE, pos |-> 0, primary |-> TRUE] ELSE NoImage]
  /\ files = Gallery

ImagesMade ==
  \E g \in SUBSET Images, first, main \in Images :
    /\ Cardinality(g) = 2
    /\ {first, main} \subseteq g
    /\ image = [i \in Images |->
         IF i \in g THEN [row |-> TRUE, pos |-> IF i = first THEN 0 ELSE 1, primary |-> i = main]
         ELSE NoImage]
    /\ files = g

-----------------------------------------------------------------------------
(* Status.                                                                 *)

\* Publishing is refused while there is nothing to sell or nothing to show.
CheckStatus(r, to) ==
  /\ to = "PUBLISHED" => Sellable(variant) # {} /\ Gallery # {}
  /\ Begin(r, "status", "status", to, None)
  /\ UNCHANGED productVars

\* setStatus reads whether the product was ever published ...
ReadStamp(r) ==
  /\ At(r, "status", "checked")
  /\ Goes(r, "read", product.stamps)
  /\ UNCHANGED productVars

\* Mutant of IsFirstPublish: stamps every publication.
IsAnyPublish(to, stamps) == to = "PUBLISHED"

IsFirstPublish(to, stamps) == to = "PUBLISHED" /\ stamps = 0

\* ... and stamps published_at the first time only.
WriteStatus(r) ==
  /\ At(r, "status", "read")
  /\ product' = [product EXCEPT
       !.status = req[r].arg,
       !.stamps = @ + (IF IsFirstPublish(req[r].arg, req[r].saw) THEN 1 ELSE 0)]
  /\ Ends(r)
  /\ UNCHANGED <<variant, image, files, requires, sent>>

-----------------------------------------------------------------------------
(* Variants.                                                               *)

\* Mutant of HonestMarkdown: checks what was sent and not what is stored.
HonestAsSent(edited, sentFields) ==
  {"price", "was"} \subseteq sentFields => edited.was = 0 \/ edited.was > edited.price

\* assertComparePrice, when either price is part of the request: both are
\* resolved against what is stored.
HonestMarkdown(edited, sentFields) ==
  sentFields \intersect {"price", "was"} # {} => edited.was = 0 \/ edited.was > edited.price

CheckNewVariant(r, v, p, w) ==
  /\ variant[v].price = 0
  /\ LET new == [price |-> p, was |-> w, archived |-> FALSE] IN
     /\ HonestMarkdown(new, {"price", "was"})
     /\ Begin(r, "variant", "prices", [of |-> v, set |-> new], None)
  /\ UNCHANGED productVars

\* An edit names the columns it changes; the others stay as they are when it
\* is written, not as they were when it was checked.
CheckEdit(r, v, change) ==
  /\ variant[v].price > 0
  /\ HonestMarkdown(Overlaid(variant[v], change), DOMAIN change)
  /\ Begin(r, "variant", "prices", [of |-> v, set |-> change], None)
  /\ UNCHANGED productVars

Edited(r) ==
  [variant EXCEPT ![req[r].arg.of] = Overlaid(@, req[r].arg.set)]

\* Mutant of WriteVariant: the range is read before the variant is written.
ReadRangeFirst(r) ==
  /\ At(r, "variant", "checked")
  /\ \A q \in InFlight("prices") : ~(At(q, "variant", "written") /\ req[q].arg.of = req[r].arg.of)
  /\ Goes(r, "written", PriceRange(variant))
  /\ UNCHANGED productVars

\* The transaction writes the variant, whose row it locks until it commits, and
\* reads the variants of the product: its own as written, the others as others
\* have committed them.
WriteVariant(r) ==
  /\ At(r, "variant", "checked")
  /\ \A q \in InFlight("prices") : ~(At(q, "variant", "written") /\ req[q].arg.of = req[r].arg.of)
  /\ Goes(r, "written", PriceRange(Edited(r)))
  /\ UNCHANGED productVars

\* refreshPriceRange writes what was computed, and all of it is committed.
CommitVariant(r) ==
  /\ At(r, "variant", "written")
  /\ variant' = Edited(r)
  /\ product' = [product EXCEPT !.range = req[r].saw]
  /\ Ends(r)
  /\ UNCHANGED <<image, files, requires, sent>>

-----------------------------------------------------------------------------
(* Images.                                                                 *)

CheckUpload(r, i) ==
  /\ ~image[i].row
  /\ i \notin files
  /\ \A q \in InFlight("gallery") : ~(req[q].kind = "upload" /\ req[q].arg = i)
  /\ Begin(r, "upload", "gallery", i, None)
  /\ UNCHANGED productVars

\* Mutant of StoreFile: the row comes first and the file after it.
StoreNothingYet(r) ==
  /\ At(r, "upload", "checked")
  /\ Goes(r, "stored", None)
  /\ UNCHANGED productVars

StoreFile(r) ==
  /\ At(r, "upload", "checked")
  /\ files' = files \union {req[r].arg}
  /\ Goes(r, "stored", None)
  /\ UNCHANGED <<product, variant, image, requires, sent>>

CountImages(r) ==
  /\ At(r, "upload", "stored")
  /\ Goes(r, "counted", Cardinality(Gallery))
  /\ UNCHANGED productVars

\* createImage appends; the first image a product gets is its primary.
CreateImage(r) ==
  /\ At(r, "upload", "counted")
  /\ image' = [image EXCEPT ![req[r].arg] =
       [row |-> TRUE, pos |-> req[r].saw, primary |-> req[r].saw = 0]]
  /\ Ends(r)
  /\ UNCHANGED <<product, variant, files, requires, sent>>

\* reorder: the new order has to list the images exactly once each.
CheckReorder(r, order) ==
  /\ Gallery # {}
  /\ order \in [Gallery -> 0..(Cardinality(Gallery) - 1)]
  /\ \A i, j \in Gallery : i # j => order[i] # order[j]
  /\ Begin(r, "reorder", "gallery", order, None)
  /\ UNCHANGED productVars

\* reorderImages: an image that is gone fails the whole transaction.
ReorderImages(r) ==
  /\ At(r, "reorder", "checked")
  /\ image' = IF DOMAIN req[r].arg \subseteq Gallery
              THEN [i \in Images |-> IF i \in DOMAIN req[r].arg
                                     THEN [image[i] EXCEPT !.pos = req[r].arg[i]]
                                     ELSE image[i]]
              ELSE image
  /\ Ends(r)
  /\ UNCHANGED <<product, variant, files, requires, sent>>

CheckImage(r, kind, i) ==
  /\ image[i].row
  /\ Begin(r, kind, "gallery", i, None)
  /\ UNCHANGED productVars

\* Mutant of SetPrimaryImage: leaves the others as they were.
AddPrimaryImage(r) ==
  /\ At(r, "primary", "checked")
  /\ image' = IF image[req[r].arg].row
              THEN [image EXCEPT ![req[r].arg].primary = TRUE]
              ELSE image
  /\ Ends(r)
  /\ UNCHANGED <<product, variant, files, requires, sent>>

SetPrimaryImage(r) ==
  /\ At(r, "primary", "checked")
  /\ image' = IF image[req[r].arg].row
              THEN [i \in Images |-> [image[i] EXCEPT !.primary = i = req[r].arg]]
              ELSE image
  /\ Ends(r)
  /\ UNCHANGED <<product, variant, files, requires, sent>>

\* deleteImage closes the gap and makes the first of what is left the primary,
\* whichever image was deleted; the file goes after the row.
DeleteImage(r) ==
  /\ At(r, "delete", "checked")
  /\ LET gone == req[r].arg  left == Gallery \ {gone} IN
     IF gone \in Gallery
     THEN /\ image' = [i \in Images |->
               IF i \notin left THEN NoImage
               ELSE LET place == Cardinality({j \in left : image[j].pos < image[i].pos})
                    IN [row |-> TRUE, pos |-> place, primary |-> place = 0]]
          /\ Goes(r, "deleted", None)
     ELSE Ends(r) /\ UNCHANGED image
  /\ UNCHANGED <<product, variant, files, requires, sent>>

RemoveFile(r) ==
  /\ At(r, "delete", "deleted")
  /\ files' = files \ {req[r].arg}
  /\ Ends(r)
  /\ UNCHANGED <<product, variant, image, requires, sent>>

-----------------------------------------------------------------------------
(* Requirements.                                                           *)

CheckRequirements(r, list) ==
  /\ Begin(r, "requires", "requires", list, None)
  /\ UNCHANGED productVars

\* Mutant of DeleteRequirements: only ever adds.
KeepRequirements(r) ==
  /\ At(r, "requires", "checked")
  /\ Goes(r, "deleted", {})
  /\ UNCHANGED productVars

\* setRequirements deletes the rows it sees ...
DeleteRequirements(r) ==
  /\ At(r, "requires", "checked")
  /\ \A q \in Requests : ~(At(q, "requires", "deleted") /\ req[q].saw # {})
  /\ Goes(r, "deleted", requires)
  /\ UNCHANGED productVars

\* ... and inserts the list.  Rows another request inserted in between are not
\* among those deleted: a tool in both lists fails the unique index, and with
\* it the transaction.
InsertRequirements(r) ==
  /\ At(r, "requires", "deleted")
  /\ LET left == requires \ req[r].saw IN
     IF left \intersect req[r].arg = {}
     THEN requires' = left \union req[r].arg /\ sent' = req[r].arg
     ELSE UNCHANGED <<requires, sent>>
  /\ Ends(r)
  /\ UNCHANGED <<product, variant, image, files>>

-----------------------------------------------------------------------------
\* The range on the card is the range of the variants on sale, whatever was
\* added, repriced, retired or brought back, one request after another.
PriceRangeCurrent == "prices" \notin overlapped => product.range = PriceRange(variant)

\* A struck-through price is higher than the one charged, whichever of the two
\* was edited last.
MarkdownHonest ==
  "prices" \notin overlapped =>
    \A v \in Variants : variant[v].was = 0 \/ variant[v].was > variant[v].price

\* After any sequence of uploads, arrangements and removals the gallery is in
\* positions 0, 1, 2 ... and has exactly one primary image.
GalleryInOrder ==
  "gallery" \notin overlapped =>
    /\ {image[i].pos : i \in Gallery} = 0..(Cardinality(Gallery) - 1)
    /\ Gallery # {} => Cardinality({i \in Gallery : image[i].primary}) = 1

\* "An orphaned file is invisible and reclaimable; a broken image URL is on the
\* storefront": a row never points at a file that is not there, whatever runs
\* at once and wherever a request dies.
RowsHaveFiles == Gallery \subseteq files

\* A product that is for sale has its date, and keeps its first one: publishing
\* it again does not make it new.
PublishedOnce ==
  /\ product.status = "PUBLISHED" => product.stamps > 0
  /\ "status" \notin overlapped => product.stamps <= 1

\* What a kit requires is the last list stored, and not a merge of two.
RequirementsReplaced == "requires" \notin overlapped => requires = sent

\* Whatever operators do to a product one after another, its range, its
\* markdowns, its gallery, its requirements and its date are in order.
ProductInOrder ==
  PriceRangeCurrent /\ MarkdownHonest /\ GalleryInOrder /\ RequirementsReplaced /\ PublishedOnce
=============================================================================
