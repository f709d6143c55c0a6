----------------------------- MODULE BannerDesk -----------------------------
(***************************************************************************)
(* One banner of the home page: the window it shows in and its picture.    *)
(* An edit names the columns it changes; the window is completed from the  *)
(* banner as it was read, checked, and both its ends are written.          *)
(***************************************************************************)
EXTENDS Desk

CONSTANTS
  Times,     \* instants a window may begin or end at
  Pictures   \* pictures that may be uploaded

ASSUME TimesAssumption == Times \subseteq Nat

VARIABLES
  banner,   \* the row: its window and its picture, None if there is none
  pictures, \* files in the media directory
  origin    \* history: whether a picture was uploaded, and then named by one
            \* edit or by a form sent again

bannerVars == <<banner, pictures, origin>>

NoBanner ==
  /\ banner = None
  /\ pictures = {}
  /\ origin = [p \in Pictures |-> "none"]

BannerInit ==
  /\ \E p \in Pictures :
       banner \in {[starts |-> s, ends |-> None, picture |-> p] : s \in Times \union {None}}
  /\ pictures = {banner.picture}
  /\ origin = [p \in Pictures |-> IF p = banner.picture THEN "named" ELSE "none"]

Bounds == Times \union {None}

-----------------------------------------------------------------------------
\* uploadImage: the file is written before any banner names it.
UploadBanner(p) ==
  /\ origin[p] = "none"
  /\ pictures' = pictures \union {p}
  /\ origin' = [origin EXCEPT ![p] = "fresh"]
  /\ UNCHANGED <<banner, deskVars>>

\* The window an edit would leave: an end it does not name is the stored one.
WindowOf(change) ==
  [starts |-> IF "starts" \in DOMAIN change THEN change.starts ELSE banner.starts,
   ends   |-> IF "ends" \in DOMAIN change THEN change.ends ELSE banner.ends]

WindowOpens(w) == w.starts # None /\ w.ends # None => w.ends > w.starts

\* An edit or a new banner names a picture.
Names(change) ==
  origin' = [p \in Pictures |->
    IF "picture" \notin DOMAIN change \/ change.picture # p THEN origin[p]
    ELSE IF origin[p] = "fresh" THEN "named" ELSE "resent"]

CheckNewBanner(r, w, p) ==
  /\ banner = None
  /\ origin[p] # "none"
  /\ WindowOpens(w)
  /\ Names([picture |-> p])
  /\ Begin(r, "newbanner", "banner", [picture |-> p] , w)
  /\ UNCHANGED <<banner, pictures>>

CreateBanner(r) ==
  /\ At(r, "newbanner", "checked")
  /\ banner' = IF banner # None THEN banner
               ELSE [starts |-> req[r].saw.starts, ends |-> req[r].saw.ends,
                     picture |-> req[r].arg.picture]
  /\ Ends(r)
  /\ UNCHANGED <<pictures, origin>>

CheckBanner(r, change) ==
  /\ banner # None
  /\ WindowOpens(WindowOf(change))
  /\ Names(change)
  /\ Begin(r, "banner", "banner", [change |-> change, window |-> WindowOf(change)], banner)
  /\ UNCHANGED <<banner, pictures>>

\* Mutant of Written: writes only the ends the edit names.
WrittenAsSent(r) ==
  [f \in DOMAIN banner |->
     IF f \in DOMAIN req[r].arg.change THEN req[r].arg.change[f] ELSE banner[f]]

\* The row an edit leaves: both ends of its window, the picture if it named one.
Written(r) ==
  [starts |-> req[r].arg.window.starts,
   ends |-> req[r].arg.window.ends,
   picture |-> IF "picture" \in DOMAIN req[r].arg.change
               THEN req[r].arg.change.picture ELSE banner.picture]

\* Mutant of Replaces: every edit does.
ReplacesAlways(r) == TRUE

\* The edit names another picture than the one the banner had.
Replaces(r) == Written(r).picture # req[r].saw.picture

UpdateBanner(r) ==
  /\ At(r, "banner", "checked")
  /\ IF banner = None THEN Ends(r) /\ UNCHANGED banner
     ELSE /\ banner' = Written(r)
          /\ IF Replaces(r) THEN Goes(r, "replaced", req[r].saw) ELSE Ends(r)
  /\ UNCHANGED <<pictures, origin>>

CheckRemoveBanner(r) ==
  /\ banner # None
  /\ Begin(r, "unbanner", "banner", None, banner)
  /\ UNCHANGED bannerVars

RemoveBanner(r) ==
  /\ At(r, "unbanner", "checked")
  /\ banner' = None
  /\ IF banner = None THEN Ends(r) ELSE Goes(r, "replaced", req[r].saw)
  /\ UNCHANGED <<pictures, origin>>

\* The picture the banner had when it was read goes after the row.
RemovePicture(r) ==
  /\ req[r].kind \in {"banner", "unbanner"} /\ req[r].pc = "replaced"
  /\ pictures' = pictures \ {req[r].saw.picture}
  /\ Ends(r)
  /\ UNCHANGED <<banner, origin>>

-----------------------------------------------------------------------------
\* A banner "has to finish after it starts, or it will never show": so it does,
\* also when two operators move one end each at the same time.
WindowsOpen == banner # None => WindowOpens(banner)

\* A banner shows a picture that is there, unless a form sent an old one again.
BannerHasPicture ==
  banner # None => banner.picture \in pictures \/ origin[banner.picture] = "resent"

\* What the home page shows of a banner: its time and its picture.
BannerShows == WindowsOpen /\ BannerHasPicture
=============================================================================
