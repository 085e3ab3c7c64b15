------------------------------ MODULE SellerApp ------------------------------
(***************************************************************************)
(* A seller at the phone: filling in a listing (NewListing), photos for    *)
(* it (images.ts, the uploads controller), and the list of listings        *)
(* (MyListings). A draft is one opening of NewListing. Its two spinners    *)
(* block a button each and no other: a photo may still be under way when   *)
(* the listing is sent, the form may be left while either is. A screen     *)
(* that was left forgets everything, but what it has sent goes on, and     *)
(* the answer of createListing still replaces whatever screen is on top.   *)
(* Quantity, price, MOQ and grade are left out, and so is what becomes of  *)
(* a listing (ListingReview). hazards says what may happen in a            *)
(* behaviour:                                                              *)
(*   "lost"       a call fails on its way there, or its answer does        *)
(*   "late"       a call the phone has given up on is still carried out    *)
(*   "impatient"  the seller does not wait for a spinner                   *)
(*   "rethinks"   the seller puts in pictures, then chooses other produce  *)
(***************************************************************************)
EXTENDS Naturals, Sequences, FiniteSets

CONSTANTS
    Produce, NoProduce,  \* produce_catalog
    Pictures, Shows,     \* what the seller may photograph, and what it shows
    NoPicture,
    MaxFiles, MaxListings,  \* stored, inserted (bounds)
    MaxCalls,            \* the phone has in flight at a time (bound)
    MaxDrafts,           \* openings of NewListing (bound)
    HazardCases          \* the sets of hazards to look at

ASSUME SellerAppAssumption ==
    /\ NoProduce \notin Produce
    /\ NoPicture \notin Pictures
    /\ Shows \in [Pictures -> Produce]
    /\ {MaxFiles, MaxListings, MaxCalls, MaxDrafts} \subseteq Nat
    /\ HazardCases \subseteq SUBSET {"lost", "late", "impatient", "rethinks"}

VARIABLES
    hazards,   \* never changes
    files,     \* the directory UPLOAD_DIR; a path is a position, never used again
    listed,    \* listings: the seller's rows, the oldest first
    calls,     \* what the phone has in flight
    stack,     \* its screens, the last one on top
    form,      \* state of NewListing
    shown,     \* rows of MyListings
    draft,     \* history: number of the latest draft
    confirmed  \* history: drafts the seller was told are listed

sellerVars == <<hazards, files, listed, calls, stack, form, shown, draft, confirmed>>

-----------------------------------------------------------------------------

Slots == 1 .. MaxCalls
Paths == 1 .. MaxFiles

\* A row with the draft it was sent from, and the pictures the seller had put in.
Row   == [draft : 1 .. MaxDrafts, item : Produce, photos : SUBSET Paths,
          meant : SUBSET Pictures]
NoRow == [draft |-> 0, item |-> NoProduce, photos |-> {}, meant |-> {}]

\* picked: what the seller has put in and was not told to have failed.
Form  == [cats : SUBSET Produce, sel : Produce \cup {NoProduce}, photos : SUBSET Paths,
          picked : SUBSET Pictures, uploading : BOOLEAN, busy : BOOLEAN]
Blank == [cats |-> {}, sel |-> NoProduce, photos |-> {}, picked |-> {},
          uploading |-> FALSE, busy |-> FALSE]

\* owner: the screen that waits; "left", once that is gone; or "none", once the
\* phone has given up.  found: what a GET has found.
Call == [kind : {"catalog", "upload", "create", "list"},
         at : {"sent", "answered", "refused"}, owner : {"screen", "left", "none"},
         row : Row \cup {NoRow}, picture : Pictures \cup {NoPicture},
         photo : SUBSET Paths, found : SUBSET (Produce \cup 1 .. MaxListings)]
NoCall == [kind |-> "list", at |-> "refused", owner |-> "none", row |-> NoRow,
         picture |-> NoPicture, photo |-> {}, found |-> {}]
Send(kind) == [NoCall EXCEPT !.kind = kind, !.at = "sent", !.owner = "screen"]

SellerTypeOK ==
    /\ hazards \in HazardCases
    /\ files \in Seq(Pictures) /\ Len(files) <= MaxFiles
    /\ listed \in Seq(Row) /\ Len(listed) <= MaxListings
    /\ calls \in [Slots -> Call]
    /\ Len(stack) \in 1 .. 2 /\ \A i \in 1 .. Len(stack) : stack[i] \in {"home", "new", "listings"}
    /\ form \in Form
    /\ form.sel # NoProduce => form.sel \in form.cats
    /\ shown \subseteq DOMAIN listed
    /\ draft \in 0 .. MaxDrafts
    /\ confirmed \subseteq 1 .. MaxDrafts

SellerInit ==
    /\ hazards \in HazardCases
    /\ files = <<>>
    /\ listed = <<>>
    /\ calls = [x \in Slots |-> NoCall]
    /\ stack = <<"home">>
    /\ form = Blank
    /\ shown = {}
    /\ draft = 0
    /\ confirmed = {}

-----------------------------------------------------------------------------
(* The API *)

Answer(x, c) ==
    calls' = [calls EXCEPT ![x] = IF c.owner = "none" THEN NoCall ELSE [c EXCEPT !.at = "answered"]]
Refuse(x, c) ==
    calls' = [calls EXCEPT ![x] = IF c.owner = "none" THEN NoCall ELSE [c EXCEPT !.at = "refused"]]

\* A file under a name of its own, then the answer.  One that is too big is refused.
Upload(x, c) ==
    \/ /\ Len(files) < MaxFiles
       /\ files' = Append(files, c.picture)
       /\ Answer(x, [c EXCEPT !.photo = {Len(files) + 1}])
       /\ UNCHANGED listed
    \/ Refuse(x, c) /\ UNCHANGED <<files, listed>>

\* A row, or a refusal by one of its checks.
CreateListing(x, c) ==
    /\ \/ listed' = Append(listed, c.row) /\ Answer(x, c)
       \/ Refuse(x, c) /\ UNCHANGED listed
    /\ UNCHANGED files

Catalog(x, c) ==
    /\ Answer(x, [c EXCEPT !.found = Produce])
    /\ UNCHANGED <<files, listed>>

MyListings(x, c) ==
    /\ Answer(x, [c EXCEPT !.found = DOMAIN listed])
    /\ UNCHANGED <<files, listed>>

Serve(x) ==
    LET c == calls[x] IN
    /\ c.at = "sent"
    /\ \/ c.kind = "upload"  /\ Upload(x, c)
       \/ c.kind = "create"  /\ CreateListing(x, c)
       \/ c.kind = "catalog" /\ Catalog(x, c)
       \/ c.kind = "list"    /\ MyListings(x, c)
    /\ UNCHANGED <<stack, form, shown, draft, confirmed>>

-----------------------------------------------------------------------------
(* The stack of screens *)

Top(st) == st[Len(st)]

\* The calls cs with c as one more; none when all are taken.
With(cs, c) ==
    {[cs EXCEPT ![x] = c] : x \in {y \in Slots : cs[y] = NoCall /\ \A z \in 1 .. y - 1 : cs[z] # NoCall}}

\* Another screen on top.  What the one before waited for goes nowhere now;
\* MyListings and NewListing ask for their rows when they are mounted.  A screen
\* replaced by itself is not mounted again.
GoTo(cs, st) ==
    /\ stack' = st
    /\ IF Top(st) = Top(stack) THEN calls' = cs /\ UNCHANGED <<form, shown>>
       ELSE LET left == [x \in Slots |-> IF cs[x].owner # "screen" THEN cs[x]
                                         ELSE [cs[x] EXCEPT !.owner = "left"]]
                asks == [new |-> "catalog", listings |-> "list"]
            IN  /\ form' = Blank
                /\ shown' = {}
                /\ IF Top(st) = "home" THEN calls' = left
                   ELSE calls' \in With(left, Send(asks[Top(st)]))

\* Mutant: replace pushes.
ReplacePushes(cs, name) == GoTo(cs, Append(stack, name))

Replace(cs, name) == GoTo(cs, Append(SubSeq(stack, 1, Len(stack) - 1), name))

\* The spinners, and the load of a screen, which has none but on its first time.
Quiet == \A x \in Slots : calls[x].owner # "screen"
Ready == "impatient" \in hazards \/ Quiet

Open(name) ==
    /\ Ready
    /\ stack = <<"home">>
    /\ name = "new" => draft < MaxDrafts
    /\ draft' = IF name = "new" THEN draft + 1 ELSE draft
    /\ GoTo(calls, <<"home", name>>)
    /\ UNCHANGED <<files, listed, confirmed>>

\* Step 1 of NewListing and MyListings; it pops nothing off a single screen.
GoBack ==
    /\ Ready
    /\ Len(stack) > 1
    /\ form.sel = NoProduce
    /\ GoTo(calls, SubSeq(stack, 1, Len(stack) - 1))
    /\ UNCHANGED <<files, listed, draft, confirmed>>

-----------------------------------------------------------------------------
(* NewListing *)

\* Bound: the rows that are or will be there.
Coming == Len(listed) + Cardinality({x \in Slots : calls[x].kind = "create" /\ calls[x].at = "sent"})

Choose(i) ==
    /\ Top(stack) = "new"
    /\ form.sel = NoProduce
    /\ i \in form.cats
    /\ "rethinks" \in hazards \/ \A p \in form.picked : Shows[p] = i
    /\ form' = [form EXCEPT !.sel = i]
    /\ UNCHANGED <<files, listed, calls, stack, shown, draft, confirmed>>

\* Photos, and a spinner, stay.
BackToGrid ==
    /\ Ready
    /\ form.sel # NoProduce
    /\ form' = [form EXCEPT !.sel = NoProduce]
    /\ UNCHANGED <<files, listed, calls, stack, shown, draft, confirmed>>

\* A picture of the produce on the screen, one that is not there yet.
AddPhoto(p) ==
    /\ Ready
    /\ form.sel = Shows[p]
    /\ ~form.uploading
    /\ p \notin form.picked
    /\ form' = [form EXCEPT !.uploading = TRUE, !.picked = @ \cup {p}]
    /\ calls' \in With(calls, [Send("upload") EXCEPT !.picture = p])
    /\ UNCHANGED <<files, listed, stack, shown, draft, confirmed>>

\* Mutant: two taps, two calls.
SubmitTwice ==
    /\ Ready
    /\ form.sel # NoProduce
    /\ Coming < MaxListings
    /\ calls' \in With(calls, [Send("create") EXCEPT !.row =
                     [draft |-> draft, item |-> form.sel, photos |-> form.photos,
                      meant |-> form.picked]])
    /\ form' = [form EXCEPT !.busy = TRUE]
    /\ UNCHANGED <<files, listed, stack, shown, draft, confirmed>>

Submit ==
    /\ Ready
    /\ form.sel # NoProduce
    /\ ~form.busy
    /\ Coming < MaxListings
    /\ calls' \in With(calls, [Send("create") EXCEPT !.row =
                     [draft |-> draft, item |-> form.sel, photos |-> form.photos,
                      meant |-> form.picked]])
    /\ form' = [form EXCEPT !.busy = TRUE]
    /\ UNCHANGED <<files, listed, stack, shown, draft, confirmed>>

Refresh ==
    /\ Ready
    /\ Top(stack) = "listings"
    /\ calls' \in With(calls, Send("list"))
    /\ UNCHANGED <<files, listed, stack, form, shown, draft, confirmed>>

-----------------------------------------------------------------------------
(* Answers *)

\* Mutant: the spinner stops only after a photo that was stored.
StoppedOnSuccess(c, f) ==
    CASE c.kind = "upload" /\ c.at = "answered" -> [f EXCEPT !.uploading = FALSE]
      [] c.kind = "create" -> [f EXCEPT !.busy = FALSE]
      [] OTHER             -> f

\* The finally of addPhoto and of submit.
Stopped(c, f) ==
    CASE c.kind = "upload" -> [f EXCEPT !.uploading = FALSE]
      [] c.kind = "create" -> [f EXCEPT !.busy = FALSE]
      [] OTHER             -> f

\* To a screen that is gone only the answer of createListing means anything.
Resume(x) ==
    LET c  == calls[x]
        cs == [calls EXCEPT ![x] = NoCall]
    IN
    /\ c.at = "answered"
    /\ IF c.kind = "create"
       THEN /\ confirmed' = confirmed \cup {c.row.draft}
            /\ Replace(cs, "listings")
       ELSE /\ calls' = cs
            /\ form' = IF c.owner = "screen"
                       THEN Stopped(c, [form EXCEPT !.cats = IF c.kind = "catalog" THEN c.found ELSE @,
                                                    !.photos = @ \cup c.photo])
                       ELSE form
            /\ shown' = IF c.kind = "list" /\ c.owner = "screen" THEN c.found ELSE shown
            /\ UNCHANGED <<stack, confirmed>>
    /\ UNCHANGED <<files, listed, draft>>

\* Mutant: "Listed!" comes in the finally.
CatchSaysListed(c) ==
    /\ IF c.owner = "screen"
       THEN /\ form' = Stopped(c, [form EXCEPT !.picked = @ \ {c.picture}])
            /\ shown' = IF c.kind = "list" THEN {} ELSE shown
       ELSE UNCHANGED <<form, shown>>
    /\ confirmed' = IF c.kind = "create" THEN confirmed \cup {c.row.draft} ELSE confirmed
    /\ UNCHANGED <<files, listed, stack, draft>>

\* A catch: an alert, or an empty list.  A picture that failed is taken again.
Catch(c) ==
    /\ IF c.owner = "screen"
       THEN /\ form' = Stopped(c, [form EXCEPT !.picked = @ \ {c.picture}])
            /\ shown' = IF c.kind = "list" THEN {} ELSE shown
       ELSE UNCHANGED <<form, shown>>
    /\ UNCHANGED <<files, listed, stack, draft, confirmed>>

ReceiveRefusal(x) ==
    /\ calls[x].owner # "none"
    /\ calls[x].at = "refused"
    /\ calls' = [calls EXCEPT ![x] = NoCall]
    /\ Catch(calls[x])

Lose(x) ==
    LET c == calls[x] IN
    /\ "lost" \in hazards
    /\ c.owner # "none"
    /\ \/ calls' = [calls EXCEPT ![x] = NoCall]
       \/ /\ "late" \in hazards
          /\ c.at = "sent"
          /\ calls' = [calls EXCEPT ![x].owner = "none"]
    /\ Catch(c)

-----------------------------------------------------------------------------

SellerNext ==
    /\ \/ \E x \in Slots : Serve(x) \/ Resume(x) \/ ReceiveRefusal(x) \/ Lose(x)
       \/ \E name \in {"new", "listings"} : Open(name)
       \/ \E i \in Produce : Choose(i)
       \/ \E p \in Pictures : AddPhoto(p)
       \/ GoBack \/ BackToGrid \/ Submit \/ Refresh
    /\ UNCHANGED hazards

\* The API serves what it is sent, and every answer arrives or fails.
Fairness == \A x \in Slots : /\ WF_sellerVars(Serve(x) /\ UNCHANGED hazards)
                             /\ WF_sellerVars((Resume(x) \/ ReceiveRefusal(x)) /\ UNCHANGED hazards)

SellerSpec == SellerInit /\ [][SellerNext]_sellerVars /\ Fairness

-----------------------------------------------------------------------------
(* Properties *)

Made == DOMAIN listed

\* A listing is what the seller put in.  Its photos are files that exist, none
\* of them twice, also when an upload was tried again.  They are all of the
\* pictures put in, unless the seller sends it while one is under way; they show
\* its produce, unless another is chosen after they were taken; and a draft is
\* listed once, unless an answer is lost and it is sent again.
ListingsAreTheDrafts ==
    \A l \in Made :
       LET photos == listed[l].photos
           row    == listed[l]
       IN  /\ photos \subseteq DOMAIN files
           /\ \A f, g \in photos : files[f] = files[g] => f = g
           /\ "impatient" \notin hazards => {files[f] : f \in photos} = row.meant
           /\ "rethinks" \notin hazards => \A f \in photos : Shows[files[f]] = row.item
           /\ "lost" \notin hazards => \A k \in Made : listed[k].draft = row.draft => k = l

\* "Listed!" is true whatever happens, and the list shows what was listed once it
\* is loaded, unless a load is lost or two of them overlap.  A seller who waits
\* for one form finds no other taken away by its answer, nor the home.
ListedIsShown ==
    /\ \A d \in confirmed : \E l \in Made : listed[l].draft = d
    /\ Quiet /\ Top(stack) = "listings" /\ hazards \cap {"lost", "impatient"} = {} => shown = Made
    /\ "impatient" \notin hazards => stack[1] = "home" /\ (draft \in confirmed => Top(stack) # "new")

\* Each spinner of NewListing stops, whatever becomes of its call.
SpinnersStop == (form.uploading ~> ~form.uploading) /\ (form.busy ~> ~form.busy)
=============================================================================
