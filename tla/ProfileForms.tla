----------------------------- MODULE ProfileForms -----------------------------
(***************************************************************************)
(* The home of a seller, buyer or driver and the profile form. The home    *)
(* asks for the profile when it is mounted and shows the hub, or the form  *)
(* for onboarding; the form asks for it again, to fill its fields, and     *)
(* its Save writes the whole row. SellerProfile waits for that answer;     *)
(* the other two can be typed into and saved before it is there. Of a      *)
(* profile two fields are told apart: the one the home looks at (name,     *)
(* business name, vehicle), and one more (UPI id or place, GST,            *)
(* capacity). hazards says what may happen in a behaviour:                 *)
(*   "lost"       a call fails on its way there, or its answer does        *)
(*   "late"       a call the phone has given up on is still carried out    *)
(*   "early"      the user types before the form is filled                 *)
(*   "hurries"    the user leaves a form, or saves again, while it saves    *)
(*   "elsewhere"  the same user saves a profile on another phone           *)
(***************************************************************************)
EXTENDS Naturals, Sequences

CONSTANTS
    Values, Blank,  \* of a field; Blank is '' in a form, NULL in a row
    Preset,         \* what DriverProfile starts with: 'tempo', '1000'
    MaxRequests,    \* the phone has in flight at a time (bound)
    HazardCases     \* the sets of hazards to look at

ASSUME ProfileAssumption ==
    /\ Blank \in Values /\ Preset \in Values \ {Blank}
    /\ "untouched" \notin Values
    /\ MaxRequests \in Nat
    /\ HazardCases \subseteq SUBSET {"lost", "late", "early", "hurries", "elsewhere"}

VARIABLES
    hazards,  \* never changes
    role,     \* of the user, never changes
    row,      \* the user's row of the profiles table
    home,     \* the home screen: its profile is undefined, null or a row
    stack,    \* screens, the last one on top
    form,     \* the form on the screen, of the home or a screen of its own
    asked     \* what the phone has in flight

profileVars == <<hazards, role, row, home, stack, form, asked>>

-----------------------------------------------------------------------------

Fields  == {"name", "detail"}
Profile == [Fields -> Values]
NoRow   == [f \in Fields |-> Blank]  \* a row has a name
Slots   == 1 .. MaxRequests

\* typed: history, what the user has typed into a field.
Untouched == "untouched"
Form  == [values : Profile, typed : [Fields -> Values \cup {Untouched}],
          loading : BOOLEAN, busy : BOOLEAN]
Empty == [values |-> IF role = "driver" THEN [f \in Fields |-> Preset] ELSE NoRow,
          typed |-> [f \in Fields |-> Untouched], loading |-> TRUE, busy |-> FALSE]

\* owner: the form or home that waits; "home", once an onboarding form is gone but
\* its home still there; "left", once that is gone; "none", once the phone has given
\* up.  profile: what is sent, or was found.  onDone: an onboarding form has one.
Request == [kind : {"check", "load", "save"}, at : {"sent", "answered"},
         owner : {"screen", "home", "left", "none"}, profile : Profile,
         typed : [Fields -> Values \cup {Untouched}], onDone : BOOLEAN]
Idle == [kind |-> "check", at |-> "answered", owner |-> "none", profile |-> NoRow,
         typed |-> [f \in Fields |-> Untouched], onDone |-> FALSE]
Ask(kind) == [Idle EXCEPT !.kind = kind, !.at = "sent", !.owner = "screen"]

ProfileTypeOK ==
    /\ hazards \in HazardCases
    /\ role \in {"seller", "buyer", "driver"}
    /\ row \in Profile
    /\ row["name"] = Blank => row = NoRow
    /\ home \in {"undefined", "setup", "hub"}
    /\ stack \in {<<"home">>, <<"home", "profile">>}
    /\ form \in Form
    /\ asked \in [Slots -> Request]

ProfileInit ==
    /\ hazards \in HazardCases
    /\ role \in {"seller", "buyer", "driver"}
    /\ row = NoRow
    /\ home = "undefined"
    /\ stack = <<"home">>
    /\ form = Empty
    /\ asked = [x \in Slots |-> IF x = 1 THEN Ask("check") ELSE Idle]

-----------------------------------------------------------------------------
(* The API: upsertProfile and getProfile *)

\* Mutant: a field that was not sent keeps its value, also one that was cleared.
UpsertSent(sent) ==
    [f \in Fields |-> IF sent[f] = Blank THEN row[f] ELSE sent[f]]

Upsert(sent) == sent

Serve(x) ==
    LET c == asked[x] IN
    /\ c.at = "sent"
    /\ row' = IF c.kind = "save" THEN Upsert(c.profile) ELSE row
    /\ asked' = [asked EXCEPT ![x] =
                    IF c.owner = "none" THEN Idle
                    ELSE [Idle EXCEPT !.kind = c.kind, !.owner = c.owner, !.onDone = c.onDone,
                                      !.profile = IF c.kind = "save" THEN @ ELSE row]]
    /\ UNCHANGED <<home, stack, form>>

\* The other phone's form was filled before.
SaveElsewhere ==
    /\ "elsewhere" \in hazards
    /\ row' \in {p \in Profile : p["name"] # Blank}
    /\ UNCHANGED <<home, stack, form, asked>>

-----------------------------------------------------------------------------
(* Screens *)

\* The calls cs with c as one more; none when all are taken.
With(cs, c) ==
    {[cs EXCEPT ![x] = c] : x \in {y \in Slots : cs[y] = Idle /\ \A z \in 1 .. y - 1 : cs[z] # Idle}}

\* The home or the profile screen is gone.
Left(cs) ==
    [x \in Slots |-> IF cs[x].owner \in {"screen", "home"}
                     THEN [cs[x] EXCEPT !.owner = "left"] ELSE cs[x]]

\* An onboarding form is gone; its home, which may be checking, is there.
FormLeft(cs) ==
    [x \in Slots |-> IF cs[x].owner = "screen" /\ cs[x].kind # "check"
                     THEN [cs[x] EXCEPT !.owner = IF cs[x].kind = "save" THEN "home" ELSE "left"]
                     ELSE cs[x]]

Checking == \E x \in Slots : asked[x].kind = "check" /\ asked[x].owner = "screen"

\* A form is shown by the home or in its place, SellerProfile with a spinner only.
OnForm  == stack # <<"home">> \/ home = "setup"
Visible == OnForm /\ (role = "seller" => ~form.loading)

\* Back at the home, which is mounted and asks again.
GoHome(cs) ==
    /\ stack' = <<"home">>
    /\ IF stack = <<"home">> THEN asked' = cs /\ UNCHANGED <<home, form>>
       ELSE /\ asked' \in With(Left(cs), Ask("check"))
            /\ home' = "undefined"
            /\ form' = Empty

\* The profile tile of the hub.
OpenForm ==
    /\ stack = <<"home">> /\ home = "hub"
    /\ stack' = <<"home", "profile">>
    /\ asked' \in With(Left(asked), Ask("load"))
    /\ form' = Empty
    /\ UNCHANGED <<row, home>>

Back ==
    /\ stack # <<"home">>
    /\ form.busy => "hurries" \in hazards
    /\ GoHome(asked)
    /\ UNCHANGED row

-----------------------------------------------------------------------------
(* The form *)

\* Fields stay open while the form is saved; a vehicle can be changed only.
Type(f, v) ==
    /\ Visible
    /\ form.loading => "early" \in hazards
    /\ form.values[f] # v
    /\ role = "driver" /\ f = "name" => v # Blank
    /\ form' = [form EXCEPT !.values[f] = v, !.typed[f] = v]
    /\ UNCHANGED <<row, home, stack, asked>>

\* Mutant: only the other field is asked for.
CompleteDetail(p) == role = "driver" => p["detail"] # Blank

\* The field the home looks at is there, and a driver's capacity.
Complete(p) == p["name"] # Blank /\ (role = "driver" => p["detail"] # Blank)

Save ==
    /\ Visible
    /\ form.loading => "early" \in hazards
    /\ ~form.busy
    /\ Checking => "hurries" \in hazards
    /\ Complete(form.values)
    /\ asked' \in With(asked, [Ask("save") EXCEPT !.profile = form.values, !.typed = form.typed,
                                                  !.onDone = (stack = <<"home">>)])
    /\ form' = [form EXCEPT !.busy = TRUE]
    /\ UNCHANGED <<row, home, stack>>

\* What the fields show once the profile is there: all of it, also over what was
\* typed; a driver's blanks leave the preset.
SellerFilled(found) == found
BuyerFilled(found)  == IF found = NoRow THEN form.values ELSE found
DriverFilled(found) == [f \in Fields |-> IF found[f] = Blank THEN form.values[f] ELSE found[f]]

Filled(found) ==
    CASE role = "seller" -> SellerFilled(found)
      [] role = "buyer"  -> BuyerFilled(found)
      [] OTHER           -> DriverFilled(found)

\* The home with what its check has found, null when it failed.  A form that is
\* mounted then asks for itself.
Checked(cs, found) ==
    /\ home' = IF found = NoRow THEN "setup" ELSE "hub"
    /\ IF found = NoRow /\ home # "setup"
       THEN form' = Empty /\ asked' \in With(cs, Ask("load"))
       ELSE form' = form /\ asked' = IF found = NoRow THEN cs ELSE FormLeft(cs)
    /\ UNCHANGED stack

\* Mutant: onDone is forgotten.
SavedUnchecked(c, cs) ==
    IF c.onDone
    THEN /\ asked' = cs
         /\ form' = IF c.owner = "screen" THEN [form EXCEPT !.busy = FALSE] ELSE form
         /\ UNCHANGED <<home, stack>>
    ELSE GoHome(cs)

\* After "Saved", onDone of an onboarding form, there or gone, which is the check of
\* its home, or goBack.
Saved(c, cs) ==
    IF c.onDone
    THEN /\ asked' \in With(cs, [Ask("check") EXCEPT
                                   !.owner = IF c.owner = "left" THEN "left" ELSE "screen"])
         /\ form' = IF c.owner = "screen" THEN [form EXCEPT !.busy = FALSE] ELSE form
         /\ UNCHANGED <<home, stack>>
    ELSE GoHome(cs)

Resume(x) ==
    LET c  == asked[x]
        cs == [asked EXCEPT ![x] = Idle]
    IN
    /\ c.at = "answered" /\ c.owner # "none"
    /\ \/ c.kind = "save" /\ Saved(c, cs)
       \/ c.kind = "check" /\ c.owner = "screen" /\ Checked(cs, c.profile)
       \/ /\ c.kind = "load" /\ c.owner = "screen"
          /\ form' = [form EXCEPT !.values = Filled(c.profile), !.loading = FALSE]
          /\ asked' = cs
          /\ UNCHANGED <<home, stack>>
       \/ /\ c.kind # "save" /\ c.owner = "left"
          /\ asked' = cs
          /\ UNCHANGED <<home, stack, form>>
    /\ UNCHANGED row

\* The catch of check, of the form's load, and of save; and the call itself, which
\* may not have got through or still do.
Fail(x) ==
    LET c == asked[x] IN
    /\ "lost" \in hazards
    /\ c.owner # "none"
    /\ \E cs \in {[asked EXCEPT ![x] = Idle]}
                 \cup (IF "late" \in hazards /\ c.at = "sent"
                       THEN {[asked EXCEPT ![x].owner = "none"]} ELSE {}) :
          IF c.owner = "screen" /\ c.kind = "check" THEN Checked(cs, NoRow)
          ELSE /\ asked' = cs
               /\ form' = IF c.owner # "screen" THEN form
                          ELSE [form EXCEPT !.loading = IF c.kind = "load" THEN FALSE ELSE @,
                                            !.busy = IF c.kind = "save" THEN FALSE ELSE @]
               /\ UNCHANGED <<home, stack>>
    /\ UNCHANGED row

-----------------------------------------------------------------------------

ProfileNext ==
    /\ \/ \E x \in Slots : Serve(x) \/ Resume(x) \/ Fail(x)
       \/ \E f \in Fields, v \in Values : Type(f, v)
       \/ OpenForm \/ Back \/ Save \/ SaveElsewhere
    /\ UNCHANGED <<hazards, role>>

\* The API serves what it is sent, and every answer arrives or fails.
Fairness == \A x \in Slots : WF_profileVars((Serve(x) \/ Resume(x)) /\ UNCHANGED <<hazards, role>>)

ProfileSpec == ProfileInit /\ [][ProfileNext]_profileVars /\ Fairness

-----------------------------------------------------------------------------
(* Properties *)

\* Saving a profile changes what the user has typed, to what was typed, and
\* nothing else, although the form sends every field and the UPSERT overwrites
\* the whole row: the form must have been filled, and from the row as it still is.
\* A seller cannot be too early, a buyer or driver can.
SaveChangesWhatWasTyped ==
    [][hazards \subseteq (IF role = "seller" THEN {"early"} ELSE {}) =>
          \A x \in Slots :
             asked[x].kind = "save" /\ asked[x].at = "sent" /\ asked'[x].at = "answered" =>
                \A f \in Fields :
                   row'[f] = IF asked[x].typed[f] # Untouched THEN asked[x].typed[f]
                             ELSE IF row = NoRow THEN Empty.values[f] ELSE row[f]]_profileVars

\* The home stops loading, and somebody with a profile gets from it to the hub, the
\* only way on and out: onboarding is for those without one, unless a check is lost
\* or the profile was made on another phone meanwhile.
HomeLeadsOn ==
    /\ home = "undefined" ~> home # "undefined"
    /\ hazards \cap {"lost", "elsewhere"} = {} =>
          (row # NoRow /\ stack = <<"home">> ~> home = "hub")
=============================================================================
