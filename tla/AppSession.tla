------------------------------ MODULE AppSession ------------------------------
(***************************************************************************)
(* Signing in on the mobile app: the session a phone holds in memory and   *)
(* in SecureStore, the login and role calls it makes, and the accounts of  *)
(* the API.                                                                *)
(*                                                                         *)
(* The token is stored before the app goes on (await), the role after it   *)
(* and without waiting, so the two can part.  The API checks the OTP, or   *)
(* that no role is set, in one statement and acts on it in a later one.  A *)
(* call that the app gives up on runs to its end in the API all the same.  *)
(* hazards says what may go wrong in a behaviour:                          *)
(*   "lost"       an answer does not reach the phone                       *)
(*   "closed"     the app is closed while it is still writing or waiting   *)
(*   "impatient"  the user signs out while a call or a write is in flight  *)
(*   "resends"    the user asks for another code while one is checked      *)
(*   "raced"      two role calls for one account at a time                 *)
(*   "mistyped"   a wrong code is typed in                                 *)
(*   "suspended"  the admin blocks accounts, and unblocks them             *)
(***************************************************************************)
EXTENDS Integers, Sequences, FiniteSets

CONSTANTS
    Phones, Accounts, Roles,
    NoPhone, NoAccount, NoRole,
    Scenes,        \* who logs in where, and the hazards, of the runs to look at
    MaxAttempts,   \* of a code, 5 in verifyOtp
    MaxCalls,      \* in flight at a time, given up or not, or stored (bound)
    MaxWrites      \* SecureStore writes under way at a time, of each kind (bound)

ASSUME SessionAssumption ==
    /\ NoPhone \notin Phones
    /\ NoAccount \notin Accounts
    /\ NoRole \notin Roles
    /\ Scenes \subseteq [logins : SUBSET (Phones \X Accounts),
                        hazards : SUBSET {"lost", "closed", "impatient", "raced",
                                          "resends", "mistyped", "suspended"}]
    /\ MaxAttempts \in Nat \ {0} /\ MaxCalls \in Nat
    /\ MaxWrites \in Nat \ {0}

VARIABLES
    scene,     \* one of Scenes; never changes
    roleOf,    \* users.role
    blocked,   \* users: no row, or its column blocked
    otp,       \* otp_codes.attempts of a code that has not expired or been used
    calls,     \* calls in flight, with the account of their token or number
    apps,      \* the app on each phone, as in store.tsx and api.ts
    writes,    \* SecureStore writes of the role that nobody waits for
    disk,      \* SecureStore: TOKEN_KEY and ROLE_KEY
    chosen     \* history: the account the user last logged in with, if any

vars == <<scene, roleOf, blocked, otp, calls, apps, writes, disk, chosen>>

-----------------------------------------------------------------------------

AnyRole   == Roles \cup {NoRole}
NoSession == [account |-> NoAccount, role |-> NoRole]
\* A JWT: whose it is and the role it was signed with.
Session   == [account : Accounts, role : AnyRole] \cup {NoSession}
NoCode    == -1

\* right: a code that is under way is the latest one of the number.
Call == [kind : {"verify", "role"}, phone : Phones \cup {NoPhone}, account : Accounts,
         role : AnyRole, right : BOOLEAN,
         at : {"sent", "checked", "wrong", "answered", "refused"}]

\* token: api.ts; shown and role: the session state of store.tsx; storing:
\* tokens whose SecureStore write the app waits for; busy: the screen's state.
App == [open : BOOLEAN, token : Session, shown : Session, role : AnyRole,
        storing : Seq(Session), busy : {"no", "verify", "role"}]

Closed == [open |-> FALSE, token |-> NoSession, shown |-> NoSession, role |-> NoRole,
           storing |-> <<>>, busy |-> "no"]

TypeOK ==
    /\ scene \in Scenes
    /\ roleOf \in [Accounts -> AnyRole]
    /\ blocked \in [Accounts -> {"unknown", "no", "yes"}]
    /\ otp \in [Accounts -> NoCode .. MaxAttempts]
    /\ calls \subseteq Call
    /\ apps \in [Phones -> App]
    /\ writes \in [Phones -> Seq(AnyRole)]
    /\ disk \in [Phones -> [token : Session, role : AnyRole]]
    /\ chosen \in [Phones -> Accounts \cup {NoAccount}]

Init ==
    /\ scene \in Scenes
    /\ roleOf = [a \in Accounts |-> NoRole]
    /\ blocked = [a \in Accounts |-> "unknown"]
    /\ otp = [a \in Accounts |-> NoCode]
    /\ calls = {}
    /\ apps = [p \in Phones |-> Closed]
    /\ writes = [p \in Phones |-> <<>>]
    /\ disk = [p \in Phones |-> [token |-> NoSession, role |-> NoRole]]
    /\ chosen = [p \in Phones |-> NoAccount]

\* What Root renders.
Screen(p) ==
    IF ~apps[p].open THEN "closed"
    ELSE IF apps[p].shown = NoSession THEN "login"
    ELSE IF apps[p].role = NoRole THEN "roles" ELSE "home"

Quiet(p) == /\ apps[p].busy = "no"
            /\ apps[p].storing = <<>>
            /\ writes[p] = <<>>

-----------------------------------------------------------------------------
(* The API *)

\* requestOtp: a new code for the number, and all its attempts back.  A code that
\* is under way is now an old one.  The button for another code stays enabled, and
\* its finally ends the spinner of verify.
RequestOtp(p, a) ==
    /\ <<p, a>> \in scene.logins
    /\ Screen(p) = "login"
    /\ "resends" \in scene.hazards \/ apps[p].busy = "no"
    /\ apps' = [apps EXCEPT ![p].busy = "no"]
    /\ otp' = [otp EXCEPT ![a] = 0]
    /\ calls' = {IF c.kind = "verify" /\ c.account = a /\ c.at = "sent"
                 THEN [c EXCEPT !.right = FALSE] ELSE c : c \in calls}
    /\ UNCHANGED <<roleOf, blocked, writes, disk, chosen>>

ExpireOtp(a) ==
    /\ otp[a] # NoCode
    /\ otp' = [otp EXCEPT ![a] = NoCode]
    /\ UNCHANGED <<roleOf, blocked, calls, apps, writes, disk, chosen>>

\* The admin blocks or unblocks a user.
SetBlocked(a) ==
    /\ "suspended" \in scene.hazards
    /\ blocked[a] # "unknown"
    /\ blocked' = [blocked EXCEPT ![a] = IF @ = "yes" THEN "no" ELSE "yes"]
    /\ UNCHANGED <<roleOf, otp, calls, apps, writes, disk, chosen>>

\* A call moves on; once it has its answer, one the app gave up on is gone.
Becomes(c, after) ==
    calls' = (calls \ {c})
               \cup IF after.phone = NoPhone /\ after.at \in {"answered", "refused"}
                    THEN {} ELSE {after}

Tries(a) == otp[a] # NoCode /\ otp[a] < MaxAttempts

\* Mutant: setRole does not look at the role the account has.
AllowedUnchecked(c) == c.kind = "verify" => Tries(c.account) /\ c.right

\* verifyOtp up to the INSERT, setRole up to the UPDATE.
Allowed(c) == IF c.kind = "verify" THEN Tries(c.account) /\ c.right
              ELSE roleOf[c.account] = NoRole

Check(c) ==
    /\ c.at = "sent"
    /\ Becomes(c, [c EXCEPT !.right = TRUE,
                          !.at = IF Allowed(c) THEN "checked"
                                  ELSE IF c.kind = "verify" /\ Tries(c.account) THEN "wrong"
                                  ELSE "refused"])
    /\ UNCHANGED <<roleOf, blocked, otp, apps, writes, disk, chosen>>

\* The attempt is counted with whatever code is there by now.  Counts over the
\* limit are all alike.
CountAttempt(c) ==
    /\ c.at = "wrong"
    /\ otp' = [otp EXCEPT ![c.account] = IF @ \in {NoCode, MaxAttempts} THEN @ ELSE @ + 1]
    /\ Becomes(c, [c EXCEPT !.at = "refused"])
    /\ UNCHANGED <<roleOf, blocked, apps, writes, disk, chosen>>

\* Mutant: id and role of the returned row are mixed up.
VerifyMixedUp(c) ==
    /\ c.kind = "verify"
    /\ blocked' = [blocked EXCEPT ![c.account] = "no"]
    /\ otp' = [otp EXCEPT ![c.account] = NoCode]
    /\ Becomes(c, [c EXCEPT !.at = "answered", !.role = c.account])
    /\ UNCHANGED roleOf

\* The account is there now.  One that is blocked keeps its OTP; of another the
\* role goes into the token, and the OTP, this one or a newer, is used up.
Verify(c) ==
    /\ c.kind = "verify"
    /\ IF blocked[c.account] = "yes"
       THEN /\ Becomes(c, [c EXCEPT !.at = "refused"])
            /\ UNCHANGED <<blocked, otp>>
       ELSE /\ blocked' = [blocked EXCEPT ![c.account] = "no"]
            /\ otp' = [otp EXCEPT ![c.account] = NoCode]
            /\ Becomes(c, [c EXCEPT !.at = "answered", !.role = roleOf[c.account]])
    /\ UNCHANGED roleOf

SetRole(c) ==
    /\ c.kind = "role"
    /\ roleOf' = [roleOf EXCEPT ![c.account] = c.role]
    /\ Becomes(c, [c EXCEPT !.at = "answered"])
    /\ UNCHANGED <<blocked, otp>>

Finish(c) ==
    /\ c.at = "checked"
    /\ Verify(c) \/ SetRole(c)
    /\ UNCHANGED <<apps, writes, disk, chosen>>

-----------------------------------------------------------------------------
(* The app *)

\* Login, verify, with the code of the number or another.
SendCode(p, a, right) ==
    /\ <<p, a>> \in scene.logins
    /\ right \/ "mistyped" \in scene.hazards
    /\ Screen(p) = "login"
    /\ apps[p].busy = "no"
    /\ Cardinality(calls) + Len(apps[p].storing) < MaxCalls
    /\ calls' = calls \cup {[kind |-> "verify", phone |-> p, account |-> a,
                             role |-> NoRole, right |-> right, at |-> "sent"]}
    /\ apps' = [apps EXCEPT ![p].busy = "verify"]
    /\ chosen' = [chosen EXCEPT ![p] = a]
    /\ UNCHANGED <<roleOf, blocked, otp, writes, disk>>

\* RoleSelect, pick: under the token in memory.
PickRole(p, r) ==
    LET a == apps[p].token.account IN
    /\ Screen(p) = "roles"
    /\ apps[p].busy = "no"
    /\ a # NoAccount
    /\ "raced" \in scene.hazards \/ \A c \in calls : c.kind = "role" => c.account # a
    /\ Cardinality(calls) < MaxCalls
    /\ calls' = calls \cup {[kind |-> "role", phone |-> p, account |-> a,
                             role |-> r, right |-> TRUE, at |-> "sent"]}
    /\ apps' = [apps EXCEPT ![p].busy = "role"]
    /\ UNCHANGED <<roleOf, blocked, otp, writes, disk, chosen>>

\* signIn up to its await: the token serves requests at once.
Receive(c) ==
    LET session == [account |-> c.account, role |-> c.role] IN
    /\ c.at = "answered"
    /\ c.phone # NoPhone
    /\ calls' = calls \ {c}
    /\ apps' = [apps EXCEPT ![c.phone].token = session,
                            ![c.phone].storing = Append(@, session)]
    /\ UNCHANGED <<roleOf, blocked, otp, writes, disk, chosen>>

\* The screen that waits for a call ends its wait.
NoLongerBusy(c) ==
    [apps EXCEPT ![c.phone].busy = IF @ = c.kind THEN "no" ELSE @]

\* The API said no: an alert, and the screen is as before.
ReceiveRefusal(c) ==
    /\ c.at = "refused"
    /\ c.phone # NoPhone
    /\ calls' = calls \ {c}
    /\ apps' = NoLongerBusy(c)
    /\ UNCHANGED <<roleOf, blocked, otp, writes, disk, chosen>>

\* fetch throws; the call is not taken back.
Lose(c) ==
    /\ "lost" \in scene.hazards
    /\ c.phone # NoPhone
    /\ Becomes(c, [c EXCEPT !.phone = NoPhone])
    /\ apps' = NoLongerBusy(c)
    /\ UNCHANGED <<roleOf, blocked, otp, writes, disk, chosen>>

\* signOut up to its await; the back button of RoleSelect stays enabled.
SignOut(p) ==
    /\ Screen(p) \in {"roles", "home"}
    /\ "impatient" \in scene.hazards \/ (apps[p].busy = "no" /\ apps[p].storing = <<>>)
    /\ Len(apps[p].storing) < MaxWrites
    /\ apps' = [apps EXCEPT ![p].token = NoSession,
                            ![p].storing = Append(@, NoSession)]
    /\ chosen' = [chosen EXCEPT ![p] = NoAccount]
    /\ UNCHANGED <<roleOf, blocked, otp, calls, writes, disk>>

\* Mutants: the role is forgotten; a null role is not stored.
RoleForgotten(p, session) == apps[p].role
RoleKept(p, session) == IF session.role = NoRole THEN apps[p].role ELSE session.role

\* persistRole and setToken put the new value in the place of the old one, and
\* delete the stored one when the new one is null.
RoleAfter(p, session)  == session.role
TokenAfter(p, session) == session

\* The token is stored: the rest of signIn or signOut, which changes the screen
\* and starts the write of the role.
Continue(p) ==
    LET session == Head(apps[p].storing)
        role    == RoleAfter(p, session)
    IN
    /\ apps[p].storing # <<>>
    /\ Len(writes[p]) < MaxWrites
    /\ disk' = [disk EXCEPT ![p].token = TokenAfter(p, session)]
    /\ apps' = [apps EXCEPT ![p].shown = session, ![p].role = role,
                            ![p].busy = "no", ![p].storing = Tail(@)]
    /\ writes' = [writes EXCEPT ![p] = Append(@, role)]
    /\ UNCHANGED <<roleOf, blocked, otp, calls, chosen>>

WriteRole(p) ==
    /\ writes[p] # <<>>
    /\ disk' = [disk EXCEPT ![p].role = Head(writes[p])]
    /\ writes' = [writes EXCEPT ![p] = Tail(@)]
    /\ UNCHANGED <<roleOf, blocked, otp, calls, apps, chosen>>

\* Writes not done are lost, calls run on without the app.
Close(p) ==
    /\ apps[p].open
    /\ "closed" \in scene.hazards \/ Quiet(p)
    /\ apps' = [apps EXCEPT ![p] = Closed]
    /\ writes' = [writes EXCEPT ![p] = <<>>]
    /\ calls' = {IF c.phone = p THEN [c EXCEPT !.phone = NoPhone] ELSE c :
                    c \in {x \in calls : x.phone # p \/ x.at \in {"sent", "checked", "wrong"}}}
    /\ UNCHANGED <<roleOf, blocked, otp, disk, chosen>>

\* The effect of SessionProvider that runs when the app starts.
Open(p) ==
    /\ ~apps[p].open
    /\ apps' = [apps EXCEPT ![p] =
                  [open |-> TRUE, token |-> disk[p].token, shown |-> disk[p].token,
                   role |-> disk[p].role, storing |-> <<>>, busy |-> "no"]]
    /\ UNCHANGED <<roleOf, blocked, otp, calls, writes, disk, chosen>>

\* What happens without the user.
Proceed ==
    \/ \E c \in calls : Check(c) \/ CountAttempt(c) \/ Finish(c) \/ Receive(c) \/ ReceiveRefusal(c)
    \/ \E p \in Phones : Continue(p) \/ WriteRole(p)

Next ==
    /\ \/ Proceed
       \/ \E a \in Accounts : ExpireOtp(a) \/ SetBlocked(a)
       \/ \E c \in calls : Lose(c)
       \/ \E p \in Phones :
             \/ \E a \in Accounts : RequestOtp(p, a) \/ \E right \in BOOLEAN : SendCode(p, a, right)
             \/ \E r \in Roles : PickRole(p, r)
             \/ SignOut(p) \/ Close(p) \/ Open(p)
    /\ UNCHANGED scene

Spec == Init /\ [][Next]_vars

\* The API handles calls and SecureStore its writes.
FairSpec == Spec /\ WF_vars(Proceed /\ UNCHANGED scene)

-----------------------------------------------------------------------------
(* Properties *)

\* What the API answers with a refusal, and the user can go on from.
Handled == {"mistyped", "suspended"}

\* Role-gated routing (ENGINEERING_PLAN.md:128, "Role selection + role-gated
\* routing (mobile + API guards)"): the home a phone shows is the one whose
\* requests RolesGuard lets through with the phone's token, unless the app was
\* closed between the write of the token and that of the role.
HomeMatchesToken ==
    "closed" \notin scene.hazards =>
       \A p \in Phones : Screen(p) = "home" /\ apps[p].storing = <<>> =>
          apps[p].token.role = apps[p].role

\* Every account is used on one phone only; a phone may serve several.
OnePhoneEach == \A l, m \in scene.logins : l[2] = m[2] => l = m

\* WIREFRAMES.md:38, "Role selection (first signup only)": nobody whose account
\* has a role is asked for one, as long as no answer is lost and no second phone
\* was signed in before the role was set on the first.
RoleAskedOnce ==
    scene.hazards \subseteq Handled /\ OnePhoneEach =>
       \A p \in Phones : Screen(p) = "roles" /\ Quiet(p) =>
          roleOf[apps[p].shown.account] = NoRole

\* auth.service.ts:81: "Set the role on first signup (cannot be changed once
\* set)", as long as no two role calls for an account overlap.
RoleSetOnce ==
    [][\A a \in Accounts : roleOf[a] # NoRole /\ "raced" \notin scene.hazards =>
          roleOf'[a] = roleOf[a]]_vars

\* A phone is signed in to the account its user last logged in with, and to
\* none after signing out, whatever lost answers and restarts bring, as long as
\* the user waits and lets the app finish.
SessionIsTheUsers ==
    scene.hazards \subseteq {"lost", "raced"} \cup Handled =>
       \A p \in Phones : apps[p].shown # NoSession /\ apps[p].storing = <<>> =>
          apps[p].shown.account = chosen[p]

\* The home and the token of a phone belong together and to its user, who is asked
\* for a role only while there is none.
PhoneShowsItsSession == HomeMatchesToken /\ SessionIsTheUsers /\ RoleAskedOnce

\* Whoever types in a code has an answer, and whoever picks a role gets to a home
\* screen, also with an account that is blocked by then.
RoleLeadsHome ==
    scene.hazards \subseteq Handled =>
       \A p \in Phones : /\ apps[p].busy = "verify" ~> apps[p].busy = "no"
                         /\ apps[p].busy = "role" ~> Screen(p) = "home"
=============================================================================
