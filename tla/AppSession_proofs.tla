-------------------------- MODULE AppSession_proofs --------------------------
(***************************************************************************)
(* What the app holds of its user, in two parts that share no definition.  *)
(* First AppSession: what a phone shows is the session of its user, for    *)
(* any number of phones, accounts and roles, and any scenes. The           *)
(* invariant says how the session in memory, the one in SecureStore, the   *)
(* writes under way and the calls in flight belong together; how much of   *)
(* it holds depends on what the scene lets go wrong. Then ProfileForms:    *)
(* the form of a user who does not hurry is filled from the row as it is,  *)
(* so that its Save, which overwrites the whole row, changes what was      *)
(* typed only.                                                             *)
(***************************************************************************)
EXTENDS AppSession, ProfileForms, SequenceTheorems, TLAPS

-----------------------------------------------------------------------------
(* AppSession: the invariant *)

\* The last of a queue.
Newest(queue) == queue[Len(queue)]

\* What a phone shows, what it keeps and what it is about to keep belong together.
PhoneInv(p) ==
    LET app == apps[p] IN
    /\ ~app.open => app = Closed /\ writes[p] = <<>>
    /\ app.open => disk[p].token = app.shown
    /\ IF app.storing = <<>> THEN app.token = app.shown ELSE app.token = Newest(app.storing)

\* The same for the role, unless the app may be closed at any time.
KeptRole(p) ==
    LET app == apps[p] IN
    "closed" \notin scene.hazards =>
       /\ app.role = app.shown.role
       /\ IF app.open THEN app.role = IF writes[p] = <<>> THEN disk[p].role ELSE Newest(writes[p])
                      ELSE disk[p].role = disk[p].token.role

\* An answer finds the app open; role calls are taken one at a time, and one that
\* may set the role finds none.
CallsInv ==
    /\ \A c \in calls : c.phone # NoPhone => apps[c.phone].open
    /\ "raced" \notin scene.hazards =>
          /\ \A c, e \in calls : c.kind = "role" /\ e.kind = "role" /\ c.account = e.account
                => c = e
          /\ \A c \in calls : c.kind = "role" /\ c.at = "checked" => roleOf[c.account] = NoRole

\* The user waits for the app.
Patient == scene.hazards \subseteq {"lost", "raced"} \cup Handled

Owns(p, session) == session = NoSession \/ session.account = chosen[p]

\* A phone waits for one thing at a time, which is its user's.
PatientInv ==
    /\ \A c, e \in calls : c.phone # NoPhone /\ c.phone = e.phone => c = e
    /\ \A c \in calls : c.phone # NoPhone =>
          /\ apps[c.phone].busy = c.kind /\ apps[c.phone].storing = <<>>
          /\ c.account = chosen[c.phone]
    /\ \A p \in Phones :
          /\ Owns(p, apps[p].token)
          /\ apps[p].storing # <<>> =>
                /\ apps[p].storing = <<apps[p].token>>
                /\ apps[p].busy = "no" => apps[p].token = NoSession /\ apps[p].shown # NoSession
          /\ ~apps[p].open => Owns(p, disk[p].token)

\* What the API has for the account of a session.
Fresh(session) == session # NoSession => session.role = roleOf[session.account]

\* Nothing is lost, and no account is used on two phones: what a phone has of its
\* account is what the API has, once it is not waiting.
SignupInv ==
    /\ \A c \in calls : c.phone # NoPhone
    /\ \A p \in Phones : chosen[p] # NoAccount => <<p, chosen[p]>> \in scene.logins
    /\ \A c \in calls : c.at = "answered" => c.role = roleOf[c.account]
    /\ \A p \in Phones :
          /\ (\A c \in calls : c.phone = p => c.at # "answered") => Fresh(apps[p].token)
          /\ ~apps[p].open => Fresh(disk[p].token)

SessionInv ==
    /\ TypeOK
    /\ CallsInv
    /\ \A p \in Phones : PhoneInv(p) /\ KeptRole(p)
    /\ Patient => PatientInv
    /\ scene.hazards \subseteq Handled /\ OnePhoneEach => SignupInv

\* The fields of an app, of a call and of a session.
LEMMA SessionFields ==
    ASSUME TypeOK
    PROVE  /\ \A p \in Phones :
                 /\ apps[p] \in App /\ apps[p].open \in BOOLEAN
                 /\ apps[p].token \in Session /\ apps[p].shown \in Session
                 /\ apps[p].role \in AnyRole /\ apps[p].storing \in Seq(Session)
                 /\ apps[p].busy \in {"no", "verify", "role"}
                 /\ writes[p] \in Seq(AnyRole)
                 /\ disk[p].token \in Session /\ disk[p].role \in AnyRole
           /\ \A c \in calls : c \in Call /\ c.account \in Accounts /\ c.role \in AnyRole
                 /\ c.phone \in Phones \cup {NoPhone} /\ c.kind \in {"verify", "role"}
           /\ NoSession \in Session /\ NoSession.account = NoAccount /\ NoSession.role = NoRole
           /\ \A session \in Session : session.role \in AnyRole
                 /\ session.account \in Accounts \cup {NoAccount}
<1>1. \A p \in Phones : /\ apps[p] \in App /\ writes[p] \in Seq(AnyRole)
                        /\ disk[p] \in [token : Session, role : AnyRole]
  BY DEF TypeOK
<1>2. \A c \in calls : c \in Call
  BY DEF TypeOK
<1>3. /\ NoSession \in Session /\ NoSession.account = NoAccount /\ NoSession.role = NoRole
      /\ \A session \in Session : session.role \in AnyRole
            /\ session.account \in Accounts \cup {NoAccount}
  BY DEF Session, NoSession, AnyRole
<1>4. \A p \in Phones :
                 /\ apps[p].open \in BOOLEAN
                 /\ apps[p].token \in Session /\ apps[p].shown \in Session
                 /\ apps[p].role \in AnyRole /\ apps[p].storing \in Seq(Session)
                 /\ apps[p].busy \in {"no", "verify", "role"}
                 /\ disk[p].token \in Session /\ disk[p].role \in AnyRole
  BY <1>1 DEF App
<1>5. \A c \in calls : c.account \in Accounts /\ c.role \in AnyRole
                 /\ c.phone \in Phones \cup {NoPhone} /\ c.kind \in {"verify", "role"}
  BY <1>2 DEF Call
<1> QED
  BY <1>1, <1>2, <1>3, <1>4, <1>5

-----------------------------------------------------------------------------
(* What the steps of an app do to it *)

\* The app on one phone changes.
OnlyApp(p) ==
    /\ apps' \in [Phones -> App]
    /\ \A q \in Phones \ {p} : apps'[q] = apps[q]

\* One value in the place of another.
LEMMA AppReplaced ==
    ASSUME TypeOK, NEW p \in Phones, NEW app \in App, apps' = [apps EXCEPT ![p] = app]
    PROVE  OnlyApp(p) /\ apps'[p] = app
BY DEF TypeOK, OnlyApp

\* The screen begins or ends to wait.
LEMMA BusyEffect ==
    ASSUME TypeOK, NEW p \in Phones, NEW busy \in {"no", "verify", "role"},
           apps' = [apps EXCEPT ![p].busy = busy]
    PROVE  /\ OnlyApp(p) /\ apps'[p].busy = busy
           /\ apps'[p].open = apps[p].open /\ apps'[p].token = apps[p].token
           /\ apps'[p].shown = apps[p].shown /\ apps'[p].role = apps[p].role
           /\ apps'[p].storing = apps[p].storing
<1> DEFINE app == [apps[p] EXCEPT !.busy = busy]
<1>1. /\ app \in App /\ app.busy = busy /\ app.open = apps[p].open /\ app.token = apps[p].token
      /\ app.shown = apps[p].shown /\ app.role = apps[p].role /\ app.storing = apps[p].storing
  BY SessionFields DEF App
<1>2. apps' = [apps EXCEPT ![p] = app]
  OBVIOUS
<1> HIDE DEF app
<1> QED
  BY <1>1, <1>2, AppReplaced

\* signIn and signOut up to their await.
LEMMA StoreEffect ==
    ASSUME TypeOK, NEW p \in Phones, NEW session \in Session,
           apps' = [apps EXCEPT ![p].token = session,
                                ![p].storing = Append(apps[p].storing, session)]
    PROVE  /\ OnlyApp(p) /\ apps'[p].token = session
           /\ apps'[p].storing = Append(apps[p].storing, session)
           /\ apps'[p].open = apps[p].open /\ apps'[p].busy = apps[p].busy
           /\ apps'[p].shown = apps[p].shown /\ apps'[p].role = apps[p].role
<1> DEFINE queue == Append(apps[p].storing, session)
           app == [apps[p] EXCEPT !.token = session, !.storing = queue]
<1>1. queue \in Seq(Session)
  BY SessionFields
<1>2. apps' = [apps EXCEPT ![p] = app]
  OBVIOUS
<1> HIDE DEF queue
<1>3. /\ app \in App /\ app.token = session /\ app.storing = queue /\ app.open = apps[p].open
      /\ app.busy = apps[p].busy /\ app.shown = apps[p].shown /\ app.role = apps[p].role
  BY <1>1, SessionFields DEF App
<1> HIDE DEF app
<1> QED
  BY <1>2, <1>3, AppReplaced DEF queue

\* A login or role call that is answered.
LEMMA ReceiveEffect ==
    ASSUME TypeOK, NEW c \in calls, Receive(c)
    PROVE  LET p == c.phone
               session == [account |-> c.account, role |-> c.role]
           IN  /\ p \in Phones /\ c.at = "answered" /\ calls' = calls \ {c}
               /\ session \in Session /\ session # NoSession
               /\ OnlyApp(p) /\ apps'[p].token = session
               /\ apps'[p].storing = Append(apps[p].storing, session)
               /\ apps'[p].open = apps[p].open /\ apps'[p].busy = apps[p].busy
               /\ apps'[p].shown = apps[p].shown /\ apps'[p].role = apps[p].role
<1> DEFINE p == c.phone
           session == [account |-> c.account, role |-> c.role]
<1>1. /\ p \in Phones /\ c.at = "answered" /\ calls' = calls \ {c}
  BY SessionFields DEF Receive
<1>2. session \in Session /\ session # NoSession
  BY SessionFields, SessionAssumption DEF Session, NoSession
<1>3. apps' = [apps EXCEPT ![p].token = session,
                           ![p].storing = Append(apps[p].storing, session)]
  BY <1>1 DEF Receive, TypeOK
<1> HIDE DEF session
<1>4. /\ OnlyApp(p) /\ apps'[p].token = session
      /\ apps'[p].storing = Append(apps[p].storing, session)
      /\ apps'[p].open = apps[p].open /\ apps'[p].busy = apps[p].busy
      /\ apps'[p].shown = apps[p].shown /\ apps'[p].role = apps[p].role
  BY <1>1, <1>2, <1>3, StoreEffect
<1> QED
  BY <1>1, <1>2, <1>4 DEF session

\* The back button.
LEMMA SignOutEffect ==
    ASSUME TypeOK, NEW p \in Phones, SignOut(p)
    PROVE  /\ OnlyApp(p) /\ apps'[p].token = NoSession
           /\ apps'[p].storing = Append(apps[p].storing, NoSession)
           /\ apps'[p].open = apps[p].open /\ apps'[p].busy = apps[p].busy
           /\ apps'[p].shown = apps[p].shown /\ apps'[p].role = apps[p].role
<1>1. apps' = [apps EXCEPT ![p].token = NoSession,
                           ![p].storing = Append(apps[p].storing, NoSession)]
  BY DEF SignOut, TypeOK
<1> QED
  BY <1>1, StoreEffect, SessionFields

\* The rest of signIn and signOut.
LEMMA ContinueEffect ==
    ASSUME TypeOK, NEW p \in Phones, Continue(p)
    PROVE  LET session == Head(apps[p].storing)
           IN  /\ apps[p].storing # <<>> /\ session \in Session /\ OnlyApp(p)
               /\ apps'[p].open = apps[p].open /\ apps'[p].token = apps[p].token
               /\ apps'[p].shown = session /\ apps'[p].role = session.role
               /\ apps'[p].busy = "no" /\ apps'[p].storing = Tail(apps[p].storing)
               /\ disk'[p].token = session /\ disk'[p].role = disk[p].role
               /\ writes'[p] = Append(writes[p], session.role) /\ writes'[p] \in Seq(AnyRole)
               /\ \A q \in Phones \ {p} : disk'[q] = disk[q] /\ writes'[q] = writes[q]
<1> DEFINE session == Head(apps[p].storing)
           rest == Tail(apps[p].storing)
           app == [apps[p] EXCEPT !.shown = session, !.role = session.role, !.busy = "no",
                                  !.storing = rest]
<1>1. /\ apps[p].storing # <<>> /\ session \in Session /\ rest \in Seq(Session)
      /\ session.role \in AnyRole
  BY SessionFields DEF Continue
<1>2. /\ apps' = [apps EXCEPT ![p] = app]
      /\ disk' = [disk EXCEPT ![p].token = session]
      /\ writes' = [writes EXCEPT ![p] = Append(writes[p], session.role)]
  BY DEF Continue, RoleAfter, TokenAfter, TypeOK
<1> HIDE DEF session, rest
<1>3. /\ app \in App /\ app.open = apps[p].open /\ app.token = apps[p].token
      /\ app.shown = session /\ app.role = session.role /\ app.busy = "no" /\ app.storing = rest
  BY <1>1, SessionFields DEF App
<1> HIDE DEF app
<1>4. OnlyApp(p) /\ apps'[p] = app
  BY <1>2, <1>3, AppReplaced
<1>5. /\ disk'[p].token = session /\ disk'[p].role = disk[p].role
      /\ \A q \in Phones \ {p} : disk'[q] = disk[q]
  BY <1>2 DEF TypeOK
<1>6. /\ writes'[p] = Append(writes[p], session.role) /\ writes'[p] \in Seq(AnyRole)
      /\ \A q \in Phones \ {p} : writes'[q] = writes[q]
  <2>1. Append(writes[p], session.role) \in Seq(AnyRole)
    BY <1>1, SessionFields
  <2> QED
    BY <1>2, <2>1 DEF TypeOK
<1> QED
  BY <1>1, <1>3, <1>4, <1>5, <1>6 DEF session, rest

\* The app starts with what is stored.
LEMMA OpenEffect ==
    ASSUME TypeOK, NEW p \in Phones, Open(p)
    PROVE  /\ ~apps[p].open /\ OnlyApp(p)
           /\ apps'[p] = [open |-> TRUE, token |-> disk[p].token, shown |-> disk[p].token,
                          role |-> disk[p].role, storing |-> <<>>, busy |-> "no"]
<1>1. [open |-> TRUE, token |-> disk[p].token, shown |-> disk[p].token,
       role |-> disk[p].role, storing |-> <<>>, busy |-> "no"] \in App
  BY SessionFields DEF App
<1> QED
  BY <1>1, AppReplaced DEF Open

\* It is closed.
LEMMA CloseEffect ==
    ASSUME TypeOK, NEW p \in Phones, Close(p)
    PROVE  /\ apps[p].open /\ OnlyApp(p) /\ apps'[p] = Closed
           /\ writes'[p] = <<>> /\ \A q \in Phones \ {p} : writes'[q] = writes[q]
<1>1. Closed \in App
  BY SessionFields DEF Closed, App, AnyRole
<1> QED
  BY <1>1, AppReplaced DEF Close, TypeOK

\* A call that the screen no longer waits for.
LEMMA NoLongerBusyEffect ==
    ASSUME TypeOK, NEW c \in calls, c.phone # NoPhone, apps' = NoLongerBusy(c)
    PROVE  LET p == c.phone
           IN  /\ p \in Phones /\ OnlyApp(p)
               /\ apps'[p].busy = IF apps[p].busy = c.kind THEN "no" ELSE apps[p].busy
               /\ apps'[p].open = apps[p].open /\ apps'[p].token = apps[p].token
               /\ apps'[p].shown = apps[p].shown /\ apps'[p].role = apps[p].role
               /\ apps'[p].storing = apps[p].storing
<1> DEFINE p == c.phone
           busy == IF apps[p].busy = c.kind THEN "no" ELSE apps[p].busy
<1>1. p \in Phones /\ busy \in {"no", "verify", "role"}
  BY SessionFields
<1>2. apps' = [apps EXCEPT ![p].busy = busy]
  BY <1>1 DEF NoLongerBusy, TypeOK
<1> HIDE DEF busy
<1> QED
  BY <1>1, <1>2, BusyEffect DEF busy

-----------------------------------------------------------------------------
(* Types *)

\* A call that moves on is a call still.
LEMMA BecomesCall ==
    ASSUME TypeOK, NEW c \in calls, NEW after \in Call, Becomes(c, after)
    PROVE  calls' \subseteq Call
BY DEF Becomes, TypeOK

\* The parts of the state keep their types.
LEMMA StepSessionTypes == TypeOK /\ [Next]_vars => TypeOK'
<1> SUFFICES ASSUME TypeOK, [Next]_vars PROVE TypeOK'
  OBVIOUS
<1>0. scene' = scene
  BY DEF Next, vars
<1>1. ASSUME NEW p \in Phones, NEW a \in Accounts, RequestOtp(p, a)
      PROVE  TypeOK'
  <2>1. apps' \in [Phones -> App]
    BY <1>1 DEF RequestOtp, TypeOK, App
  <2>2. otp' \in [Accounts -> NoCode .. MaxAttempts]
    BY <1>1, SessionAssumption DEF RequestOtp, TypeOK, NoCode
  <2>3. calls' \subseteq Call
    BY <1>1 DEF RequestOtp, TypeOK, Call
  <2> QED
    BY <1>0, <1>1, <2>1, <2>2, <2>3 DEF RequestOtp, TypeOK
<1>2. ASSUME NEW a \in Accounts, ExpireOtp(a)
      PROVE  TypeOK'
  <2>1. otp' \in [Accounts -> NoCode .. MaxAttempts]
    BY <1>2, SessionAssumption DEF ExpireOtp, TypeOK, NoCode
  <2> QED
    BY <1>0, <1>2, <2>1 DEF ExpireOtp, TypeOK
<1>3. ASSUME NEW a \in Accounts, SetBlocked(a)
      PROVE  TypeOK'
  BY <1>0, <1>3 DEF SetBlocked, TypeOK
<1>4. ASSUME NEW c \in calls, Check(c)
      PROVE  TypeOK'
  <2>1. calls' \subseteq Call
    <3> DEFINE at == IF Allowed(c) THEN "checked"
                     ELSE IF c.kind = "verify" /\ Tries(c.account) THEN "wrong" ELSE "refused"
               after == [c EXCEPT !.right = TRUE, !.at = at]
    <3>1. at \in {"checked", "wrong", "refused"}
      OBVIOUS
    <3> HIDE DEF at
    <3>2. after \in Call
      BY <3>1, SessionFields DEF Call
    <3>3. Becomes(c, after)
      BY <1>4 DEF Check, at
    <3> QED
      BY <3>2, <3>3, BecomesCall
  <2> QED
    BY <1>0, <1>4, <2>1 DEF Check, TypeOK
<1>5. ASSUME NEW c \in calls, CountAttempt(c)
      PROVE  TypeOK'
  <2>1. calls' \subseteq Call
    <3>1. [c EXCEPT !.at = "refused"] \in Call
      BY SessionFields DEF Call
    <3> QED
      BY <1>5, <3>1, BecomesCall DEF CountAttempt
  <2>2. otp' \in [Accounts -> NoCode .. MaxAttempts]
    BY <1>5, SessionFields, SessionAssumption DEF CountAttempt, TypeOK, NoCode
  <2> QED
    BY <1>0, <1>5, <2>1, <2>2 DEF CountAttempt, TypeOK
<1>6. ASSUME NEW c \in calls, Finish(c)
      PROVE  TypeOK'
  <2>1. CASE Verify(c)
    <3>1. /\ [c EXCEPT !.at = "refused"] \in Call
          /\ [c EXCEPT !.at = "answered", !.role = roleOf[c.account]] \in Call
      BY SessionFields DEF Call, TypeOK
    <3>2. calls' \subseteq Call
      BY <2>1, <3>1, BecomesCall DEF Verify
    <3>3. otp' \in [Accounts -> NoCode .. MaxAttempts]
      <4>1. NoCode \in NoCode .. MaxAttempts
        BY SessionAssumption DEF NoCode
      <4>2. otp' = otp \/ otp' = [otp EXCEPT ![c.account] = NoCode]
        BY <2>1 DEF Verify
      <4> QED
        BY <4>1, <4>2 DEF TypeOK
    <3>4. blocked' \in [Accounts -> {"unknown", "no", "yes"}] /\ roleOf' = roleOf
      BY <2>1 DEF Verify, TypeOK
    <3> QED
      BY <1>0, <1>6, <3>2, <3>3, <3>4 DEF Finish, TypeOK
  <2>2. CASE SetRole(c)
    <3>1. [c EXCEPT !.at = "answered"] \in Call
      BY SessionFields DEF Call
    <3>2. calls' \subseteq Call
      BY <2>2, <3>1, BecomesCall DEF SetRole
    <3>3. roleOf' \in [Accounts -> AnyRole]
      BY <2>2, SessionFields DEF SetRole, TypeOK
    <3> QED
      BY <1>0, <1>6, <2>2, <3>2, <3>3 DEF Finish, SetRole, TypeOK
  <2> QED
    BY <1>6, <2>1, <2>2 DEF Finish
<1>7. ASSUME NEW p \in Phones, NEW a \in Accounts, NEW right \in BOOLEAN, SendCode(p, a, right)
      PROVE  TypeOK'
  <2>1. calls' \subseteq Call
    BY <1>7 DEF SendCode, TypeOK, Call, AnyRole
  <2>2. apps' \in [Phones -> App]
    BY <1>7 DEF SendCode, TypeOK, App
  <2> QED
    BY <1>0, <1>7, <2>1, <2>2 DEF SendCode, TypeOK
<1>8. ASSUME NEW p \in Phones, NEW r \in Roles, PickRole(p, r)
      PROVE  TypeOK'
  <2>1. apps[p].token.account \in Accounts
    BY <1>8, SessionFields DEF PickRole
  <2>2. calls' \subseteq Call
    <3>1. [kind |-> "role", phone |-> p, account |-> apps[p].token.account, role |-> r,
           right |-> TRUE, at |-> "sent"] \in Call
      BY <2>1 DEF Call, AnyRole
    <3> QED
      BY <1>8, <3>1 DEF PickRole, TypeOK
  <2>3. apps' \in [Phones -> App]
    BY <1>8 DEF PickRole, TypeOK, App
  <2> QED
    BY <1>0, <1>8, <2>2, <2>3 DEF PickRole, TypeOK
<1>9. ASSUME NEW c \in calls, Receive(c)
      PROVE  TypeOK'
  <2>1. apps' \in [Phones -> App]
    BY <1>9, ReceiveEffect DEF OnlyApp
  <2> QED
    BY <1>0, <1>9, <2>1 DEF Receive, TypeOK
<1>10. ASSUME NEW c \in calls, ReceiveRefusal(c)
       PROVE  TypeOK'
  BY <1>0, <1>10, SessionFields DEF ReceiveRefusal, NoLongerBusy, TypeOK, App
<1>11. ASSUME NEW c \in calls, Lose(c)
       PROVE  TypeOK'
  <2>1. calls' \subseteq Call
    <3>1. [c EXCEPT !.phone = NoPhone] \in Call
      BY SessionFields DEF Call
    <3> QED
      BY <1>11, <3>1, BecomesCall DEF Lose
  <2> QED
    BY <1>0, <1>11, <2>1, SessionFields DEF Lose, NoLongerBusy, TypeOK, App
<1>12. ASSUME NEW p \in Phones, SignOut(p)
       PROVE  TypeOK'
  <2>1. apps' \in [Phones -> App]
    BY <1>12, SignOutEffect DEF OnlyApp
  <2> QED
    BY <1>0, <1>12, <2>1 DEF SignOut, TypeOK
<1>13. ASSUME NEW p \in Phones, Continue(p)
       PROVE  TypeOK'
  <2>1. /\ apps' \in [Phones -> App] /\ Head(apps[p].storing) \in Session
        /\ writes'[p] \in Seq(AnyRole)
    BY <1>13, ContinueEffect DEF OnlyApp
  <2>2. writes' \in [Phones -> Seq(AnyRole)]
    BY <1>13, <2>1 DEF Continue, TypeOK
  <2>3. disk' \in [Phones -> [token : Session, role : AnyRole]]
    BY <1>13, <2>1 DEF Continue, TokenAfter, TypeOK
  <2> QED
    BY <1>0, <1>13, <2>1, <2>2, <2>3 DEF Continue, TypeOK
<1>14. ASSUME NEW p \in Phones, WriteRole(p)
       PROVE  TypeOK'
  <2>1. Head(writes[p]) \in AnyRole /\ Tail(writes[p]) \in Seq(AnyRole)
    BY <1>14, SessionFields DEF WriteRole
  <2> QED
    BY <1>0, <1>14, <2>1 DEF WriteRole, TypeOK
<1>15. ASSUME NEW p \in Phones, Close(p)
       PROVE  TypeOK'
  <2>1. Closed \in App
    BY SessionFields DEF Closed, App, AnyRole
  <2>2. calls' \subseteq Call
    <3>1. \A c \in Call : [c EXCEPT !.phone = NoPhone] \in Call
      BY DEF Call
    <3> QED
      BY <1>15, <3>1 DEF Close, TypeOK
  <2> QED
    BY <1>0, <1>15, <2>1, <2>2 DEF Close, TypeOK
<1>16. ASSUME NEW p \in Phones, Open(p)
       PROVE  TypeOK'
  BY <1>0, <1>16, SessionFields DEF Open, TypeOK, App
<1>17. CASE UNCHANGED vars
  BY <1>17 DEF vars, TypeOK
<1> QED
  BY <1>1, <1>2, <1>3, <1>4, <1>5, <1>6, <1>7, <1>8, <1>9, <1>10, <1>11, <1>12, <1>13,
     <1>14, <1>15, <1>16, <1>17 DEF Next, Proceed

-----------------------------------------------------------------------------
(* A phone *)

\* What is appended is the newest.
LEMMA NewestAppended ==
    ASSUME NEW S, NEW queue \in Seq(S), NEW e \in S
    PROVE  Append(queue, e) # <<>> /\ Newest(Append(queue, e)) = e
BY AppendProperties DEF Newest

\* What is taken from the front is the newest only if nothing is left.
LEMMA NewestOfTail ==
    ASSUME NEW S, NEW queue \in Seq(S), queue # <<>>
    PROVE  IF Tail(queue) = <<>> THEN Head(queue) = Newest(queue)
           ELSE Newest(Tail(queue)) = Newest(queue)
<1>1. /\ Len(queue) \in Nat \ {0} /\ Tail(queue) \in Seq(S)
      /\ Len(Tail(queue)) = Len(queue) - 1
      /\ \A i \in 1 .. Len(Tail(queue)) : Tail(queue)[i] = queue[i + 1]
  BY EmptySeq, HeadTailProperties
<1>2. CASE Tail(queue) = <<>>
  <2>1. Len(queue) = 1
    BY <1>1, <1>2, EmptySeq
  <2> QED
    BY <1>2, <2>1 DEF Newest
<1>3. CASE Tail(queue) # <<>>
  <2>1. Len(Tail(queue)) \in Nat \ {0}
    BY <1>1, <1>3, EmptySeq
  <2>2. Tail(queue)[Len(Tail(queue))] = queue[Len(queue)]
    BY <1>1, <2>1
  <2> QED
    BY <1>3, <2>2 DEF Newest
<1> QED
  BY <1>2, <1>3

\* A phone that nothing happens to.
LEMMA PhoneKept ==
    ASSUME NEW q \in Phones, PhoneInv(q), KeptRole(q), scene' = scene,
           apps'[q] = apps[q], writes'[q] = writes[q], disk'[q] = disk[q]
    PROVE  PhoneInv(q)' /\ KeptRole(q)'
BY DEF PhoneInv, KeptRole, Newest

\* An app that begins or ends to wait for a call.
LEMMA BusyKept ==
    ASSUME NEW q \in Phones, PhoneInv(q), KeptRole(q), scene' = scene,
           apps[q].open, apps'[q].open = apps[q].open, apps'[q].token = apps[q].token,
           apps'[q].shown = apps[q].shown, apps'[q].role = apps[q].role,
           apps'[q].storing = apps[q].storing, writes'[q] = writes[q], disk'[q] = disk[q]
    PROVE  PhoneInv(q)' /\ KeptRole(q)'
BY DEF PhoneInv, KeptRole, Newest

\* Who is signed in or not has the app open.
LEMMA ScreenIsOpen ==
    ASSUME TypeOK, NEW p \in Phones
    PROVE  /\ Screen(p) # "closed" => apps[p].open
           /\ Screen(p) = "login" => apps[p].shown = NoSession
           /\ Screen(p) \in {"roles", "home"} => apps[p].shown # NoSession
           /\ Screen(p) = "roles" => apps[p].role = NoRole
BY SessionFields DEF Screen

\* Memory, SecureStore and the writes under way belong together after every step.
LEMMA StepPhones ==
    ASSUME SessionInv, [Next]_vars, NEW q \in Phones
    PROVE  PhoneInv(q)' /\ KeptRole(q)'
<1>0. /\ scene' = scene /\ TypeOK /\ PhoneInv(q) /\ KeptRole(q)
      /\ \A c \in calls : c.phone # NoPhone => apps[c.phone].open
  BY DEF Next, vars, SessionInv, CallsInv
<1>1. CASE UNCHANGED <<apps, writes, disk>>
  BY <1>0, <1>1, PhoneKept
<1>2. ASSUME NEW p \in Phones, OnlyApp(p), apps[p].open, UNCHANGED <<writes, disk>>,
             apps'[p].open = apps[p].open, apps'[p].token = apps[p].token,
             apps'[p].shown = apps[p].shown, apps'[p].role = apps[p].role,
             apps'[p].storing = apps[p].storing
      PROVE  PhoneInv(q)' /\ KeptRole(q)'
  BY <1>0, <1>2, PhoneKept, BusyKept DEF OnlyApp
<1>3. ASSUME NEW p \in Phones, NEW a \in Accounts, RequestOtp(p, a)
      PROVE  PhoneInv(q)' /\ KeptRole(q)'
  BY <1>0, <1>2, <1>3, ScreenIsOpen, BusyEffect DEF RequestOtp
<1>4. ASSUME NEW p \in Phones, NEW a \in Accounts, NEW right \in BOOLEAN, SendCode(p, a, right)
      PROVE  PhoneInv(q)' /\ KeptRole(q)'
  BY <1>0, <1>2, <1>4, ScreenIsOpen, BusyEffect DEF SendCode
<1>5. ASSUME NEW p \in Phones, NEW r \in Roles, PickRole(p, r)
      PROVE  PhoneInv(q)' /\ KeptRole(q)'
  BY <1>0, <1>2, <1>5, ScreenIsOpen, BusyEffect DEF PickRole
<1>6. ASSUME NEW c \in calls, ReceiveRefusal(c) \/ Lose(c)
      PROVE  PhoneInv(q)' /\ KeptRole(q)'
  <2>1. c.phone # NoPhone /\ apps' = NoLongerBusy(c) /\ UNCHANGED <<writes, disk>>
    BY <1>6 DEF ReceiveRefusal, Lose
  <2> QED
    BY <1>0, <1>2, <2>1, NoLongerBusyEffect
<1>7. ASSUME NEW p \in Phones, NEW session \in Session, OnlyApp(p), apps[p].open,
             UNCHANGED <<writes, disk>>,
             apps'[p].open = apps[p].open, apps'[p].token = session,
             apps'[p].shown = apps[p].shown, apps'[p].role = apps[p].role,
             apps'[p].storing = Append(apps[p].storing, session)
      PROVE  PhoneInv(q)' /\ KeptRole(q)'
  <2>1. CASE q # p
    BY <1>0, <1>7, <2>1, PhoneKept DEF OnlyApp
  <2>2. CASE q = p
    <3>1. apps'[q].storing # <<>> /\ Newest(apps'[q].storing) = session
      <4>1. apps[q].storing \in Seq(Session)
        BY <1>0, SessionFields
      <4>2. LET queue == Append(apps[q].storing, session)
            IN  queue # <<>> /\ Newest(queue) = session
        BY <4>1, NewestAppended
      <4> QED
        BY <1>7, <2>2, <4>2
    <3> QED
      BY <1>0, <1>7, <2>2, <3>1 DEF PhoneInv, KeptRole, Newest
  <2> QED
    BY <2>1, <2>2
<1>8. ASSUME NEW c \in calls, Receive(c)
      PROVE  PhoneInv(q)' /\ KeptRole(q)'
  <2> DEFINE session == [account |-> c.account, role |-> c.role]
             p == c.phone
  <2>1. /\ p # NoPhone /\ UNCHANGED <<writes, disk>> /\ apps[p].open
    BY <1>0, <1>8 DEF Receive
  <2>2. /\ p \in Phones /\ session \in Session
        /\ OnlyApp(p) /\ apps'[p].token = session
        /\ apps'[p].storing = Append(apps[p].storing, session)
        /\ apps'[p].open = apps[p].open
        /\ apps'[p].shown = apps[p].shown /\ apps'[p].role = apps[p].role
    BY <1>0, <1>8, ReceiveEffect
  <2> HIDE DEF session, p
  <2> QED
    BY <1>7, <2>1, <2>2
<1>9. ASSUME NEW p \in Phones, SignOut(p)
      PROVE  PhoneInv(q)' /\ KeptRole(q)'
  <2>1. apps[p].open /\ UNCHANGED <<writes, disk>> /\ NoSession \in Session
    BY <1>0, <1>9, ScreenIsOpen, SessionFields DEF SignOut
  <2> QED
    BY <1>0, <1>7, <1>9, <2>1, SignOutEffect
<1>10. ASSUME NEW p \in Phones, Continue(p)
       PROVE  PhoneInv(q)' /\ KeptRole(q)'
  <2>1. CASE q # p
    BY <1>0, <1>10, <2>1, ContinueEffect, PhoneKept DEF OnlyApp
  <2>2. CASE q = p
    <3>1. apps[p].open /\ apps[p].storing # <<>> /\ apps[p].token = Newest(apps[p].storing)
      BY <1>0, <1>10, <2>2, ContinueEffect DEF PhoneInv, Closed
    <3>2. IF apps'[p].storing = <<>> THEN apps'[p].token = apps'[p].shown
          ELSE apps'[p].token = Newest(apps'[p].storing)
      <4>1. IF Tail(apps[p].storing) = <<>> THEN Head(apps[p].storing) = Newest(apps[p].storing)
            ELSE Newest(Tail(apps[p].storing)) = Newest(apps[p].storing)
        BY <1>0, <3>1, NewestOfTail, SessionFields
      <4> QED
        BY <1>0, <1>10, <3>1, <4>1, ContinueEffect
    <3>3. writes'[p] # <<>> /\ Newest(writes'[p]) = apps'[p].role
      <4>1. /\ apps'[p].role \in AnyRole /\ writes[p] \in Seq(AnyRole)
            /\ writes'[p] = Append(writes[p], apps'[p].role)
        BY <1>0, <1>10, ContinueEffect, SessionFields
      <4> QED
        BY <4>1, NewestAppended
    <3>4. /\ apps'[p].open /\ disk'[p].token = apps'[p].shown
          /\ apps'[p].role = apps'[p].shown.role
      BY <1>0, <1>10, <3>1, ContinueEffect
    <3>5. PhoneInv(q)'
      BY <2>2, <3>2, <3>4 DEF PhoneInv, Newest
    <3>6. KeptRole(q)'
      BY <2>2, <3>3, <3>4 DEF KeptRole, Newest
    <3> QED
      BY <3>5, <3>6
  <2> QED
    BY <2>1, <2>2
<1>11. ASSUME NEW p \in Phones, WriteRole(p)
       PROVE  PhoneInv(q)' /\ KeptRole(q)'
  <2>1. /\ writes[p] # <<>> /\ apps' = apps
        /\ writes'[p] = Tail(writes[p]) /\ disk'[p].role = Head(writes[p])
        /\ disk'[p].token = disk[p].token
        /\ \A x \in Phones \ {p} : writes'[x] = writes[x] /\ disk'[x] = disk[x]
    BY <1>0, <1>11 DEF WriteRole, TypeOK
  <2>2. CASE q # p
    BY <1>0, <2>1, <2>2, PhoneKept
  <2>3. CASE q = p
    <3>1. apps[p].open
      BY <1>0, <2>1, <2>3 DEF PhoneInv
    <3>2. IF Tail(writes[p]) = <<>> THEN Head(writes[p]) = Newest(writes[p])
          ELSE Newest(Tail(writes[p])) = Newest(writes[p])
      BY <1>0, <2>1, NewestOfTail, SessionFields
    <3> QED
      BY <1>0, <2>1, <2>3, <3>1, <3>2 DEF PhoneInv, KeptRole, Newest
  <2> QED
    BY <2>2, <2>3
<1>12. ASSUME NEW p \in Phones, Close(p)
       PROVE  PhoneInv(q)' /\ KeptRole(q)'
  <2>1. CASE q # p
    BY <1>0, <1>12, <2>1, CloseEffect, PhoneKept DEF OnlyApp, Close
  <2>2. CASE q = p
    <3>1. /\ ~Closed.open /\ Closed.storing = <<>> /\ Closed.token = Closed.shown
          /\ Closed.role = Closed.shown.role
      BY SessionFields, <1>0 DEF Closed
    <3>2. PhoneInv(q)'
      BY <1>0, <1>12, <2>2, <3>1, CloseEffect DEF PhoneInv
    <3>3. "closed" \notin scene.hazards => disk[p].role = disk[p].token.role
      BY <1>0, <1>12, <2>2 DEF Close, Quiet, PhoneInv, KeptRole
    <3>4. KeptRole(q)'
      BY <1>0, <1>12, <2>2, <3>1, <3>3, CloseEffect DEF KeptRole, Close
    <3> QED
      BY <3>2, <3>4
  <2> QED
    BY <2>1, <2>2
<1>13. ASSUME NEW p \in Phones, Open(p)
       PROVE  PhoneInv(q)' /\ KeptRole(q)'
  <2>1. CASE q # p
    BY <1>0, <1>13, <2>1, OpenEffect, PhoneKept DEF OnlyApp, Open
  <2>2. CASE q = p
    BY <1>0, <1>13, <2>2, OpenEffect DEF PhoneInv, KeptRole, Open
  <2> QED
    BY <2>1, <2>2
<1>14. ASSUME NEW c \in calls, Check(c) \/ CountAttempt(c) \/ Finish(c)
       PROVE  PhoneInv(q)' /\ KeptRole(q)'
  BY <1>1, <1>14 DEF Check, CountAttempt, Finish
<1>15. ASSUME NEW a \in Accounts, ExpireOtp(a) \/ SetBlocked(a)
       PROVE  PhoneInv(q)' /\ KeptRole(q)'
  BY <1>1, <1>15 DEF ExpireOtp, SetBlocked
<1>16. CASE UNCHANGED vars
  BY <1>1, <1>16 DEF vars
<1> QED
  BY <1>3, <1>4, <1>5, <1>6, <1>8, <1>9, <1>10, <1>11, <1>12, <1>13, <1>14, <1>15, <1>16
     DEF Next, Proceed

-----------------------------------------------------------------------------
(* The calls in flight *)

\* A call that moves on stays the call it is.
Successor(c, after) ==
    /\ after \in Call /\ Becomes(c, after)
    /\ after.kind = c.kind /\ after.account = c.account

\* The API takes a call one statement further: the role of the account is looked
\* at in one and set or read in the next.
LEMMA ApiEffect ==
    ASSUME TypeOK, NEW c \in calls, Check(c) \/ CountAttempt(c) \/ Finish(c)
    PROVE  /\ UNCHANGED <<apps, writes, disk, chosen>> /\ c.at # "answered"
           /\ \E after \in Call :
                 /\ Successor(c, after) /\ after.phone = c.phone
                 /\ after.at = "checked" /\ c.kind = "role" => roleOf[c.account] = NoRole
                 /\ after.at = "answered" => after.role = roleOf'[c.account]
                 /\ \/ roleOf' = roleOf
                    \/ /\ c.kind = "role" /\ c.at = "checked" /\ after.at = "answered"
                       /\ roleOf' \in [Accounts -> AnyRole]
                       /\ \A a \in Accounts \ {c.account} : roleOf'[a] = roleOf[a]
<1>0. /\ UNCHANGED <<apps, writes, disk, chosen>> /\ c.at # "answered"
      /\ c \in Call /\ c.account \in Accounts /\ c.role \in AnyRole
      /\ roleOf \in [Accounts -> AnyRole]
  BY SessionFields DEF Check, CountAttempt, Finish, TypeOK
<1>1. CASE Check(c)
  <2> DEFINE at == IF Allowed(c) THEN "checked"
                   ELSE IF c.kind = "verify" /\ Tries(c.account) THEN "wrong" ELSE "refused"
             after == [c EXCEPT !.right = TRUE, !.at = at]
  <2>1. /\ at \in {"checked", "wrong", "refused"}
        /\ at = "checked" /\ c.kind = "role" => roleOf[c.account] = NoRole
    BY <1>0 DEF Allowed
  <2>2. Becomes(c, after) /\ roleOf' = roleOf
    BY <1>1 DEF Check
  <2> HIDE DEF at
  <2>3. /\ after \in Call /\ after.kind = c.kind /\ after.account = c.account
        /\ after.phone = c.phone /\ after.at = at
    BY <1>0, <2>1 DEF Call
  <2> HIDE DEF after
  <2> QED
    BY <1>0, <2>1, <2>2, <2>3 DEF Successor
<1>2. CASE CountAttempt(c)
  <2> DEFINE after == [c EXCEPT !.at = "refused"]
  <2>1. /\ after \in Call /\ after.kind = c.kind /\ after.account = c.account
        /\ after.phone = c.phone /\ after.at = "refused"
    BY <1>0 DEF Call
  <2>2. Becomes(c, after) /\ roleOf' = roleOf
    BY <1>2 DEF CountAttempt
  <2> HIDE DEF after
  <2> QED
    BY <1>0, <2>1, <2>2 DEF Successor
<1>3. CASE Finish(c) /\ Verify(c) /\ blocked[c.account] = "yes"
  <2> DEFINE after == [c EXCEPT !.at = "refused"]
  <2>1. /\ after \in Call /\ after.kind = c.kind /\ after.account = c.account
        /\ after.phone = c.phone /\ after.at = "refused"
    BY <1>0 DEF Call
  <2>2. Becomes(c, after) /\ roleOf' = roleOf
    BY <1>3 DEF Verify
  <2> HIDE DEF after
  <2> QED
    BY <1>0, <2>1, <2>2 DEF Successor
<1>4. CASE Finish(c) /\ Verify(c) /\ blocked[c.account] # "yes"
  <2> DEFINE after == [c EXCEPT !.at = "answered", !.role = roleOf[c.account]]
  <2>1. /\ after \in Call /\ after.kind = c.kind /\ after.account = c.account
        /\ after.phone = c.phone /\ after.at = "answered" /\ after.role = roleOf[c.account]
    BY <1>0 DEF Call
  <2>2. Becomes(c, after) /\ roleOf' = roleOf
    BY <1>4 DEF Verify
  <2> HIDE DEF after
  <2> QED
    BY <1>0, <2>1, <2>2 DEF Successor
<1>5. CASE Finish(c) /\ SetRole(c)
  <2> DEFINE after == [c EXCEPT !.at = "answered"]
  <2>1. /\ after \in Call /\ after.kind = c.kind /\ after.account = c.account
        /\ after.phone = c.phone /\ after.at = "answered" /\ after.role = c.role
    BY <1>0 DEF Call
  <2>2. /\ Becomes(c, after) /\ roleOf' = [roleOf EXCEPT ![c.account] = c.role]
        /\ c.kind = "role" /\ c.at = "checked"
    BY <1>5 DEF Finish, SetRole
  <2> HIDE DEF after
  <2>3. /\ roleOf' \in [Accounts -> AnyRole] /\ roleOf'[c.account] = c.role
        /\ \A a \in Accounts \ {c.account} : roleOf'[a] = roleOf[a]
    BY <1>0, <2>2
  <2> QED
    BY <1>0, <2>1, <2>2, <2>3 DEF Successor
<1> QED
  BY <1>1, <1>2, <1>3, <1>4, <1>5 DEF Finish

\* Role calls are answered by an app that is open and, unless they may overlap,
\* taken one at a time, so that what one has checked is still so when it acts.
LEMMA StepCalls == SessionInv /\ [Next]_vars => CallsInv'
<1> SUFFICES ASSUME SessionInv, [Next]_vars PROVE CallsInv'
  OBVIOUS
<1>0. scene' = scene /\ TypeOK /\ CallsInv
  BY DEF Next, vars, SessionInv
\* An app stays open where a call is waited for, and no call comes in.
<1>1. ASSUME roleOf' = roleOf, \A e \in calls' : e.phone # NoPhone => apps'[e.phone].open,
             calls' \subseteq calls
      PROVE  CallsInv'
  BY <1>0, <1>1 DEF CallsInv
<1>2. ASSUME NEW c \in calls, Check(c) \/ CountAttempt(c) \/ Finish(c)
      PROVE  CallsInv'
  <2>1. PICK after \in Call :
                 /\ Successor(c, after) /\ after.phone = c.phone
                 /\ after.at = "checked" /\ c.kind = "role" => roleOf[c.account] = NoRole
                 /\ \/ roleOf' = roleOf
                    \/ /\ c.kind = "role" /\ c.at = "checked" /\ after.at = "answered"
                       /\ \A a \in Accounts \ {c.account} : roleOf'[a] = roleOf[a]
    BY <1>0, <1>2, ApiEffect
  <2>2. apps' = apps
    BY <1>0, <1>2, ApiEffect
  <2>3. \A e \in calls' : e = after \/ e \in calls \ {c}
    BY <2>1 DEF Successor, Becomes
  <2>4. \A e \in calls' : e.phone # NoPhone => apps'[e.phone].open
    BY <1>0, <2>1, <2>2, <2>3 DEF CallsInv
  <2>5. ASSUME "raced" \notin scene.hazards, NEW e \in calls', NEW f \in calls',
               e.kind = "role", f.kind = "role", e.account = f.account
        PROVE  e = f
    BY <1>0, <2>1, <2>3, <2>5 DEF CallsInv, Successor
  <2>6. ASSUME "raced" \notin scene.hazards, NEW e \in calls', e.kind = "role", e.at = "checked"
        PROVE  roleOf'[e.account] = NoRole
    <3>1. CASE e = after
      BY <2>1, <2>6, <3>1 DEF Successor
    <3>2. CASE e \in calls \ {c}
      <4>1. roleOf[e.account] = NoRole /\ e.account \in Accounts
        BY <1>0, <2>6, <3>2, SessionFields DEF CallsInv
      <4>2. c.kind = "role" => e.account # c.account
        BY <1>0, <2>6, <3>2 DEF CallsInv
      <4> QED
        BY <2>1, <4>1, <4>2
    <3> QED
      BY <2>3, <3>1, <3>2
  <2> QED
    BY <1>0, <2>4, <2>5, <2>6 DEF CallsInv
<1>3. ASSUME NEW p \in Phones, NEW a \in Accounts, RequestOtp(p, a)
      PROVE  CallsInv'
  <2> DEFINE F(c) == IF c.kind = "verify" /\ c.account = a /\ c.at = "sent"
                     THEN [c EXCEPT !.right = FALSE] ELSE c
  <2>1. /\ calls' = {F(c) : c \in calls} /\ roleOf' = roleOf
        /\ \A q \in Phones : apps'[q].open = apps[q].open
    BY <1>0, <1>3, BusyEffect DEF RequestOtp, OnlyApp
  <2>2. \A c \in calls : /\ F(c).kind = c.kind /\ F(c).phone = c.phone
                         /\ F(c).account = c.account /\ F(c).at = c.at
    BY <1>0, SessionFields DEF Call
  <2> HIDE DEF F
  <2>3. \A e \in calls' : e.phone # NoPhone => apps'[e.phone].open
    BY <1>0, <2>1, <2>2, SessionFields DEF CallsInv
  <2> QED
    BY <1>0, <2>1, <2>2, <2>3 DEF CallsInv
<1>4. ASSUME NEW p \in Phones, NEW a \in Accounts, NEW right \in BOOLEAN, SendCode(p, a, right)
      PROVE  CallsInv'
  <2> DEFINE new == [kind |-> "verify", phone |-> p, account |-> a,
                     role |-> NoRole, right |-> right, at |-> "sent"]
  <2>1. /\ calls' = calls \cup {new} /\ roleOf' = roleOf
        /\ \A q \in Phones : apps'[q].open = apps[q].open
        /\ apps[p].open
    BY <1>0, <1>4, BusyEffect, ScreenIsOpen DEF SendCode, OnlyApp
  <2>2. new.kind = "verify" /\ new.phone = p
    OBVIOUS
  <2> HIDE DEF new
  <2>3. \A e \in calls' : e.phone # NoPhone => apps'[e.phone].open
    BY <1>0, <2>1, <2>2, SessionFields DEF CallsInv
  <2> QED
    BY <1>0, <2>1, <2>2, <2>3 DEF CallsInv
<1>5. ASSUME NEW p \in Phones, NEW r \in Roles, PickRole(p, r)
      PROVE  CallsInv'
  <2> DEFINE new == [kind |-> "role", phone |-> p, account |-> apps[p].token.account,
                     role |-> r, right |-> TRUE, at |-> "sent"]
  <2>1. /\ calls' = calls \cup {new} /\ roleOf' = roleOf
        /\ \A q \in Phones : apps'[q].open = apps[q].open
        /\ apps[p].open
        /\ "raced" \notin scene.hazards =>
              \A c \in calls : c.kind = "role" => c.account # apps[p].token.account
    BY <1>0, <1>5, BusyEffect, ScreenIsOpen DEF PickRole, OnlyApp
  <2>2. new.phone = p /\ new.at = "sent" /\ new.account = apps[p].token.account
    OBVIOUS
  <2> HIDE DEF new
  <2>3. \A e \in calls' : e.phone # NoPhone => apps'[e.phone].open
    BY <1>0, <2>1, <2>2, SessionFields DEF CallsInv
  <2> QED
    BY <1>0, <2>1, <2>2, <2>3 DEF CallsInv
<1>6. ASSUME NEW c \in calls, Receive(c)
      PROVE  CallsInv'
  <2>1. /\ calls' \subseteq calls /\ roleOf' = roleOf
        /\ \A q \in Phones : apps'[q].open = apps[q].open
    BY <1>0, <1>6, ReceiveEffect DEF Receive, OnlyApp
  <2> QED
    BY <1>0, <1>1, <2>1, SessionFields DEF CallsInv
<1>7. ASSUME NEW c \in calls, ReceiveRefusal(c)
      PROVE  CallsInv'
  <2>1. /\ calls' \subseteq calls /\ roleOf' = roleOf
        /\ \A q \in Phones : apps'[q].open = apps[q].open
    BY <1>0, <1>7, NoLongerBusyEffect DEF ReceiveRefusal, OnlyApp
  <2> QED
    BY <1>0, <1>1, <2>1, SessionFields DEF CallsInv
<1>8. ASSUME NEW c \in calls, Lose(c)
      PROVE  CallsInv'
  <2> DEFINE after == [c EXCEPT !.phone = NoPhone]
  <2>1. /\ Becomes(c, after) /\ roleOf' = roleOf
        /\ \A q \in Phones : apps'[q].open = apps[q].open
    BY <1>0, <1>8, NoLongerBusyEffect DEF Lose, OnlyApp
  <2>2. /\ after.phone = NoPhone /\ after.kind = c.kind /\ after.account = c.account
        /\ after.at = c.at
    BY <1>0, SessionFields DEF Call
  <2> HIDE DEF after
  <2>3. \A e \in calls' : e = after \/ e \in calls \ {c}
    BY <2>1 DEF Becomes
  <2>4. \A e \in calls' : e.phone # NoPhone => apps'[e.phone].open
    BY <1>0, <2>1, <2>2, <2>3, SessionFields DEF CallsInv
  <2> QED
    BY <1>0, <2>1, <2>2, <2>3, <2>4 DEF CallsInv
<1>9. ASSUME NEW p \in Phones, SignOut(p) \/ Continue(p) \/ Open(p)
      PROVE  CallsInv'
  <2>1. /\ calls' = calls /\ roleOf' = roleOf
        /\ \A q \in Phones : apps[q].open => apps'[q].open
    BY <1>0, <1>9, SignOutEffect, ContinueEffect, OpenEffect
       DEF SignOut, Continue, Open, OnlyApp
  <2> QED
    BY <1>0, <1>1, <2>1, SessionFields DEF CallsInv
<1>10. ASSUME NEW p \in Phones, Close(p)
       PROVE  CallsInv'
  <2> DEFINE F(c) == IF c.phone = p THEN [c EXCEPT !.phone = NoPhone] ELSE c
             left == {x \in calls : x.phone # p \/ x.at \in {"sent", "checked", "wrong"}}
  <2>1. /\ calls' = {F(c) : c \in left} /\ roleOf' = roleOf
        /\ \A q \in Phones \ {p} : apps'[q] = apps[q]
    BY <1>0, <1>10, CloseEffect DEF Close, OnlyApp
  <2>2. \A c \in calls : /\ F(c).kind = c.kind /\ F(c).account = c.account /\ F(c).at = c.at
                         /\ F(c).phone = IF c.phone = p THEN NoPhone ELSE c.phone
    BY <1>0, SessionFields DEF Call
  <2>3. left \subseteq calls
    OBVIOUS
  <2> HIDE DEF F, left
  <2>4. \A e \in calls' : e.phone # NoPhone => apps'[e.phone].open
    BY <1>0, <2>1, <2>2, <2>3, SessionFields DEF CallsInv
  <2> QED
    BY <1>0, <2>1, <2>2, <2>3, <2>4 DEF CallsInv
<1>11. CASE UNCHANGED <<calls, roleOf, apps>>
  BY <1>0, <1>1, <1>11 DEF CallsInv
<1>12. ASSUME NEW a \in Accounts, ExpireOtp(a) \/ SetBlocked(a)
       PROVE  CallsInv'
  BY <1>11, <1>12 DEF ExpireOtp, SetBlocked
<1>13. ASSUME NEW p \in Phones, WriteRole(p)
       PROVE  CallsInv'
  BY <1>11, <1>13 DEF WriteRole
<1> QED
  BY <1>2, <1>3, <1>4, <1>5, <1>6, <1>7, <1>8, <1>9, <1>10, <1>11, <1>12, <1>13
     DEF Next, Proceed, vars

-----------------------------------------------------------------------------
(* The patient user *)

\* Nothing is interrupted.
LEMMA PatientScenes ==
    ASSUME Patient
    PROVE  "closed" \notin scene.hazards /\ "impatient" \notin scene.hazards
           /\ "resends" \notin scene.hazards
BY DEF Patient, Handled

\* Where PatientInv says something of a phone.
PatientPhone(p) ==
    /\ Owns(p, apps[p].token)
    /\ apps[p].storing # <<>> =>
          /\ apps[p].storing = <<apps[p].token>>
          /\ apps[p].busy = "no" => apps[p].token = NoSession /\ apps[p].shown # NoSession
    /\ ~apps[p].open => Owns(p, disk[p].token)

\* And of a call.
PatientCall(c) ==
    c.phone # NoPhone =>
       /\ apps[c.phone].busy = c.kind /\ apps[c.phone].storing = <<>>
       /\ c.account = chosen[c.phone]

\* A phone that waits for nothing has no call in flight.
LEMMA NotBusy ==
    ASSUME TypeOK, PatientInv, NEW p \in Phones, apps[p].busy = "no" \/ apps[p].storing # <<>>
    PROVE  \A c \in calls : c.phone # p
<1>1. \A c \in calls : c.phone = p => c.phone # NoPhone /\ c.kind # "no"
  BY SessionFields, SessionAssumption
<1> QED
  BY <1>1 DEF PatientInv

\* Only the calls of one phone, and its app, change, and of its calls one is left
\* at most.
LEMMA PatientKept ==
    ASSUME TypeOK, PatientInv, NEW p \in Phones, OnlyApp(p),
           chosen' \in [Phones -> Accounts \cup {NoAccount}],
           \A q \in Phones \ {p} : chosen'[q] = chosen[q] /\ disk'[q] = disk[q],
           \A e \in calls' : e.phone # NoPhone /\ e.phone # p => e \in calls,
           \A e, f \in calls' : e.phone = p /\ f.phone = p => e = f,
           \A e \in calls' : e.phone = p => PatientCall(e)',
           PatientPhone(p)'
    PROVE  PatientInv'
<1>1. \A q \in Phones \ {p} : apps'[q] = apps[q]
  BY DEF OnlyApp
<1>2. \A e, f \in calls' : e.phone # NoPhone /\ e.phone = f.phone => e = f
  BY DEF PatientInv
<1>3. \A e \in calls' : PatientCall(e)'
  <2>1. ASSUME NEW e \in calls', e.phone # NoPhone, e.phone # p
        PROVE  PatientCall(e)'
    BY <1>1, <2>1, SessionFields DEF PatientInv, PatientCall
  <2> QED
    BY <2>1 DEF PatientCall
<1>4. \A q \in Phones : PatientPhone(q)'
  <2>1. ASSUME NEW q \in Phones \ {p}
        PROVE  PatientPhone(q)'
    BY <1>1, <2>1 DEF PatientInv, PatientPhone, Owns
  <2> QED
    BY <2>1
<1> QED
  BY <1>2, <1>3, <1>4 DEF PatientInv, PatientCall, PatientPhone

\* One thing at a time, and for the user the phone has: as long as the user waits
\* for the app, whatever answers are lost.
LEMMA StepPatient ==
    ASSUME SessionInv, [Next]_vars, Patient
    PROVE  PatientInv'
<1>0. /\ scene' = scene /\ TypeOK /\ CallsInv /\ PatientInv
      /\ \A p \in Phones : PhoneInv(p) /\ PatientPhone(p)
      /\ \A c \in calls : PatientCall(c)
  BY DEF Next, vars, SessionInv, PatientInv, PatientPhone, PatientCall
<1>1. /\ chosen \in [Phones -> Accounts \cup {NoAccount}]
      /\ \A c \in calls : c.phone \in Phones \cup {NoPhone} /\ c.kind \in {"verify", "role"}
                          /\ c.account \in Accounts
      /\ \A p \in Phones : p # NoPhone
      /\ "closed" \notin scene.hazards /\ "impatient" \notin scene.hazards
      /\ "resends" \notin scene.hazards
  BY <1>0, SessionFields, SessionAssumption, PatientScenes DEF TypeOK
<1>2. ASSUME NEW c \in calls, Check(c) \/ CountAttempt(c) \/ Finish(c)
      PROVE  PatientInv'
  <2>1. PICK after \in Call : Successor(c, after) /\ after.phone = c.phone
    BY <1>0, <1>2, ApiEffect
  <2>2. UNCHANGED <<apps, disk, chosen>>
    BY <1>0, <1>2, ApiEffect
  <2>3. \A e \in calls' : e = after \/ e \in calls \ {c}
    BY <2>1 DEF Successor, Becomes
  <2> QED
    BY <1>0, <2>1, <2>2, <2>3 DEF PatientInv, Successor, Owns
<1>3. ASSUME NEW p \in Phones, NEW a \in Accounts, RequestOtp(p, a)
      PROVE  PatientInv'
  <2> DEFINE F(c) == IF c.kind = "verify" /\ c.account = a /\ c.at = "sent"
                     THEN [c EXCEPT !.right = FALSE] ELSE c
  <2>1. /\ calls' = {F(c) : c \in calls} /\ apps[p].busy = "no" /\ UNCHANGED <<disk, chosen>>
        /\ OnlyApp(p) /\ apps'[p].busy = "no"
        /\ apps'[p].open = apps[p].open /\ apps'[p].token = apps[p].token
        /\ apps'[p].shown = apps[p].shown /\ apps'[p].storing = apps[p].storing
    BY <1>0, <1>1, <1>3, BusyEffect DEF RequestOtp
  <2>2. \A c \in calls : /\ F(c).kind = c.kind /\ F(c).phone = c.phone
                         /\ F(c).account = c.account
    BY <1>0, SessionFields DEF Call
  <2> HIDE DEF F
  <2>3. \A q \in Phones : /\ apps'[q].busy = apps[q].busy /\ apps'[q].open = apps[q].open
                          /\ apps'[q].token = apps[q].token /\ apps'[q].shown = apps[q].shown
                          /\ apps'[q].storing = apps[q].storing
    BY <2>1 DEF OnlyApp
  <2> QED
    BY <1>0, <1>1, <2>1, <2>2, <2>3 DEF PatientInv, Owns
<1>4. ASSUME NEW p \in Phones, NEW a \in Accounts, NEW right \in BOOLEAN, SendCode(p, a, right)
      PROVE  PatientInv'
  <2> DEFINE new == [kind |-> "verify", phone |-> p, account |-> a,
                     role |-> NoRole, right |-> right, at |-> "sent"]
  <2>1. /\ calls' = calls \cup {new} /\ apps[p].busy = "no" /\ disk' = disk
        /\ chosen' = [chosen EXCEPT ![p] = a]
        /\ apps[p].open /\ apps[p].shown = NoSession
        /\ OnlyApp(p) /\ apps'[p].busy = "verify"
        /\ apps'[p].open = apps[p].open /\ apps'[p].token = apps[p].token
        /\ apps'[p].shown = apps[p].shown /\ apps'[p].storing = apps[p].storing
    BY <1>0, <1>4, BusyEffect, ScreenIsOpen DEF SendCode
  <2>2. new.phone = p /\ new.kind = "verify" /\ new.account = a
    OBVIOUS
  <2> HIDE DEF new
  <2>3. apps[p].storing = <<>> /\ apps[p].token = NoSession
    BY <1>0, <2>1 DEF PatientPhone, PhoneInv
  <2>4. \A c \in calls : c.phone # p
    BY <1>0, <2>1, NotBusy
  <2>5. /\ chosen' \in [Phones -> Accounts \cup {NoAccount}] /\ chosen'[p] = a
        /\ \A q \in Phones \ {p} : chosen'[q] = chosen[q]
    BY <1>1, <2>1
  <2>6. PatientPhone(p)'
    BY <2>1, <2>3 DEF PatientPhone, Owns
  <2>7. \A e \in calls' : e.phone = p => e = new /\ PatientCall(e)'
    BY <2>1, <2>2, <2>3, <2>4, <2>5 DEF PatientCall
  <2> QED
    BY <1>0, <1>1, <2>1, <2>2, <2>5, <2>6, <2>7, PatientKept
<1>5. ASSUME NEW p \in Phones, NEW r \in Roles, PickRole(p, r)
      PROVE  PatientInv'
  <2> DEFINE new == [kind |-> "role", phone |-> p, account |-> apps[p].token.account,
                     role |-> r, right |-> TRUE, at |-> "sent"]
  <2>1. /\ calls' = calls \cup {new} /\ apps[p].busy = "no" /\ UNCHANGED <<disk, chosen>>
        /\ apps[p].token.account # NoAccount /\ apps[p].open
        /\ OnlyApp(p) /\ apps'[p].busy = "role"
        /\ apps'[p].open = apps[p].open /\ apps'[p].token = apps[p].token
        /\ apps'[p].shown = apps[p].shown /\ apps'[p].storing = apps[p].storing
    BY <1>0, <1>5, BusyEffect, ScreenIsOpen DEF PickRole
  <2>2. new.phone = p /\ new.kind = "role" /\ new.account = apps[p].token.account
    OBVIOUS
  <2> HIDE DEF new
  <2>3. apps[p].token # NoSession /\ apps[p].storing = <<>> /\ apps[p].token.account = chosen[p]
    BY <1>0, <2>1, SessionFields DEF PatientPhone, Owns
  <2>4. \A c \in calls : c.phone # p
    BY <1>0, <2>1, NotBusy
  <2>5. PatientPhone(p)'
    BY <2>1, <2>3 DEF PatientPhone, Owns
  <2>6. \A e \in calls' : e.phone = p => e = new /\ PatientCall(e)'
    BY <2>1, <2>2, <2>3, <2>4 DEF PatientCall
  <2> QED
    BY <1>0, <1>1, <2>1, <2>2, <2>5, <2>6, PatientKept
<1>6. ASSUME NEW c \in calls, Receive(c)
      PROVE  PatientInv'
  <2> DEFINE p == c.phone
             session == [account |-> c.account, role |-> c.role]
  <2>1. /\ calls' = calls \ {c} /\ p \in Phones /\ UNCHANGED <<disk, chosen>>
        /\ OnlyApp(p) /\ apps'[p].token = session /\ apps'[p].busy = apps[p].busy
        /\ apps'[p].storing = Append(apps[p].storing, session)
        /\ apps'[p].open = apps[p].open /\ session.account = c.account
    BY <1>0, <1>6, ReceiveEffect DEF Receive
  <2> HIDE DEF session
  <2>2. /\ apps[p].storing = <<>> /\ apps[p].busy # "no" /\ c.account = chosen[p]
        /\ apps[p].open
    BY <1>0, <1>1, <2>1 DEF PatientCall, CallsInv
  <2>3. Append(<<>>, session) = <<session>>
    OBVIOUS
  <2>4. PatientPhone(p)'
    BY <2>1, <2>2, <2>3 DEF PatientPhone, Owns
  <2>5. \A e \in calls' : e.phone # p
    BY <1>0, <1>1, <2>1 DEF PatientInv
  <2> HIDE DEF p
  <2> QED
    BY <1>0, <1>1, <2>1, <2>4, <2>5, PatientKept
<1>7. ASSUME NEW c \in calls, ReceiveRefusal(c) \/ Lose(c)
      PROVE  PatientInv'
  <2> DEFINE p == c.phone
  <2>1. /\ p # NoPhone /\ p \in Phones /\ OnlyApp(p) /\ UNCHANGED <<disk, chosen>>
        /\ apps'[p].busy = IF apps[p].busy = c.kind THEN "no" ELSE apps[p].busy
        /\ apps'[p].open = apps[p].open /\ apps'[p].token = apps[p].token
        /\ apps'[p].shown = apps[p].shown /\ apps'[p].storing = apps[p].storing
    BY <1>0, <1>7, NoLongerBusyEffect DEF ReceiveRefusal, Lose
  <2>2. \A e \in calls' : e.phone = NoPhone \/ e \in calls \ {c}
    <3>1. [c EXCEPT !.phone = NoPhone].phone = NoPhone
      BY <1>0, SessionFields DEF Call
    <3> QED
      BY <1>7, <3>1 DEF ReceiveRefusal, Lose, Becomes
  <2>3. apps[p].storing = <<>>
    BY <1>0, <2>1 DEF PatientCall
  <2>4. PatientPhone(p)'
    BY <1>0, <2>1, <2>3 DEF PatientPhone, Owns
  <2>5. \A e \in calls' : e.phone # p
    BY <1>0, <1>1, <2>1, <2>2 DEF PatientInv
  <2> HIDE DEF p
  <2> QED
    BY <1>0, <1>1, <2>1, <2>2, <2>4, <2>5, PatientKept
<1>8. ASSUME NEW p \in Phones, SignOut(p)
      PROVE  PatientInv'
  <2>1. /\ calls' = calls /\ disk' = disk /\ chosen' = [chosen EXCEPT ![p] = NoAccount]
        /\ apps[p].busy = "no" /\ apps[p].storing = <<>>
        /\ apps[p].open /\ apps[p].shown # NoSession
        /\ OnlyApp(p) /\ apps'[p].token = NoSession /\ apps'[p].busy = apps[p].busy
        /\ apps'[p].storing = Append(apps[p].storing, NoSession)
        /\ apps'[p].open = apps[p].open /\ apps'[p].shown = apps[p].shown
    BY <1>0, <1>1, <1>8, SignOutEffect, ScreenIsOpen DEF SignOut
  <2>2. Append(<<>>, NoSession) = <<NoSession>>
    OBVIOUS
  <2>3. \A c \in calls : c.phone # p
    BY <1>0, <2>1, NotBusy
  <2>4. /\ chosen' \in [Phones -> Accounts \cup {NoAccount}]
        /\ \A q \in Phones \ {p} : chosen'[q] = chosen[q]
    BY <1>1, <2>1
  <2>5. PatientPhone(p)'
    BY <2>1, <2>2 DEF PatientPhone, Owns
  <2> QED
    BY <1>0, <1>1, <2>1, <2>3, <2>4, <2>5, PatientKept
<1>9. ASSUME NEW p \in Phones, Continue(p)
      PROVE  PatientInv'
  <2>1. /\ calls' = calls /\ chosen' = chosen /\ apps[p].storing # <<>>
        /\ OnlyApp(p) /\ apps'[p].token = apps[p].token
        /\ apps'[p].storing = Tail(apps[p].storing)
        /\ apps'[p].open = apps[p].open
        /\ \A q \in Phones \ {p} : disk'[q] = disk[q]
    BY <1>0, <1>9, ContinueEffect DEF Continue
  <2>2. apps[p].open /\ apps[p].storing = <<apps[p].token>>
    BY <1>0, <2>1 DEF PhoneInv, PatientPhone, Closed
  <2>3. apps'[p].storing = <<>>
    BY <2>1, <2>2
  <2>4. \A c \in calls : c.phone # p
    BY <1>0, <2>1, NotBusy
  <2>5. PatientPhone(p)'
    BY <1>0, <2>1, <2>2, <2>3 DEF PatientPhone, Owns
  <2> QED
    BY <1>0, <1>1, <2>1, <2>4, <2>5, PatientKept
<1>10. ASSUME NEW p \in Phones, Close(p)
       PROVE  PatientInv'
  <2>1. /\ apps[p].busy = "no" /\ apps[p].storing = <<>> /\ apps[p].open
        /\ OnlyApp(p) /\ apps'[p] = Closed /\ UNCHANGED <<disk, chosen>>
    BY <1>0, <1>1, <1>10, CloseEffect DEF Close, Quiet
  <2>2. \A c \in calls : c.phone # p
    BY <1>0, <2>1, NotBusy
  <2>3. calls' \subseteq calls
    BY <1>10, <2>2 DEF Close
  <2>4. Closed.token = NoSession /\ Closed.storing = <<>> /\ ~Closed.open
    BY DEF Closed
  <2>5. PatientPhone(p)'
    BY <1>0, <2>1, <2>4 DEF PatientPhone, PhoneInv, Owns
  <2> QED
    BY <1>0, <1>1, <2>1, <2>2, <2>3, <2>5, PatientKept
<1>11. ASSUME NEW p \in Phones, Open(p)
       PROVE  PatientInv'
  <2>1. /\ ~apps[p].open /\ OnlyApp(p) /\ UNCHANGED <<calls, disk, chosen>>
        /\ apps'[p].token = disk[p].token /\ apps'[p].storing = <<>> /\ apps'[p].open
    <3>1. apps'[p] = [open |-> TRUE, token |-> disk[p].token, shown |-> disk[p].token,
                      role |-> disk[p].role, storing |-> <<>>, busy |-> "no"]
      BY <1>0, <1>11, OpenEffect
    <3>2. ~apps[p].open /\ OnlyApp(p) /\ UNCHANGED <<calls, disk, chosen>>
      BY <1>0, <1>11, OpenEffect DEF Open
    <3> QED
      BY <3>1, <3>2
  <2>2. \A c \in calls : c.phone # p
    BY <1>0, <1>1, <2>1 DEF CallsInv
  <2>3. PatientPhone(p)'
    BY <1>0, <2>1 DEF PatientPhone, Owns
  <2> QED
    BY <1>0, <1>1, <2>1, <2>2, <2>3, PatientKept
<1>12. ASSUME apps' = apps, calls' = calls, chosen' = chosen,
              \A q \in Phones : disk'[q].token = disk[q].token
       PROVE  PatientInv'
  BY <1>0, <1>12 DEF PatientInv, Owns
<1>13. ASSUME NEW a \in Accounts, ExpireOtp(a) \/ SetBlocked(a)
       PROVE  PatientInv'
  BY <1>12, <1>13 DEF ExpireOtp, SetBlocked
<1>14. ASSUME NEW p \in Phones, WriteRole(p)
       PROVE  PatientInv'
  BY <1>0, <1>12, <1>14 DEF WriteRole, TypeOK
<1>15. CASE UNCHANGED vars
  BY <1>12, <1>15 DEF vars
<1> QED
  BY <1>2, <1>3, <1>4, <1>5, <1>6, <1>7, <1>8, <1>9, <1>10, <1>11, <1>13, <1>14, <1>15
     DEF Next, Proceed

-----------------------------------------------------------------------------
(* Signing up *)

\* Where SignupInv says something of a phone.
SignupPhone(p) ==
    /\ (\A c \in calls : c.phone = p => c.at # "answered") => Fresh(apps[p].token)
    /\ ~apps[p].open => Fresh(disk[p].token)

\* No role is set, and only one phone takes an answer or changes its user.
LEMMA SignupKept ==
    ASSUME SignupInv, scene' = scene, roleOf' = roleOf, NEW p \in Phones, OnlyApp(p),
           \A q \in Phones \ {p} : chosen'[q] = chosen[q] /\ disk'[q] = disk[q],
           \A e \in calls' : e.phone # NoPhone /\ (e.at = "answered" => e \in calls),
           \A e \in calls : e.phone # p /\ e.at = "answered" => e \in calls',
           chosen'[p] # NoAccount => <<p, chosen'[p]>> \in scene.logins,
           SignupPhone(p)'
    PROVE  SignupInv'
<1>1. \A q \in Phones \ {p} : apps'[q] = apps[q]
  BY DEF OnlyApp
<1>2. \A q \in Phones : SignupPhone(q)'
  <2>1. ASSUME NEW q \in Phones \ {p}
        PROVE  SignupPhone(q)'
    BY <1>1, <2>1 DEF SignupInv, SignupPhone, Fresh
  <2> QED
    BY <2>1
<1>3. \A q \in Phones : chosen'[q] # NoAccount => <<q, chosen'[q]>> \in scene'.logins
  BY DEF SignupInv
<1>4. \A e \in calls' : e.at = "answered" => e.role = roleOf'[e.account]
  BY DEF SignupInv
<1> QED
  BY <1>2, <1>3, <1>4 DEF SignupInv, SignupPhone

\* The only phone of an account is the one it is signed in on.
LEMMA OnePhone ==
    ASSUME TypeOK, OnePhoneEach, SignupInv, NEW p \in Phones, NEW q \in Phones,
           chosen[p] = chosen[q], chosen[p] # NoAccount
    PROVE  p = q
<1>1. <<p, chosen[p]>> \in scene.logins /\ <<q, chosen[q]>> \in scene.logins
  BY DEF SignupInv
<1>2. <<p, chosen[p]>> = <<q, chosen[q]>>
  BY <1>1 DEF OnePhoneEach
<1> QED
  BY <1>2

\* What a phone has of its account is what the API has: an account has one phone,
\* and no answer to it is lost or overtaken by another.
LEMMA StepSignup ==
    ASSUME SessionInv, [Next]_vars, scene.hazards \subseteq Handled, OnePhoneEach
    PROVE  SignupInv'
<1>0. /\ scene' = scene /\ TypeOK /\ CallsInv /\ PatientInv /\ SignupInv
      /\ \A p \in Phones : PhoneInv(p) /\ PatientPhone(p) /\ SignupPhone(p)
      /\ \A c \in calls : PatientCall(c)
  BY DEF Next, vars, SessionInv, Patient, PatientInv, PatientPhone, PatientCall,
         SignupInv, SignupPhone
<1>1. /\ chosen \in [Phones -> Accounts \cup {NoAccount}]
      /\ roleOf \in [Accounts -> AnyRole]
      /\ \A c \in calls : /\ c.phone \in Phones /\ c.phone # NoPhone
                          /\ c.kind \in {"verify", "role"}
                          /\ c.account \in Accounts /\ c.account # NoAccount
      /\ \A p \in Phones : p # NoPhone
      /\ \A a \in Accounts : a # NoAccount
      /\ "closed" \notin scene.hazards /\ "impatient" \notin scene.hazards
      /\ "resends" \notin scene.hazards /\ "lost" \notin scene.hazards
  <2>1. \A c \in calls : c.phone # NoPhone
    BY <1>0 DEF SignupInv
  <2>2. {"closed", "impatient", "resends", "lost"} \cap Handled = {}
    BY DEF Handled
  <2> QED
    BY <1>0, <2>1, <2>2, SessionFields, SessionAssumption DEF TypeOK
<1>2. ASSUME NEW c \in calls, Check(c) \/ CountAttempt(c) \/ Finish(c)
      PROVE  SignupInv'
  <2>1. PICK after \in Call :
                 /\ Successor(c, after) /\ after.phone = c.phone
                 /\ after.at = "answered" => after.role = roleOf'[c.account]
                 /\ \/ roleOf' = roleOf
                    \/ /\ after.at = "answered"
                       /\ \A a \in Accounts \ {c.account} : roleOf'[a] = roleOf[a]
    BY <1>0, <1>2, ApiEffect
  <2>2. UNCHANGED <<apps, disk, chosen>> /\ c.at # "answered"
    BY <1>0, <1>2, ApiEffect
  <2>3. /\ \A e \in calls' : e = after \/ e \in calls \ {c}
        /\ after \in calls' /\ calls \ {c} \subseteq calls'
    BY <1>1, <2>1 DEF Successor, Becomes
  <2>4. /\ after.account = c.account /\ after.phone = c.phone
        /\ c.phone \in Phones /\ c.phone # NoPhone /\ c.account = chosen[c.phone]
        /\ c.account \in Accounts /\ c.account # NoAccount /\ apps[c.phone].open
    BY <1>0, <1>1, <2>1 DEF Successor, PatientCall, CallsInv
  <2>5. ASSUME NEW p \in Phones, p # c.phone
        PROVE  chosen[p] # c.account
    BY <1>0, <2>4, <2>5, OnePhone
  <2>6. ASSUME NEW session \in Session, NEW p \in Phones, p # c.phone,
               Owns(p, session), Fresh(session)
        PROVE  Fresh(session)'
    <3>1. CASE session = NoSession
      BY <3>1 DEF Fresh
    <3>2. CASE session # NoSession
      <4>1. session.account \in Accounts \ {c.account}
        BY <1>1, <2>5, <2>6, <3>2 DEF Owns, Session
      <4> QED
        BY <2>1, <2>6, <3>2, <4>1 DEF Fresh
    <3> QED
      BY <3>1, <3>2
  <2>7. \A e \in calls' : e.at = "answered" => e.role = roleOf'[e.account]
    <3>1. ASSUME NEW e \in calls \ {c}, e.at = "answered"
          PROVE  e.role = roleOf'[e.account]
      <4>1. e.phone # c.phone
        BY <1>0, <1>1, <3>1 DEF PatientInv
      <4>2. e.account # c.account
        BY <1>0, <1>1, <2>5, <4>1 DEF PatientCall
      <4> QED
        BY <1>0, <1>1, <2>1, <3>1, <4>2 DEF SignupInv
    <3> QED
      BY <2>1, <2>3, <2>4, <3>1
  <2>8. ASSUME NEW p \in Phones
        PROVE  SignupPhone(p)'
    <3>1. CASE p = c.phone
      <4>1. apps'[p].open
        BY <2>2, <2>4, <3>1
      <4>2. CASE after.at = "answered"
        BY <2>3, <2>4, <3>1, <4>1, <4>2 DEF SignupPhone
      <4>3. CASE after.at # "answered"
        <5>1. \A e \in calls : e.phone = p => e.at # "answered"
          BY <1>0, <1>1, <2>2, <3>1 DEF PatientInv
        <5>2. Fresh(apps[p].token) /\ roleOf' = roleOf
          BY <1>0, <2>1, <4>3, <5>1 DEF SignupPhone
        <5> QED
          BY <2>2, <4>1, <5>2 DEF SignupPhone, Fresh
      <4> QED
        BY <4>2, <4>3
    <3>2. CASE p # c.phone
      <4>1. /\ apps[p].token \in Session /\ disk[p].token \in Session
            /\ Owns(p, apps[p].token) /\ (~apps[p].open => Owns(p, disk[p].token))
        BY <1>0, SessionFields DEF PatientPhone
      <4>2. Fresh(apps[p].token) => Fresh(apps[p].token)'
        BY <2>2, <2>6, <3>2, <4>1 DEF Fresh
      <4>3. ~apps[p].open /\ Fresh(disk[p].token) => Fresh(disk[p].token)'
        BY <2>2, <2>6, <3>2, <4>1 DEF Fresh
      <4>4. (\A e \in calls' : e.phone = p => e.at # "answered")
               => \A e \in calls : e.phone = p => e.at # "answered"
        BY <2>3, <3>2
      <4> QED
        BY <1>0, <2>2, <4>2, <4>3, <4>4 DEF SignupPhone
    <3> QED
      BY <3>1, <3>2
  <2>9. \A e \in calls' : e.phone # NoPhone
    BY <1>1, <2>3, <2>4
  <2> QED
    BY <1>0, <2>2, <2>7, <2>8, <2>9 DEF SignupInv, SignupPhone
\* A phone begins or ends to wait, perhaps for another user of its.
<1>3. ASSUME NEW p \in Phones, OnlyApp(p), roleOf' = roleOf, disk' = disk,
             apps'[p].token = apps[p].token, apps'[p].open = apps[p].open,
             \A q \in Phones \ {p} : chosen'[q] = chosen[q],
             chosen'[p] = chosen[p] \/ <<p, chosen'[p]>> \in scene.logins,
             \A e \in calls' : e.phone # NoPhone /\ (e.at = "answered" => e \in calls),
             \A e \in calls : e.at = "answered" => e \in calls'
      PROVE  SignupInv'
  <2>1. SignupPhone(p)'
    BY <1>0, <1>3 DEF SignupPhone, Fresh
  <2>2. chosen'[p] # NoAccount => <<p, chosen'[p]>> \in scene.logins
    BY <1>0, <1>3 DEF SignupInv
  <2> QED
    BY <1>0, <1>3, <2>1, <2>2, SignupKept
<1>4. ASSUME NEW p \in Phones, NEW a \in Accounts, RequestOtp(p, a)
      PROVE  SignupInv'
  <2> DEFINE F(c) == IF c.kind = "verify" /\ c.account = a /\ c.at = "sent"
                     THEN [c EXCEPT !.right = FALSE] ELSE c
  <2>1. /\ calls' = {F(c) : c \in calls} /\ UNCHANGED <<roleOf, disk, chosen>>
        /\ OnlyApp(p) /\ apps'[p].open = apps[p].open /\ apps'[p].token = apps[p].token
    BY <1>0, <1>4, BusyEffect DEF RequestOtp
  <2>2. \A c \in calls : /\ F(c).phone = c.phone /\ F(c).at = c.at
                         /\ c.at = "answered" => F(c) = c
    BY <1>0, SessionFields DEF Call
  <2> HIDE DEF F
  <2> QED
    BY <1>1, <1>3, <2>1, <2>2
<1>5. ASSUME NEW p \in Phones, NEW a \in Accounts, NEW right \in BOOLEAN, SendCode(p, a, right)
      PROVE  SignupInv'
  <2> DEFINE new == [kind |-> "verify", phone |-> p, account |-> a,
                     role |-> NoRole, right |-> right, at |-> "sent"]
  <2>1. /\ calls' = calls \cup {new} /\ UNCHANGED <<roleOf, disk>>
        /\ chosen' = [chosen EXCEPT ![p] = a] /\ <<p, a>> \in scene.logins
        /\ OnlyApp(p) /\ apps'[p].open = apps[p].open /\ apps'[p].token = apps[p].token
    BY <1>0, <1>5, BusyEffect DEF SendCode
  <2>2. new.phone = p /\ new.at # "answered"
    OBVIOUS
  <2> HIDE DEF new
  <2>3. chosen'[p] = a /\ \A q \in Phones \ {p} : chosen'[q] = chosen[q]
    BY <1>1, <2>1
  <2> QED
    BY <1>1, <1>3, <2>1, <2>2, <2>3
<1>6. ASSUME NEW p \in Phones, NEW r \in Roles, PickRole(p, r)
      PROVE  SignupInv'
  <2> DEFINE new == [kind |-> "role", phone |-> p, account |-> apps[p].token.account,
                     role |-> r, right |-> TRUE, at |-> "sent"]
  <2>1. /\ calls' = calls \cup {new} /\ UNCHANGED <<roleOf, disk, chosen>>
        /\ OnlyApp(p) /\ apps'[p].open = apps[p].open /\ apps'[p].token = apps[p].token
    BY <1>0, <1>6, BusyEffect DEF PickRole
  <2>2. new.phone = p /\ new.at # "answered"
    OBVIOUS
  <2> HIDE DEF new
  <2> QED
    BY <1>1, <1>3, <2>1, <2>2
<1>7. ASSUME NEW c \in calls, ReceiveRefusal(c)
      PROVE  SignupInv'
  <2>1. /\ calls' = calls \ {c} /\ UNCHANGED <<roleOf, disk, chosen>>
        /\ c.phone \in Phones /\ OnlyApp(c.phone) /\ c.at # "answered"
        /\ apps'[c.phone].open = apps[c.phone].open
        /\ apps'[c.phone].token = apps[c.phone].token
    BY <1>0, <1>7, NoLongerBusyEffect DEF ReceiveRefusal
  <2> QED
    BY <1>1, <1>3, <2>1
<1>8. ASSUME NEW c \in calls, Receive(c)
      PROVE  SignupInv'
  <2> DEFINE p == c.phone
             session == [account |-> c.account, role |-> c.role]
  <2>1. /\ calls' = calls \ {c} /\ p \in Phones /\ UNCHANGED <<roleOf, disk, chosen>>
        /\ OnlyApp(p) /\ apps'[p].token = session /\ apps'[p].open = apps[p].open
        /\ session.account = c.account /\ session.role = c.role /\ c.at = "answered"
    BY <1>0, <1>8, ReceiveEffect DEF Receive
  <2> HIDE DEF session
  <2>2. apps[p].open /\ c.role = roleOf[c.account]
    BY <1>0, <1>1, <2>1 DEF CallsInv, SignupInv
  <2>3. SignupPhone(p)'
    BY <2>1, <2>2 DEF SignupPhone, Fresh
  <2>4. chosen'[p] # NoAccount => <<p, chosen'[p]>> \in scene.logins
    BY <1>0, <2>1 DEF SignupInv
  <2> HIDE DEF p
  <2> QED
    BY <1>0, <1>1, <2>1, <2>3, <2>4, SignupKept DEF p
<1>9. ASSUME NEW p \in Phones, SignOut(p)
      PROVE  SignupInv'
  <2>1. /\ calls' = calls /\ disk' = disk /\ roleOf' = roleOf
        /\ chosen' = [chosen EXCEPT ![p] = NoAccount]
        /\ OnlyApp(p) /\ apps'[p].token = NoSession
        /\ apps[p].open /\ apps'[p].open = apps[p].open
    BY <1>0, <1>9, SignOutEffect, ScreenIsOpen DEF SignOut
  <2>2. chosen'[p] = NoAccount /\ \A q \in Phones \ {p} : chosen'[q] = chosen[q]
    BY <1>1, <2>1
  <2>3. SignupPhone(p)'
    BY <2>1 DEF SignupPhone, Fresh
  <2> QED
    BY <1>0, <1>1, <2>1, <2>2, <2>3, SignupKept
<1>10. ASSUME NEW p \in Phones, Continue(p)
       PROVE  SignupInv'
  <2>1. /\ calls' = calls /\ chosen' = chosen /\ roleOf' = roleOf /\ apps[p].storing # <<>>
        /\ OnlyApp(p) /\ apps'[p].token = apps[p].token
        /\ apps'[p].open = apps[p].open
        /\ \A q \in Phones \ {p} : disk'[q] = disk[q]
    BY <1>0, <1>10, ContinueEffect DEF Continue
  <2>2. apps[p].open
    BY <1>0, <2>1 DEF PhoneInv, Closed
  <2>3. SignupPhone(p)'
    BY <1>0, <2>1, <2>2 DEF SignupPhone, Fresh
  <2>4. chosen'[p] # NoAccount => <<p, chosen'[p]>> \in scene.logins
    BY <1>0, <2>1 DEF SignupInv
  <2> QED
    BY <1>0, <1>1, <2>1, <2>3, <2>4, SignupKept
<1>11. ASSUME NEW p \in Phones, Close(p)
       PROVE  SignupInv'
  <2>1. /\ apps[p].busy = "no" /\ apps[p].storing = <<>> /\ apps[p].open
        /\ OnlyApp(p) /\ apps'[p] = Closed /\ UNCHANGED <<roleOf, disk, chosen>>
    BY <1>0, <1>1, <1>11, CloseEffect DEF Close, Quiet
  <2>2. \A c \in calls : c.phone # p
    BY <1>0, <2>1, NotBusy
  <2>3. calls' = {c \in calls : c.phone # p \/ c.at \in {"sent", "checked", "wrong"}}
    BY <1>11, <2>2 DEF Close
  <2>4. calls' = calls
    BY <2>2, <2>3
  <2>5. disk[p].token = apps[p].token /\ Fresh(apps[p].token)
    BY <1>0, <2>1, <2>2 DEF PhoneInv, SignupPhone
  <2>6. SignupPhone(p)'
    BY <2>1, <2>5 DEF SignupPhone, Fresh, Closed
  <2>7. chosen'[p] # NoAccount => <<p, chosen'[p]>> \in scene.logins
    BY <1>0, <2>1 DEF SignupInv
  <2> QED
    BY <1>0, <1>1, <2>1, <2>4, <2>6, <2>7, SignupKept
<1>12. ASSUME NEW p \in Phones, Open(p)
       PROVE  SignupInv'
  <2>1. apps'[p] = [open |-> TRUE, token |-> disk[p].token, shown |-> disk[p].token,
                    role |-> disk[p].role, storing |-> <<>>, busy |-> "no"]
    BY <1>0, <1>12, OpenEffect
  <2>2. ~apps[p].open /\ OnlyApp(p) /\ UNCHANGED <<roleOf, calls, disk, chosen>>
    BY <1>0, <1>12, OpenEffect DEF Open
  <2>3. apps'[p].token = disk[p].token /\ apps'[p].open
    BY <2>1
  <2>4. SignupPhone(p)'
    BY <1>0, <2>2, <2>3 DEF SignupPhone, Fresh
  <2>5. chosen'[p] # NoAccount => <<p, chosen'[p]>> \in scene.logins
    BY <1>0, <2>2 DEF SignupInv
  <2> QED
    BY <1>0, <1>1, <2>2, <2>4, <2>5, SignupKept
<1>13. ASSUME UNCHANGED <<apps, calls, chosen, roleOf>>,
              \A q \in Phones : disk'[q].token = disk[q].token
       PROVE  SignupInv'
  BY <1>0, <1>13 DEF SignupInv, Fresh
<1>14. ASSUME NEW a \in Accounts, ExpireOtp(a) \/ SetBlocked(a)
       PROVE  SignupInv'
  BY <1>13, <1>14 DEF ExpireOtp, SetBlocked
<1>15. ASSUME NEW p \in Phones, WriteRole(p)
       PROVE  SignupInv'
  BY <1>0, <1>13, <1>15 DEF WriteRole, TypeOK
<1>16. CASE UNCHANGED vars
  BY <1>13, <1>16 DEF vars
<1>17. \A c \in calls : ~Lose(c)
  BY <1>1 DEF Lose
<1> QED
  BY <1>2, <1>4, <1>5, <1>6, <1>7, <1>8, <1>9, <1>10, <1>11, <1>12, <1>14, <1>15, <1>16, <1>17
     DEF Next, Proceed

-----------------------------------------------------------------------------
(* The theorems *)

\* Nothing is stored and nobody is signed in at first.
LEMMA InitSession == Init => SessionInv
<1> SUFFICES ASSUME Init PROVE SessionInv
  OBVIOUS
<1>1. NoSession \in Session /\ NoSession.role = NoRole
  BY DEF Session, NoSession
<1>2. Closed \in App /\ Closed = [open |-> FALSE, token |-> NoSession, shown |-> NoSession,
                                  role |-> NoRole, storing |-> <<>>, busy |-> "no"]
  BY <1>1 DEF Closed, App, AnyRole
<1>3. TypeOK
  BY <1>1, <1>2, SessionAssumption DEF Init, TypeOK, AnyRole, NoCode
<1>4. \A p \in Phones : /\ apps[p] = Closed /\ writes[p] = <<>> /\ chosen[p] = NoAccount
                        /\ disk[p].token = NoSession /\ disk[p].role = NoRole
                        /\ apps[p].token = NoSession /\ apps[p].shown = NoSession
                        /\ apps[p].role = NoRole /\ apps[p].storing = <<>> /\ ~apps[p].open
  BY <1>2 DEF Init
<1>5. calls = {}
  BY DEF Init
<1>6. \A p \in Phones : PhoneInv(p) /\ KeptRole(p)
  BY <1>1, <1>4 DEF PhoneInv, KeptRole
<1>7. CallsInv /\ PatientInv /\ SignupInv
  BY <1>4, <1>5 DEF CallsInv, PatientInv, SignupInv, Owns, Fresh
<1> QED
  BY <1>3, <1>6, <1>7 DEF SessionInv

\* Every step keeps it.
LEMMA StepSession == SessionInv /\ [Next]_vars => SessionInv'
<1> SUFFICES ASSUME SessionInv, [Next]_vars PROVE SessionInv'
  OBVIOUS
<1>1. scene' = scene
  BY DEF Next, vars
<1>2. TypeOK' /\ CallsInv'
  BY StepSessionTypes, StepCalls DEF SessionInv
<1>3. \A p \in Phones : PhoneInv(p)' /\ KeptRole(p)'
  BY StepPhones
<1>4. Patient' => PatientInv'
  BY <1>1, StepPatient DEF Patient
<1>5. (scene.hazards \subseteq Handled /\ OnePhoneEach)' => SignupInv'
  BY <1>1, StepSignup DEF OnePhoneEach
<1> QED
  BY <1>2, <1>3, <1>4, <1>5 DEF SessionInv

\* Memory, SecureStore, the calls in flight and the API belong together at all times.
THEOREM SessionInvariant == Spec => []SessionInv
<1>1. SessionInv /\ [Next]_vars => SessionInv'
  BY StepSession
<1> QED
  BY InitSession, <1>1, PTL DEF Spec

\* The session, the calls and the accounts have their types.
THEOREM SessionTypes == Spec => []TypeOK
<1>1. SessionInv => TypeOK
  BY DEF SessionInv
<1> QED
  BY SessionInvariant, <1>1, PTL

\* The home a phone shows is one its token is good for, its user is the one who
\* logged in, and who has a role is not asked for one.
THEOREM SessionsAreTrue == Spec => []PhoneShowsItsSession
<1>1. SessionInv => PhoneShowsItsSession
  <2> SUFFICES ASSUME SessionInv PROVE PhoneShowsItsSession
    OBVIOUS
  <2>1. TypeOK /\ \A p \in Phones : PhoneInv(p) /\ KeptRole(p)
    BY DEF SessionInv
  <2>2. HomeMatchesToken
    BY <2>1 DEF HomeMatchesToken, PhoneInv, KeptRole
  <2>3. SessionIsTheUsers
    <3> SUFFICES ASSUME Patient, NEW p \in Phones,
                        apps[p].shown # NoSession, apps[p].storing = <<>>
                 PROVE  apps[p].shown.account = chosen[p]
      BY DEF SessionIsTheUsers, Patient
    <3>1. apps[p].token = apps[p].shown
      BY <2>1 DEF PhoneInv
    <3>2. Owns(p, apps[p].token)
      BY DEF SessionInv, PatientInv
    <3> QED
      BY <3>1, <3>2 DEF Owns
  <2>4. RoleAskedOnce
    <3> SUFFICES ASSUME scene.hazards \subseteq Handled, OnePhoneEach, NEW p \in Phones,
                        Screen(p) = "roles", Quiet(p)
                 PROVE  roleOf[apps[p].shown.account] = NoRole
      BY DEF RoleAskedOnce
    <3>1. PatientInv /\ SignupInv /\ "closed" \notin scene.hazards
      BY DEF SessionInv, Patient, Handled
    <3>2. \A c \in calls : c.phone # p
      BY <2>1, <3>1, NotBusy DEF Quiet
    <3>3. /\ apps[p].token = apps[p].shown /\ apps[p].shown # NoSession
          /\ apps[p].role = NoRole /\ apps[p].role = apps[p].shown.role
      BY <2>1, <3>1, ScreenIsOpen DEF Quiet, PhoneInv, KeptRole
    <3>4. Fresh(apps[p].token)
      BY <3>1, <3>2 DEF SignupInv
    <3> QED
      BY <3>3, <3>4 DEF Fresh
  <2> QED
    BY <2>2, <2>3, <2>4 DEF PhoneShowsItsSession
<1> QED
  BY SessionInvariant, <1>1, PTL

\* A role that is set stays, as long as no two role calls for its account overlap,
\* whatever else goes wrong.
THEOREM RolesAreSetOnce == Spec => RoleSetOnce
<1>1. SessionInv /\ [Next]_vars
        => [\A a \in Accounts : roleOf[a] # NoRole /\ "raced" \notin scene.hazards =>
               roleOf'[a] = roleOf[a]]_vars
  <2> SUFFICES ASSUME SessionInv, [Next]_vars,
                      NEW a \in Accounts, roleOf[a] # NoRole, "raced" \notin scene.hazards
               PROVE  roleOf'[a] = roleOf[a]
    BY DEF vars
  <2>1. TypeOK /\ CallsInv
    BY DEF SessionInv
  <2>2. ASSUME NEW c \in calls, Check(c) \/ CountAttempt(c) \/ Finish(c)
        PROVE  roleOf'[a] = roleOf[a]
    <3>1. \/ roleOf' = roleOf
          \/ /\ c.kind = "role" /\ c.at = "checked"
             /\ \A b \in Accounts \ {c.account} : roleOf'[b] = roleOf[b]
      BY <2>1, <2>2, ApiEffect
    <3> QED
      BY <2>1, <3>1 DEF CallsInv
  <2>3. CASE UNCHANGED roleOf
    BY <2>3
  <2>4. \/ UNCHANGED roleOf
        \/ \E c \in calls : Check(c) \/ CountAttempt(c) \/ Finish(c)
    BY DEF Next, Proceed, vars, ExpireOtp, SetBlocked, Lose, RequestOtp, SendCode, PickRole,
           SignOut, Close, Open, Continue, WriteRole, Receive, ReceiveRefusal
  <2> QED
    BY <2>2, <2>3, <2>4
<1> QED
  BY SessionInvariant, <1>1, PTL DEF Spec, RoleSetOnce

-----------------------------------------------------------------------------
(* ProfileForms: the invariant *)

\* Nothing happens that could save what was not meant to be saved.
Calm == hazards \subseteq IF role = "seller" THEN {"early"} ELSE {}

\* What a field is meant to be: what was typed, else what it is, or starts as.
Meant(r, typed, f) ==
    IF typed[f] # Untouched THEN typed[f] ELSE IF r = NoRow THEN Empty.values[f] ELSE r[f]

\* A profile on its way to the row has the field that makes it one.
SavesInv ==
    \A x \in Slots :
       asked[x].kind = "save" /\ asked[x].at = "sent" => asked[x].profile["name"] # Blank

\* The form has been filled from the row, or has not been touched; what its Save
\* has sent is meant, and has nothing typed that the form does not know of.
FormInv ==
    OnForm => IF form.loading THEN form.values = Empty.values /\ form.typed = Empty.typed
              ELSE \A f \in Fields : form.values[f] = Meant(row, form.typed, f)

\* What the call c of the screen means.
WaitOK(c) ==
    /\ c.kind = "check" => stack = <<"home">> /\ home # "hub"
    /\ c.kind = "load" => /\ OnForm /\ form.loading
                          /\ c.at = "answered" => c.profile = row
    /\ c.kind = "save" =>
          /\ OnForm /\ ~form.loading /\ form.busy
          /\ c.onDone <=> stack = <<"home">>
          /\ \A f \in Fields : form.typed[f] = Untouched => c.typed[f] = Untouched
          /\ c.at = "sent" =>
                /\ Complete(c.profile)
                /\ \A f \in Fields : c.profile[f] = Meant(row, c.typed, f)

\* The screen waits for one call, and a save is never left behind.
WaitInv ==
    /\ \A x \in Slots : asked[x].owner = "none" => asked[x] = Idle
    /\ \A x \in Slots : asked[x].owner \in {"home", "left"} => asked[x].kind # "save"
    /\ \A x, y \in Slots : asked[x].owner = "screen" /\ asked[y].owner = "screen" => x = y
    /\ \A x \in Slots : asked[x].owner = "screen" => WaitOK(asked[x])

\* A driver has a capacity.
CapacityInv == role = "driver" /\ row # NoRow => row["detail"] # Blank

ProfileInv ==
    /\ ProfileTypeOK /\ SavesInv
    /\ Calm => FormInv /\ WaitInv /\ CapacityInv
-----------------------------------------------------------------------------
(* ProfileForms: types *)

\* The parts of the state.
LEMMA ProfileFields ==
    ASSUME ProfileTypeOK
    PROVE  /\ row \in Profile /\ form.values \in Profile
           /\ form.typed \in [Fields -> Values \cup {Untouched}]
           /\ form = [values |-> form.values, typed |-> form.typed,
                      loading |-> form.loading, busy |-> form.busy]
           /\ form.loading \in BOOLEAN /\ form.busy \in BOOLEAN
           /\ NoRow \in Profile /\ Empty \in Form /\ Empty.loading = TRUE
           /\ \A x \in Slots : asked[x] \in Request
BY ProfileAssumption DEF ProfileTypeOK, Form, Request, NoRow, Empty, Profile, Fields, Untouched

\* What a slot can be given.
LEMMA AskIsRequest ==
    /\ Idle \in Request
    /\ \A kind \in {"check", "load", "save"} :
          /\ Ask(kind) \in Request /\ Ask(kind).kind = kind
          /\ Ask(kind).at = "sent" /\ Ask(kind).owner = "screen"
          /\ [Ask(kind) EXCEPT !.owner = "screen"] = Ask(kind)
BY ProfileAssumption DEF Ask, Idle, Request, NoRow, Profile, Fields, Untouched

\* A new call takes one idle slot.
LEMMA WithTakes ==
    ASSUME NEW cs, NEW c, asked' \in With(cs, c)
    PROVE  \E y \in Slots : cs[y] = Idle /\ asked' = [cs EXCEPT ![y] = c]
BY DEF With

\* Leaving a screen changes nothing of a call but who waits for it.
LEMMA LeftEffect ==
    ASSUME NEW cs \in [Slots -> Request]
    PROVE  /\ Left(cs) \in [Slots -> Request]
           /\ \A x \in Slots :
                 /\ Left(cs)[x].owner =
                       IF cs[x].owner \in {"screen", "home"} THEN "left" ELSE cs[x].owner
                 /\ Left(cs)[x].kind = cs[x].kind /\ Left(cs)[x].at = cs[x].at
                 /\ Left(cs)[x].profile = cs[x].profile
                 /\ cs[x].owner \notin {"screen", "home"} => Left(cs)[x] = cs[x]
BY DEF Left, Request

\* Nor does leaving a form.
LEMMA FormLeftEffect ==
    ASSUME NEW cs \in [Slots -> Request]
    PROVE  /\ FormLeft(cs) \in [Slots -> Request]
           /\ \A x \in Slots :
                 /\ FormLeft(cs)[x].kind = cs[x].kind /\ FormLeft(cs)[x].at = cs[x].at
                 /\ FormLeft(cs)[x].profile = cs[x].profile
                 /\ cs[x].owner # "screen" => FormLeft(cs)[x] = cs[x]
BY DEF FormLeft, Request

\* The calls stay calls, and what is on its way to the row stays.
SlotsOK(cs) ==
    /\ cs \in [Slots -> Request]
    /\ \A x \in Slots : cs[x].kind = "save" /\ cs[x].at = "sent" => cs[x].profile["name"] # Blank

\* Leaving a screen or form, an answer that is taken and a new check or load keep that.
LEMMA SlotsKept ==
    ASSUME NEW cs, SlotsOK(cs)
    PROVE  /\ SlotsOK(Left(cs)) /\ SlotsOK(FormLeft(cs))
           /\ \A x \in Slots : SlotsOK([cs EXCEPT ![x] = Idle])
           /\ \A c \in Request :
                 c.kind # "save" /\ asked' \in With(cs, c) => SlotsOK(asked')
           /\ \A kind \in {"check", "load"} : asked' \in With(cs, Ask(kind)) => SlotsOK(asked')
<1>1. SlotsOK(Left(cs)) /\ SlotsOK(FormLeft(cs))
  BY LeftEffect, FormLeftEffect DEF SlotsOK
<1>2. \A x \in Slots : SlotsOK([cs EXCEPT ![x] = Idle])
  BY AskIsRequest DEF SlotsOK, Idle
<1>3. ASSUME NEW c \in Request, c.kind # "save", asked' \in With(cs, c)
      PROVE  SlotsOK(asked')
  <2>1. PICK y \in Slots : asked' = [cs EXCEPT ![y] = c]
    BY <1>3, WithTakes
  <2> QED
    BY <1>3, <2>1 DEF SlotsOK
<1> QED
  BY <1>1, <1>2, <1>3, AskIsRequest

\* The screen and its form, of the right types.
ScreenTypes(h, st, fm) ==
    h \in {"undefined", "setup", "hub"} /\ st \in {<<"home">>, <<"home", "profile">>} /\ fm \in Form

\* Going home keeps the types.
LEMMA GoHomeTypes ==
    ASSUME ProfileTypeOK, UNCHANGED role, NEW cs, SlotsOK(cs), GoHome(cs)
    PROVE  ScreenTypes(home', stack', form') /\ SlotsOK(asked')
<1>1. CASE stack = <<"home">>
  BY <1>1 DEF GoHome, ScreenTypes, ProfileTypeOK
<1>2. CASE stack # <<"home">>
  <2>1. SlotsOK(asked')
    BY <1>2, SlotsKept DEF GoHome
  <2> QED
    BY <1>2, <2>1, ProfileFields DEF GoHome, ScreenTypes
<1> QED
  BY <1>1, <1>2

\* What the home does with its check's answer keeps the types.
LEMMA CheckedTypes ==
    ASSUME ProfileTypeOK, NEW cs, SlotsOK(cs), NEW found, Checked(cs, found)
    PROVE  ScreenTypes(home', stack', form') /\ SlotsOK(asked')
<1>1. ScreenTypes(home', stack', form')
  BY ProfileFields DEF Checked, ScreenTypes, ProfileTypeOK
<1>2. SlotsOK(asked')
  BY SlotsKept DEF Checked
<1> QED
  BY <1>1, <1>2

\* What follows a save keeps the types.
LEMMA SavedTypes ==
    ASSUME ProfileTypeOK, UNCHANGED role, NEW c, NEW cs, SlotsOK(cs), Saved(c, cs)
    PROVE  ScreenTypes(home', stack', form') /\ SlotsOK(asked')
<1>1. CASE c.onDone
  <2>1. PICK d : /\ d \in {Ask("check"), [Ask("check") EXCEPT !.owner = "left"]}
                 /\ asked' \in With(cs, d)
    BY <1>1, AskIsRequest DEF Saved
  <2>2. d \in Request /\ d.kind # "save"
    BY <2>1, AskIsRequest DEF Request
  <2>3. SlotsOK(asked')
    BY <2>1, <2>2, SlotsKept
  <2>4. form' \in Form
    BY <1>1, ProfileFields DEF Saved, ProfileTypeOK, Form
  <2> QED
    BY <1>1, <2>3, <2>4 DEF Saved, ScreenTypes, ProfileTypeOK
<1>2. CASE ~c.onDone
  BY <1>2, GoHomeTypes DEF Saved
<1> QED
  BY <1>1, <1>2

\* A form is filled with values.
LEMMA FilledTypes ==
    ASSUME ProfileTypeOK, NEW found \in Profile
    PROVE  Filled(found) \in Profile
BY ProfileFields DEF Filled, SellerFilled, BuyerFilled, DriverFilled, Profile

\* Every step keeps the types, and a profile on its way has a name.
LEMMA StepProfileTypes ==
    ASSUME ProfileTypeOK, SavesInv, [ProfileNext]_profileVars
    PROVE  ProfileTypeOK' /\ SavesInv'
<1>1. SlotsOK(asked)
  BY DEF SlotsOK, ProfileTypeOK, SavesInv
<1>2. UNCHANGED <<hazards, role>>
  BY DEF ProfileNext, profileVars
<1> DEFINE RowTypes == row' \in Profile /\ (row'["name"] = Blank => row' = NoRow)
<1>3. SUFFICES RowTypes /\ ScreenTypes(home', stack', form') /\ SlotsOK(asked')
  BY <1>2 DEF ScreenTypes, SlotsOK, ProfileTypeOK, SavesInv
<1>4. ScreenTypes(home, stack, form) /\ (UNCHANGED row => RowTypes)
  BY DEF ProfileTypeOK, ScreenTypes
<1> USE ProfileFields
<1>5. ASSUME NEW x \in Slots, Serve(x)
      PROVE  RowTypes /\ ScreenTypes(home', stack', form') /\ SlotsOK(asked')
  <2>1. RowTypes
    <3>1. asked[x].kind = "save" => row' = asked[x].profile /\ asked[x].profile["name"] # Blank
      BY <1>5 DEF Serve, Upsert, SavesInv
    <3>2. asked[x].kind # "save" => UNCHANGED row
      BY <1>5 DEF Serve
    <3> QED
      BY <1>4, <3>1, <3>2 DEF Request
  <2>2. SlotsOK(asked')
    <3> DEFINE c == [Idle EXCEPT !.kind = asked[x].kind, !.owner = asked[x].owner,
                                 !.onDone = asked[x].onDone,
                                 !.profile = IF asked[x].kind = "save" THEN @ ELSE row]
    <3>1. c \in Request /\ c.at = "answered" /\ Idle.at = "answered"
      BY AskIsRequest DEF Request, Idle
    <3>2. PICK d \in {Idle, c} : asked' = [asked EXCEPT ![x] = d]
      BY <1>5 DEF Serve
    <3> HIDE DEF c
    <3> QED
      BY <1>1, <3>1, <3>2, AskIsRequest DEF SlotsOK
  <2>3. ScreenTypes(home', stack', form')
    BY <1>4, <1>5 DEF Serve
  <2> QED
    BY <2>1, <2>2, <2>3
<1>6. ASSUME NEW x \in Slots, Resume(x)
      PROVE  RowTypes /\ ScreenTypes(home', stack', form') /\ SlotsOK(asked')
  <2> DEFINE c  == asked[x]
             cs == [asked EXCEPT ![x] = Idle]
  <2>1. SlotsOK(cs)
    BY <1>1, SlotsKept
  <2>2. RowTypes
    BY <1>4, <1>6 DEF Resume
  <2>3. \/ c.kind = "save" /\ Saved(c, cs)
        \/ c.kind = "check" /\ c.owner = "screen" /\ Checked(cs, c.profile)
        \/ /\ c.kind = "load" /\ c.owner = "screen"
           /\ form' = [form EXCEPT !.values = Filled(c.profile), !.loading = FALSE]
           /\ asked' = cs
           /\ UNCHANGED <<home, stack>>
        \/ asked' = cs /\ UNCHANGED <<home, stack, form>>
    BY <1>6 DEF Resume
  <2>4. CASE Saved(c, cs)
    BY <1>2, <2>1, <2>2, <2>4, SavedTypes
  <2>5. CASE Checked(cs, c.profile)
    BY <2>1, <2>2, <2>5, CheckedTypes
  <2>6. CASE /\ form' = [form EXCEPT !.values = Filled(c.profile), !.loading = FALSE]
             /\ asked' = cs
             /\ UNCHANGED <<home, stack>>
    <3>1. Filled(c.profile) \in Profile
      BY FilledTypes DEF Request
    <3>2. form' \in Form
      BY <2>6, <3>1 DEF Form
    <3> QED
      BY <1>4, <2>1, <2>2, <2>6, <3>2 DEF ScreenTypes
  <2>7. CASE asked' = cs /\ UNCHANGED <<home, stack, form>>
    BY <1>4, <2>1, <2>2, <2>7
  <2> QED
    BY <2>3, <2>4, <2>5, <2>6, <2>7
<1>7. ASSUME NEW x \in Slots, Fail(x)
      PROVE  RowTypes /\ ScreenTypes(home', stack', form') /\ SlotsOK(asked')
  <2>1. PICK cs : /\ \/ cs = [asked EXCEPT ![x] = Idle]
                     \/ cs = [asked EXCEPT ![x].owner = "none"]
                  /\ \/ Checked(cs, NoRow)
                     \/ /\ asked' = cs
                        /\ \/ form' = form
                           \/ form' = [form EXCEPT
                                 !.loading = IF asked[x].kind = "load" THEN FALSE ELSE @,
                                 !.busy = IF asked[x].kind = "save" THEN FALSE ELSE @]
                        /\ UNCHANGED <<home, stack>>
    BY <1>7 DEF Fail
  <2>2. SlotsOK(cs)
    <3>1. CASE cs = [asked EXCEPT ![x] = Idle]
      BY <1>1, <3>1, SlotsKept
    <3>2. CASE cs = [asked EXCEPT ![x].owner = "none"]
      <4>1. [asked[x] EXCEPT !.owner = "none"] \in Request
        BY DEF Request
      <4> QED
        BY <1>1, <3>2, <4>1 DEF SlotsOK
    <3> QED
      BY <2>1, <3>1, <3>2
  <2>3. RowTypes
    BY <1>4, <1>7 DEF Fail
  <2>4. CASE Checked(cs, NoRow)
    BY <2>2, <2>3, <2>4, CheckedTypes
  <2>5. CASE ~Checked(cs, NoRow)
    <3>1. form' \in Form
      BY <2>1, <2>5 DEF Form, ProfileTypeOK
    <3> QED
      BY <1>4, <2>1, <2>2, <2>3, <2>5, <3>1 DEF ScreenTypes
  <2> QED
    BY <2>4, <2>5
<1>8. ASSUME NEW f \in Fields, NEW v \in Values, Type(f, v)
      PROVE  RowTypes /\ ScreenTypes(home', stack', form') /\ SlotsOK(asked')
  <2>1. form' \in Form
    BY <1>8 DEF Type, Form, Profile
  <2> QED
    BY <1>1, <1>4, <1>8, <2>1 DEF Type, ScreenTypes, SlotsOK
<1>9. CASE OpenForm
  <2>1. SlotsOK(Left(asked)) /\ SlotsOK(asked')
    BY <1>1, <1>9, SlotsKept DEF OpenForm
  <2> QED
    BY <1>2, <1>4, <1>9, <2>1 DEF OpenForm, ScreenTypes
<1>10. CASE Back
  BY <1>1, <1>2, <1>4, <1>10, GoHomeTypes DEF Back
<1>11. CASE Save
  <2> DEFINE c == [Ask("save") EXCEPT !.profile = form.values, !.typed = form.typed,
                                      !.onDone = (stack = <<"home">>)]
  <2>1. PICK y \in Slots : asked' = [asked EXCEPT ![y] = c]
    BY <1>11, WithTakes DEF Save
  <2>2. c \in Request /\ c.profile["name"] # Blank
    BY <1>11, AskIsRequest DEF Save, Complete, Request
  <2>3. SlotsOK(asked')
    <3> HIDE DEF c
    <3> QED
      BY <1>1, <2>1, <2>2 DEF SlotsOK
  <2>4. form' \in Form
    BY <1>11 DEF Save, Form
  <2> QED
    BY <1>4, <1>11, <2>3, <2>4 DEF Save, ScreenTypes
<1>12. CASE SaveElsewhere
  BY <1>1, <1>4, <1>12 DEF SaveElsewhere, SlotsOK, ScreenTypes
<1>13. CASE UNCHANGED profileVars
  BY <1>1, <1>4, <1>13 DEF profileVars, SlotsOK, ScreenTypes
<1> QED
  BY <1>5, <1>6, <1>7, <1>8, <1>9, <1>10, <1>11, <1>12, <1>13 DEF ProfileNext
-----------------------------------------------------------------------------
(* ProfileForms: the calm user *)

\* With a calm user the screen is the form's only while it is not asked for early.
LEMMA CalmUser ==
    ASSUME Calm
    PROVE  /\ "lost" \notin hazards /\ "hurries" \notin hazards /\ "elsewhere" \notin hazards
           /\ Visible /\ (form.loading => "early" \in hazards) => ~form.loading
BY DEF Calm, Visible

\* What is not answered or left is waited for.
LEMMA SentIsWaited ==
    ASSUME WaitInv, ProfileTypeOK, NEW x \in Slots, asked[x].at = "sent" \/ asked[x].kind = "save"
    PROVE  /\ asked[x].owner \in {"screen", "home", "left"}
           /\ asked[x].kind = "save" => asked[x].owner = "screen"
<1>1. Idle.at = "answered" /\ Idle.kind = "check"
  BY DEF Idle
<1>2. asked[x].owner \in {"screen", "home", "left", "none"}
  BY ProfileFields DEF Request
<1> QED
  BY <1>1, <1>2 DEF WaitInv

\* The screen that asks anew waits for nothing else.
LEMMA AsksAnew ==
    ASSUME NEW cs \in [Slots -> Request], NEW c, asked' \in With(cs, c),
           c.owner = "screen", WaitOK(c)',
           \A x \in Slots : cs[x].owner # "screen",
           \A x \in Slots : cs[x].owner = "none" => cs[x] = Idle,
           \A x \in Slots : cs[x].owner \in {"home", "left"} => cs[x].kind # "save"
    PROVE  WaitInv'
<1>1. PICK y \in Slots : asked' = [cs EXCEPT ![y] = c]
  BY WithTakes
<1>2. asked'[y] = c /\ \A x \in Slots \ {y} : asked'[x] = cs[x]
  BY <1>1
<1> QED
  BY <1>2 DEF WaitInv, WaitOK, OnForm, Complete, Meant, Empty

\* The screen that waits for nothing any more.
LEMMA AsksNothing ==
    ASSUME \A x \in Slots : asked'[x].owner # "screen",
           \A x \in Slots : asked'[x].owner = "none" => asked'[x] = Idle,
           \A x \in Slots : asked'[x].owner \in {"home", "left"} => asked'[x].kind # "save"
    PROVE  WaitInv'
BY DEF WaitInv

\* Once the call the screen waits for has its answer, or the screen is left, there is
\* none; what is left behind is no save.
Unwaited(cs) ==
    /\ cs \in [Slots -> Request]
    /\ \A x \in Slots : cs[x].owner # "screen"
    /\ \A x \in Slots : cs[x].owner = "none" => cs[x] = Idle
    /\ \A x \in Slots : cs[x].owner \in {"home", "left"} => cs[x].kind # "save"

\* The answer that the screen waited for is taken.
LEMMA AnsweredIsUnwaited ==
    ASSUME ProfileTypeOK, WaitInv, NEW x \in Slots, asked[x].owner = "screen"
    PROVE  Unwaited([asked EXCEPT ![x] = Idle])
<1>1. Idle \in Request /\ Idle.owner = "none"
  BY AskIsRequest DEF Idle
<1> QED
  BY <1>1 DEF Unwaited, WaitInv, ProfileTypeOK

\* The screen is left while no save is under way.
LEMMA LeftIsUnwaited ==
    ASSUME NEW cs \in [Slots -> Request],
           \A x \in Slots : cs[x].owner = "none" => cs[x] = Idle,
           \A x \in Slots : cs[x].owner \in {"screen", "home", "left"} => cs[x].kind # "save"
    PROVE  Unwaited(Left(cs))
<1>1. Idle.owner = "none"
  BY DEF Idle
<1> QED
  BY <1>1, LeftEffect DEF Unwaited

\* The home that is mounted asks, and nothing else is waited for.
LEMMA GoHomeCalm ==
    ASSUME NEW cs \in [Slots -> Request], stack # <<"home">>, GoHome(cs),
           \A x \in Slots : cs[x].owner = "none" => cs[x] = Idle,
           \A x \in Slots : cs[x].owner \in {"screen", "home", "left"} => cs[x].kind # "save"
    PROVE  FormInv' /\ WaitInv'
<1>1. Unwaited(Left(cs))
  BY LeftIsUnwaited
<1>2. /\ asked' \in With(Left(cs), Ask("check"))
      /\ stack' = <<"home">> /\ home' = "undefined"
  BY DEF GoHome
<1>3. WaitOK(Ask("check"))'
  BY <1>2, AskIsRequest DEF WaitOK
<1>4. WaitInv'
  BY <1>1, <1>2, <1>3, AsksAnew, AskIsRequest DEF Unwaited
<1> QED
  BY <1>2, <1>4 DEF FormInv, OnForm

\* The API serves a call: a load finds the row, a save makes it what was meant.
LEMMA ServeCalm ==
    ASSUME ProfileTypeOK, FormInv, WaitInv, CapacityInv, UNCHANGED <<hazards, role>>,
           NEW x \in Slots, Serve(x)
    PROVE  /\ FormInv' /\ WaitInv' /\ CapacityInv'
           /\ asked[x].kind = "save" =>
                 \A f \in Fields : row'[f] = Meant(row, asked[x].typed, f)
<1> DEFINE c == asked[x]
<1>1. /\ c.at = "sent" /\ UNCHANGED <<home, stack, form>>
      /\ row' = IF c.kind = "save" THEN c.profile ELSE row
  BY DEF Serve, Upsert
<1>2. c.owner \in {"screen", "home", "left"} /\ (c.kind = "save" => c.owner = "screen")
  BY <1>1, SentIsWaited
<1>3. PICK d : /\ d = [Idle EXCEPT !.kind = c.kind, !.owner = c.owner,
                                   !.onDone = c.onDone,
                                   !.profile = IF c.kind = "save" THEN @ ELSE row]
               /\ asked' = [asked EXCEPT ![x] = d]
  BY <1>2 DEF Serve
<1>4. /\ d.kind = c.kind /\ d.owner = c.owner /\ d.at = "answered" /\ d.onDone = c.onDone
      /\ d.typed = Empty.typed
      /\ d.profile = IF c.kind = "save" THEN NoRow ELSE row
  BY <1>3 DEF Idle, Empty
<1>5. asked'[x] = d /\ \A y \in Slots \ {x} : asked'[y] = asked[y]
  BY <1>3 DEF ProfileTypeOK
<1>6. Empty' = Empty /\ OnForm' = OnForm
  BY <1>1 DEF Empty, OnForm
<1>7. CASE c.kind = "save"
  <2>1. WaitOK(c) /\ OnForm /\ ~form.loading /\ form.busy
    BY <1>2, <1>7 DEF WaitInv, WaitOK
  <2>2. /\ Complete(c.profile)
        /\ \A f \in Fields : row'[f] = Meant(row, c.typed, f)
        /\ \A f \in Fields : form.typed[f] = Untouched => c.typed[f] = Untouched
    BY <1>1, <1>7, <2>1 DEF WaitOK
  <2>3. row' # NoRow /\ CapacityInv'
    BY <1>1, <1>7, <2>2 DEF Complete, NoRow, CapacityInv, Fields
  <2>4. FormInv'
    <3>1. ASSUME NEW f \in Fields
          PROVE  form.values[f] = IF form.typed[f] # Untouched THEN form.typed[f] ELSE row'[f]
      BY <2>1, <2>2, <3>1 DEF FormInv, Meant
    <3> QED
      BY <1>1, <1>6, <2>1, <2>3, <3>1 DEF FormInv, Meant
  <2>5. \A y \in Slots \ {x} : asked[y].owner # "screen"
    BY <1>2, <1>7 DEF WaitInv
  <2>6. WaitOK(d)'
    BY <1>1, <1>4, <1>6, <1>7, <2>1 DEF WaitOK, Empty
  <2>7. WaitInv'
    BY <1>2, <1>4, <1>5, <1>7, <2>5, <2>6 DEF WaitInv
  <2> QED
    BY <2>2, <2>3, <2>4, <2>7
<1>8. CASE c.kind # "save"
  <2>1. UNCHANGED <<row, home, stack, form>>
    BY <1>1, <1>8
  <2>2. \A e : WaitOK(e)' = WaitOK(e)
    BY <1>6, <2>1, UNCHANGED role DEF WaitOK, Meant, Complete
  <2>3. c.owner = "screen" => WaitOK(d)
    BY <1>4, <1>8 DEF WaitInv, WaitOK
  <2>4. WaitInv'
    BY <1>2, <1>4, <1>5, <1>8, <2>2, <2>3 DEF WaitInv
  <2> QED
    BY <1>6, <1>8, <2>1, <2>4 DEF FormInv, Meant, CapacityInv
<1> QED
  BY <1>7, <1>8

\* What is typed is meant.
LEMMA TypeCalm ==
    ASSUME Calm, ProfileTypeOK, FormInv, WaitInv, UNCHANGED role,
           NEW f \in Fields, NEW v \in Values, Type(f, v)
    PROVE  FormInv' /\ WaitInv'
<1>1. ~form.loading /\ OnForm
  BY CalmUser DEF Type, Visible
<1>2. v # Untouched
  BY ProfileAssumption DEF Untouched
<1>3. /\ UNCHANGED <<row, home, stack, asked>>
      /\ form'.loading = form.loading /\ form'.busy = form.busy
      /\ \A g \in Fields : /\ form'.values[g] = IF g = f THEN v ELSE form.values[g]
                           /\ form'.typed[g] = IF g = f THEN v ELSE form.typed[g]
  BY ProfileFields DEF Type, Profile
<1>4. OnForm' = OnForm /\ Empty' = Empty
  BY <1>3 DEF OnForm, Empty
<1>5. FormInv'
  BY <1>1, <1>2, <1>3, <1>4 DEF FormInv, Meant
<1>6. ASSUME NEW x \in Slots, asked[x].owner = "screen"
      PROVE  WaitOK(asked[x])'
  <2>1. WaitOK(asked[x]) /\ asked'[x] = asked[x]
    BY <1>3, <1>6 DEF WaitInv
  <2> QED
    BY <1>1, <1>2, <1>3, <1>4, <2>1 DEF WaitOK, Meant, Complete
<1> QED
  BY <1>3, <1>5, <1>6 DEF WaitInv

\* What is saved is what the form shows, and nothing else is under way.
LEMMA SaveCalm ==
    ASSUME Calm, ProfileTypeOK, FormInv, WaitInv, UNCHANGED role, Save
    PROVE  FormInv' /\ WaitInv'
<1>1. ~form.loading /\ ~form.busy /\ OnForm /\ ~Checking /\ Complete(form.values)
  BY CalmUser DEF Save, Visible
<1>2. PICK c : c = [Ask("save") EXCEPT !.profile = form.values, !.typed = form.typed,
                                       !.onDone = (stack = <<"home">>)]
  OBVIOUS
<1>3. /\ c.kind = "save" /\ c.owner = "screen"
      /\ c.profile = form.values /\ c.typed = form.typed
      /\ c.onDone <=> stack = <<"home">>
  BY <1>2, AskIsRequest DEF Request
<1>4. asked' \in With(asked, c) /\ UNCHANGED <<row, home, stack>>
      /\ form'.values = form.values /\ form'.typed = form.typed
      /\ form'.loading = form.loading /\ form'.busy
  BY <1>2, ProfileFields DEF Save
<1>5. OnForm' = OnForm /\ Empty' = Empty
  BY <1>4 DEF OnForm, Empty
<1>6. FormInv'
  BY <1>4, <1>5 DEF FormInv, Meant
<1>7. \A x \in Slots : asked[x].owner # "screen"
  <2> SUFFICES ASSUME NEW x \in Slots, asked[x].owner = "screen"
               PROVE  FALSE
    OBVIOUS
  <2>1. WaitOK(asked[x])
    BY DEF WaitInv
  <2>2. asked[x].kind \in {"check", "load", "save"}
    BY ProfileFields DEF Request
  <2> QED
    BY <1>1, <2>1, <2>2 DEF WaitOK, Checking
<1>8. WaitOK(c)'
  BY <1>1, <1>3, <1>4, <1>5 DEF WaitOK, FormInv, Meant, Complete
<1>9. WaitInv'
  BY <1>3, <1>4, <1>7, <1>8, AsksAnew DEF WaitInv, ProfileTypeOK
<1> QED
  BY <1>6, <1>9

\* The hub opens a form that has to be filled.
LEMMA OpenCalm ==
    ASSUME ProfileTypeOK, WaitInv, UNCHANGED role, OpenForm
    PROVE  FormInv' /\ WaitInv'
<1>1. /\ ~OnForm /\ stack' # <<"home">> /\ form' = Empty
      /\ asked' \in With(Left(asked), Ask("load"))
  BY DEF OpenForm, OnForm
<1>2. \A x \in Slots : asked[x].kind # "save"
  BY <1>1, SentIsWaited DEF WaitInv, WaitOK
<1>3. Unwaited(Left(asked))
  BY <1>2, LeftIsUnwaited DEF WaitInv, ProfileTypeOK
<1>4. Empty' = Empty /\ OnForm' /\ form'.loading
  BY <1>1, ProfileFields DEF Empty, OnForm
<1>5. WaitOK(Ask("load"))'
  BY <1>4, AskIsRequest DEF WaitOK
<1>6. WaitInv'
  BY <1>1, <1>3, <1>5, AsksAnew, AskIsRequest DEF Unwaited
<1> QED
  BY <1>1, <1>4, <1>6 DEF FormInv

\* Nobody leaves a form that is being saved.
LEMMA BackCalm ==
    ASSUME Calm, ProfileTypeOK, WaitInv, Back
    PROVE  FormInv' /\ WaitInv'
<1>1. stack # <<"home">> /\ ~form.busy /\ GoHome(asked)
  BY CalmUser DEF Back
<1>2. \A x \in Slots : asked[x].kind # "save"
  BY <1>1, SentIsWaited DEF WaitInv, WaitOK
<1> QED
  BY <1>1, <1>2, GoHomeCalm DEF WaitInv, ProfileTypeOK

\* The form is filled from the row as it is.
LEMMA FilledCalm ==
    ASSUME ProfileTypeOK, CapacityInv, form.values = Empty.values, NEW f \in Fields
    PROVE  Filled(row)[f] = Meant(row, Empty.typed, f)
<1>1. Empty.typed[f] = Untouched /\ Empty.values[f] = IF role = "driver" THEN Preset ELSE Blank
  BY DEF Empty, NoRow
<1>2. Meant(row, Empty.typed, f) = IF row = NoRow THEN Empty.values[f] ELSE row[f]
  BY <1>1 DEF Meant
<1>3. NoRow[f] = Blank
  BY DEF NoRow
<1>4. CASE role = "seller"
  BY <1>1, <1>2, <1>3, <1>4 DEF Filled, SellerFilled
<1>5. CASE role = "buyer"
  BY <1>2, <1>5 DEF Filled, BuyerFilled
<1>6. CASE role = "driver"
  <2>1. Filled(row)[f] = IF row[f] = Blank THEN Empty.values[f] ELSE row[f]
    BY <1>6 DEF Filled, DriverFilled
  <2>2. row # NoRow => row[f] # Blank
    BY <1>6 DEF CapacityInv, ProfileTypeOK, Fields
  <2> QED
    BY <1>2, <1>3, <2>1, <2>2
<1> QED
  BY <1>4, <1>5, <1>6 DEF ProfileTypeOK

\* A step that leaves the row: the form shown stays filled when it and its place stay.
LEMMA FormStays ==
    ASSUME FormInv, UNCHANGED <<role, row>>, OnForm' => OnForm,
           form'.values = form.values, form'.typed = form.typed,
           form'.loading = form.loading
    PROVE  FormInv'
BY DEF FormInv, Meant, Empty

\* An answer arrives.
LEMMA ResumeCalm ==
    ASSUME Calm, ProfileTypeOK, FormInv, WaitInv, CapacityInv, UNCHANGED role,
           NEW x \in Slots, Resume(x)
    PROVE  FormInv' /\ WaitInv'
<1> DEFINE c  == asked[x]
           cs == [asked EXCEPT ![x] = Idle]
<1>1. c.at = "answered" /\ c.owner # "none" /\ UNCHANGED row
  BY DEF Resume
<1>2. /\ cs \in [Slots -> Request] /\ cs[x] = Idle /\ Idle.owner = "none"
      /\ \A y \in Slots \ {x} : cs[y] = asked[y]
  BY AskIsRequest DEF ProfileTypeOK, Idle
<1>3. c.owner = "screen" => Unwaited(cs) /\ WaitOK(c)
  BY AnsweredIsUnwaited DEF WaitInv
<1> HIDE DEF cs
<1>4. CASE c.kind = "save"
  <2>1. /\ c.owner = "screen" /\ Saved(c, cs)
        /\ OnForm /\ ~form.loading /\ (c.onDone <=> stack = <<"home">>)
    BY <1>3, <1>4, SentIsWaited DEF Resume, cs, WaitOK
  <2>2. CASE stack = <<"home">>
    <3>1. /\ asked' \in With(cs, Ask("check")) /\ UNCHANGED <<home, stack>>
          /\ form'.values = form.values /\ form'.typed = form.typed
          /\ form'.loading = form.loading
      BY <2>1, <2>2, ProfileFields, AskIsRequest DEF Saved
    <3>2. WaitOK(Ask("check"))'
      BY <2>1, <2>2, <3>1, AskIsRequest DEF WaitOK, OnForm
    <3>3. WaitInv'
      BY <1>3, <2>1, <3>1, <3>2, AsksAnew, AskIsRequest DEF Unwaited
    <3> QED
      BY <1>1, <3>1, <3>3, FormStays DEF OnForm
  <2>3. CASE stack # <<"home">>
    BY <1>3, <2>1, <2>3, GoHomeCalm DEF Saved, Unwaited
  <2> QED
    BY <2>2, <2>3
<1>5. CASE c.kind = "check" /\ c.owner = "screen"
  <2>1. Checked(cs, c.profile) /\ UNCHANGED stack /\ stack = <<"home">> /\ home # "hub"
    BY <1>3, <1>5 DEF Resume, cs, Checked, WaitOK
  <2>2. CASE c.profile # NoRow
    <3>1. asked' = FormLeft(cs) /\ home' = "hub"
      BY <2>1, <2>2 DEF Checked
    <3>2. Unwaited(asked')
      BY <1>2, <1>3, <1>5, <3>1, FormLeftEffect DEF Unwaited
    <3> QED
      BY <2>1, <3>1, <3>2, AsksNothing DEF FormInv, OnForm, Unwaited
  <2>3. CASE c.profile = NoRow /\ home = "setup"
    <3>1. asked' = cs /\ form' = form /\ home' = home
      BY <2>1, <2>3 DEF Checked
    <3> QED
      BY <1>1, <1>3, <1>5, <2>1, <3>1, FormStays, AsksNothing DEF OnForm, Unwaited
  <2>4. CASE c.profile = NoRow /\ home # "setup"
    <3>1. asked' \in With(cs, Ask("load")) /\ form' = Empty /\ home' = "setup"
      BY <2>1, <2>4 DEF Checked
    <3>2. Empty' = Empty /\ OnForm' /\ form'.loading
      BY <3>1, ProfileFields DEF Empty, OnForm
    <3>3. WaitOK(Ask("load"))'
      BY <3>2, AskIsRequest DEF WaitOK
    <3>4. WaitInv'
      BY <1>3, <1>5, <3>1, <3>3, AsksAnew, AskIsRequest DEF Unwaited
    <3> QED
      BY <3>1, <3>2, <3>4 DEF FormInv
  <2> QED
    BY <2>2, <2>3, <2>4
<1>6. CASE c.kind = "load" /\ c.owner = "screen"
  <2>1. /\ form' = [form EXCEPT !.values = Filled(c.profile), !.loading = FALSE]
        /\ asked' = cs /\ UNCHANGED <<home, stack>>
        /\ OnForm /\ form.loading /\ c.profile = row
    BY <1>1, <1>3, <1>6 DEF Resume, cs, WaitOK
  <2>2. /\ form'.values = Filled(row) /\ form'.typed = form.typed /\ ~form'.loading
        /\ form.values = Empty.values /\ form.typed = Empty.typed
    BY <2>1, ProfileFields DEF FormInv
  <2>3. Empty' = Empty
    BY DEF Empty
  <2>4. FormInv'
    BY <1>1, <2>2, <2>3, FilledCalm DEF FormInv, Meant
  <2> QED
    BY <1>3, <1>6, <2>1, <2>4, AsksNothing DEF Unwaited
<1>7. CASE c.kind # "save" /\ c.owner = "left"
  <2>1. asked' = cs /\ UNCHANGED <<home, stack, form>>
    BY <1>7 DEF Resume, cs
  <2>2. \A d : WaitOK(d)' = WaitOK(d)
    BY <1>1, <2>1 DEF WaitOK, Meant, Complete, OnForm, Empty
  <2>3. WaitInv'
    BY <1>2, <2>1, <2>2 DEF WaitInv
  <2> QED
    BY <1>1, <2>1, <2>3, FormStays DEF OnForm
<1> QED
  BY <1>4, <1>5, <1>6, <1>7 DEF Resume

\* Each step of a calm user's phone, and of the API behind it.
LEMMA StepCalm ==
    ASSUME ProfileInv, Calm, [ProfileNext]_profileVars
    PROVE  FormInv' /\ WaitInv' /\ CapacityInv'
<1>1. ProfileTypeOK /\ FormInv /\ WaitInv /\ CapacityInv
  BY DEF ProfileInv
<1>2. UNCHANGED <<hazards, role>>
  BY DEF ProfileNext, profileVars
<1>3. UNCHANGED row => CapacityInv'
  BY <1>1, <1>2 DEF CapacityInv, NoRow
<1>4. ASSUME NEW x \in Slots, Serve(x)
      PROVE  FormInv' /\ WaitInv' /\ CapacityInv'
  BY <1>1, <1>2, <1>4, ServeCalm
<1>5. ASSUME NEW x \in Slots, Resume(x)
      PROVE  FormInv' /\ WaitInv' /\ CapacityInv'
  BY <1>1, <1>2, <1>3, <1>5, ResumeCalm DEF Resume
<1>6. ASSUME NEW f \in Fields, NEW v \in Values, Type(f, v)
      PROVE  FormInv' /\ WaitInv' /\ CapacityInv'
  BY <1>1, <1>2, <1>3, <1>6, TypeCalm DEF Type
<1>7. CASE OpenForm
  BY <1>1, <1>2, <1>3, <1>7, OpenCalm DEF OpenForm
<1>8. CASE Back
  BY <1>1, <1>3, <1>8, BackCalm DEF Back
<1>9. CASE Save
  BY <1>1, <1>2, <1>3, <1>9, SaveCalm DEF Save
<1>10. CASE SaveElsewhere \/ \E x \in Slots : Fail(x)
  BY <1>10, CalmUser DEF SaveElsewhere, Fail
<1>11. CASE UNCHANGED profileVars
  BY <1>1, <1>11 DEF profileVars, FormInv, WaitInv, WaitOK, CapacityInv, OnForm, Meant,
                     Complete, Empty, NoRow
<1> QED
  BY <1>4, <1>5, <1>6, <1>7, <1>8, <1>9, <1>10, <1>11 DEF ProfileNext

\* The home that has just been mounted, and asks.
LEMMA InitProfile == ProfileInit => ProfileInv
<1> SUFFICES ASSUME ProfileInit
             PROVE  ProfileInv
  OBVIOUS
<1>1. asked = [x \in Slots |-> IF x = 1 THEN Ask("check") ELSE Idle]
  BY DEF ProfileInit
<1>2. Idle.owner = "none" /\ Idle.at = "answered"
  BY DEF Idle
<1>3. \A x \in Slots :
         /\ asked[x] \in Request /\ asked[x].owner \notin {"home", "left"} /\ asked[x].kind # "save"
         /\ asked[x].owner = "none" => asked[x] = Idle
         /\ asked[x].owner = "screen" => x = 1 /\ asked[x] = Ask("check")
  BY <1>1, <1>2, AskIsRequest DEF Idle
<1>4. NoRow \in Profile /\ Empty \in Form
  BY ProfileAssumption DEF NoRow, Profile, Empty, Form, Untouched, Fields
<1>5. ProfileTypeOK /\ SavesInv
  BY <1>1, <1>3, <1>4 DEF ProfileInit, ProfileTypeOK, SavesInv
<1>6. FormInv /\ CapacityInv
  BY DEF ProfileInit, FormInv, OnForm, CapacityInv
<1>7. WaitInv
  BY <1>3, AskIsRequest DEF ProfileInit, WaitInv, WaitOK
<1> QED
  BY <1>5, <1>6, <1>7 DEF ProfileInv

\* The forms of a calm user are filled from the row as it is, for any values of the
\* fields and any number of calls.
THEOREM ProfileInvariant == ProfileSpec => []ProfileInv
<1>1. ProfileInv /\ [ProfileNext]_profileVars => ProfileInv'
  <2> SUFFICES ASSUME ProfileInv, [ProfileNext]_profileVars
               PROVE  ProfileInv'
    OBVIOUS
  <2>1. ProfileTypeOK' /\ SavesInv'
    BY StepProfileTypes DEF ProfileInv
  <2>2. Calm' = Calm
    BY DEF ProfileNext, profileVars, Calm
  <2>3. Calm => FormInv' /\ WaitInv' /\ CapacityInv'
    BY StepCalm
  <2> QED
    BY <2>1, <2>2, <2>3 DEF ProfileInv
<1> QED
  BY InitProfile, <1>1, PTL DEF ProfileSpec

\* The row, the form and the calls keep their types, and a row has a name.
THEOREM ProfileTypes == ProfileSpec => []ProfileTypeOK
<1>1. ProfileInv => ProfileTypeOK
  BY DEF ProfileInv
<1> QED
  BY ProfileInvariant, <1>1, PTL

\* A save that was sent has its answer only from the API.
LEMMA SavedByServe ==
    ASSUME ProfileInv, Calm, [ProfileNext]_profileVars, NEW x \in Slots,
           asked[x].at = "sent", asked'[x].at = "answered"
    PROVE  Serve(x)
<1>1. /\ asked \in [Slots -> Request] /\ Idle.at = "answered"
      /\ asked[x].at # "answered"
  BY DEF ProfileInv, ProfileTypeOK, Idle
<1>2. ASSUME NEW cs \in [Slots -> Request], cs[x].at = "sent"
      PROVE  /\ Left(cs)[x].at = "sent"
             /\ FormLeft(cs)[x].at = "sent"
             /\ \A c : asked' \in With(cs, c) => asked'[x] = cs[x]
             /\ \A c : asked' \in With(Left(cs), c) => asked'[x].at = "sent"
  <2>1. /\ Left(cs) \in [Slots -> Request] /\ Left(cs)[x].at = "sent"
        /\ FormLeft(cs)[x].at = "sent"
    BY <1>2, LeftEffect, FormLeftEffect
  <2>2. ASSUME NEW ds \in [Slots -> Request], ds[x].at = "sent", NEW c, asked' \in With(ds, c)
        PROVE  asked'[x] = ds[x]
    <3>1. PICK y \in Slots : ds[y] = Idle /\ asked' = [ds EXCEPT ![y] = c]
      BY <2>2, WithTakes
    <3> QED
      BY <1>1, <2>2, <3>1
  <2> QED
    BY <1>2, <2>1, <2>2
<1>3. ASSUME NEW z \in Slots, Serve(z), z # x
      PROVE  FALSE
  <2>1. asked'[x] = asked[x]
    BY <1>1, <1>3 DEF Serve
  <2> QED
    BY <1>1, <2>1
<1>4. ASSUME NEW z \in Slots, Resume(z)
      PROVE  FALSE
  <2>1. PICK cs : cs = [asked EXCEPT ![z] = Idle]
    OBVIOUS
  <2>2. z # x /\ cs \in [Slots -> Request] /\ cs[x].at = "sent"
    BY <1>1, <1>4, <2>1, AskIsRequest DEF Resume
  <2>3. \/ asked' = cs \/ asked' = FormLeft(cs)
        \/ \E c : asked' \in With(cs, c) \/ asked' \in With(Left(cs), c)
    BY <1>4, <2>1 DEF Resume, Saved, Checked, GoHome
  <2> QED
    BY <1>1, <1>2, <2>2, <2>3
<1>5. ASSUME OpenForm \/ Back \/ Save \/ SaveElsewhere
      PROVE  FALSE
  <2>1. \/ asked' = asked
        \/ \E c : asked' \in With(asked, c) \/ asked' \in With(Left(asked), c)
    BY <1>5 DEF OpenForm, Back, GoHome, Save, SaveElsewhere
  <2> QED
    BY <1>1, <1>2, <2>1
<1>6. ASSUME UNCHANGED asked
      PROVE  FALSE
  BY <1>1, <1>6
<1>7. \A z \in Slots : ~Fail(z)
  BY CalmUser DEF Fail
<1> QED
  BY <1>3, <1>4, <1>5, <1>6, <1>7 DEF ProfileNext, profileVars, Type

\* Saving changes what a calm user has typed, to what was typed, and nothing else:
\* the UPSERT that overwrites every field finds the row the form was filled from.
THEOREM SavesChangeWhatWasTyped == ProfileSpec => SaveChangesWhatWasTyped
<1>1. ProfileInv /\ [ProfileNext]_profileVars
        => [hazards \subseteq (IF role = "seller" THEN {"early"} ELSE {}) =>
              \A x \in Slots :
                 asked[x].kind = "save" /\ asked[x].at = "sent" /\ asked'[x].at = "answered" =>
                    \A f \in Fields :
                       row'[f] = IF asked[x].typed[f] # Untouched THEN asked[x].typed[f]
                                 ELSE IF row = NoRow THEN Empty.values[f] ELSE row[f]]_profileVars
  <2> SUFFICES ASSUME ProfileInv, [ProfileNext]_profileVars, Calm, NEW x \in Slots,
                      asked[x].kind = "save", asked[x].at = "sent", asked'[x].at = "answered",
                      NEW f \in Fields
               PROVE  row'[f] = Meant(row, asked[x].typed, f)
    BY DEF Calm, Meant
  <2>1. Serve(x)
    BY SavedByServe
  <2>2. UNCHANGED <<hazards, role>>
    BY DEF ProfileNext, profileVars
  <2> QED
    BY <2>1, <2>2, ServeCalm DEF ProfileInv
<1> QED
  BY ProfileInvariant, <1>1, PTL DEF ProfileSpec, SaveChangesWhatWasTyped

=============================================================================
