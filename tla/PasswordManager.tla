--------------------------- MODULE PasswordManager ---------------------------
(***************************************************************************)
(* The application: signing in and out, the tab bar, the list, the two     *)
(* forms and the database client, over one window and one main queue.      *)
(***************************************************************************)
EXTENDS CredentialScreens, SequencesExt

CONSTANT MaxSignIns   \* bound: sign-in requests in flight at any time

ASSUME MaxSignInsAssumption == MaxSignIns \in Nat

VARIABLES
  auth,     \* FIRAuth's current user
  signIns   \* sign-in requests in flight: whose, and whether the change of
            \* the current user has been posted

authVars == <<auth, signIns>>
vars == <<storeVars, windowVars, list, form, authVars>>

TypeOK ==
  /\ StoreTypeOK
  /\ WindowTypeOK
  /\ ListTypeOK
  /\ EditorTypeOK
  /\ auth \in Users \cup {Nil}
  /\ signIns \in Seq([user : Users, posted : BOOLEAN])

AuthState == [type |-> "authState"]
AuthInitial == [type |-> "authInitial"]
SignedIn == [type |-> "signedIn"]

\* In a process that starts, the login screen's listener is called back at
\* once when the keychain remembers a user.
LaunchQueue(u) == IF u = Nil THEN <<>> ELSE <<AuthState>>

Init ==
  /\ StoreInit
  /\ WindowInit
  /\ list = NewList
  /\ form = [v \in Forms |-> NewForm]
  /\ signIns = <<>>
  /\ auth \in Users \cup {Nil}
  /\ mainQueue = LaunchQueue(auth)

-----------------------------------------------------------------------------
(* Signing in and out *)

\* Authentication.login: overlay, then the request.
login(u) ==
  /\ Touchable("login")
  /\ Len(signIns) < MaxSignIns
  /\ ReadsInFlight < MaxReads
  /\ overlay' = TRUE
  /\ signIns' = Append(signIns, [user |-> u, posted |-> FALSE])
  /\ UNCHANGED <<storeVars, screen, tab, pushed, instance, crashed, list,
                 form, auth>>

\* FIRAuth has the user: it becomes the current user and the state change is
\* posted to the main queue ...
SignInSucceeds(i) ==
  /\ ~crashed
  /\ ~signIns[i].posted
  /\ auth' = signIns[i].user
  /\ signIns' = [signIns EXCEPT ![i].posted = TRUE]
  /\ Dispatch(<<AuthState>>)
  /\ UNCHANGED <<db, puts, reads, windowVars, list, form>>

\* ... before the completion is dispatched.  A request that failed has only a
\* completion.
CompleteSignIn(i) ==
  /\ ~crashed
  /\ signIns' = RemoveAt(signIns, i)
  /\ Dispatch(<<SignedIn>>)
  /\ UNCHANGED <<db, puts, reads, windowVars, list, form, auth>>

\* SettingsViewController.signOut.  A new login screen covers the tab bar,
\* which is never uncovered: tab, pushed, list and form are from here on those
\* of the tab bar to come.  The singleton keeps its user.
signOut ==
  /\ Touchable("settings")
  /\ auth' = Nil
  /\ screen' = "login"
  /\ tab' = "list"
  /\ pushed' = FALSE
  /\ list' = NewList
  /\ form' = [v \in Forms |-> NewForm]
  /\ puts' = OrphanSaves(puts, {"new", "edit"})
  /\ reads' = OrphanReads(reads)
  /\ mainQueue' = Append(OrphanBlocks(mainQueue, {"new", "edit", "list"}), AuthState)
  /\ UNCHANGED <<db, overlay, instance, crashed, signIns>>

-----------------------------------------------------------------------------
(* Blocks of the main queue *)

\* The next block to run is of this type.
Run(type) == ~crashed /\ mainQueue # <<>> /\ Head(mainQueue).type = type

\* The singleton's listener is called only when the user is another one than
\* last time; a nil user is ignored.
ListenerCalled == instance.exists /\ instance.seen # auth

\* Mistake: the singleton keeps its first user.
Listened_Once ==
  [instance EXCEPT !.seen = IF ListenerCalled THEN auth ELSE @,
                   !.user = IF ListenerCalled /\ @ = Nil THEN auth ELSE @]

Listened ==
  [instance EXCEPT !.seen = IF ListenerCalled THEN auth ELSE @,
                   !.user = IF ListenerCalled /\ auth # Nil THEN auth ELSE @]

\* Mistake: the observers are not informed.
OnAuthState_Uninformed ==
  /\ Run("authState") \/ Run("authInitial")
  /\ Run("authInitial") \/ auth = Nil \/ screen = "main"
  /\ instance' = Listened
  /\ mainQueue' = Tail(mainQueue)
  /\ UNCHANGED <<db, puts, reads, screen, tab, pushed, overlay, crashed, list,
                 form, authVars>>

\* The singleton's listener alone: no login screen is listening, or there is
\* no user.  informObserversSignedIn reaches a list that is on the screen.
OnAuthState ==
  /\ Run("authState") \/ Run("authInitial")
  /\ Run("authInitial") \/ auth = Nil \/ screen = "main"
  /\ instance' = Listened
  /\ IF ListenerCalled /\ auth # Nil /\ list.observing
     THEN reloadData(auth)
     ELSE UNCHANGED <<overlay, reads>>
  /\ mainQueue' = Tail(mainQueue)
  /\ UNCHANGED <<db, puts, screen, tab, pushed, crashed, list, form, authVars>>

\* The login screen's listener: the segue to the tab bar, whose list appears.
Segue ==
  /\ Run("authState")
  /\ auth # Nil
  /\ screen = "login"
  /\ screen' = "main"
  /\ UNCHANGED <<db, puts, tab, pushed, crashed, form, authVars>>

\* The list's viewWillAppear creates the singleton, whose listener gets its
\* first call later.
SegueFirst ==
  /\ Segue
  /\ ~instance.exists
  /\ instance' = [instance EXCEPT !.exists = TRUE]
  /\ ListWillAppear(list, Nil, overlay)
  /\ mainQueue' = Append(Tail(mainQueue), AuthInitial)

\* The singleton exists.  NSNotificationCenter calls the two listeners in an
\* order nobody fixes: the singleton's first ...
SegueKnown ==
  /\ Segue
  /\ instance.exists
  /\ instance' = Listened
  /\ ListWillAppear(list, Listened.user, overlay)
  /\ mainQueue' = Tail(mainQueue)

\* ... or the login screen's first: the list appears for the singleton's old
\* user and is then informed of the new one.
SegueStale ==
  /\ Segue
  /\ instance.exists
  /\ ListenerCalled
  /\ instance.user # Nil
  /\ instance' = Listened
  /\ list' = [list EXCEPT !.credentials = <<>>, !.observing = TRUE]
  /\ overlay' = TRUE
  /\ reads' = reads \o << [user |-> instance.user, reader |-> "list"],
                          [user |-> auth, reader |-> "list"] >>
  /\ mainQueue' = Tail(mainQueue)

\* Mistake: one branch of the completion forgets the overlay.
OnSignedIn_Covered ==
  /\ Run("signedIn")
  /\ mainQueue' = Tail(mainQueue)
  /\ UNCHANGED <<db, puts, reads, windowVars, list, form, authVars>>

\* The completion of a sign-in takes every overlay away.
OnSignedIn ==
  /\ Run("signedIn")
  /\ overlay' = FALSE
  /\ mainQueue' = Tail(mainQueue)
  /\ UNCHANGED <<db, puts, reads, screen, tab, pushed, instance, crashed,
                 list, form, authVars>>

\* The callback of a read.
OnValue ==
  /\ Run("read")
  /\ LET b == Head(mainQueue) IN OnSnapshot(b.node, b.user, b.reader)
  /\ mainQueue' = Tail(mainQueue)
  /\ UNCHANGED <<db, puts, reads, screen, tab, pushed, instance, form,
                 authVars>>

-----------------------------------------------------------------------------
(* Moving between screens *)

\* The form of the new tab is dead while another tab is selected: its next
\* viewWillAppear overwrites all of it.  Leaving the tab blanks it here.
NewTabLeft == [form EXCEPT !["new"] = NewForm]

\* The list's tab comes to the front, on a window without overlays.
ListTabAppears ==
  IF pushed
  THEN /\ form' = [NewTabLeft EXCEPT !["edit"] = EditWillAppear(@)]
       /\ overlay' = FALSE
       /\ UNCHANGED <<list, reads>>
  ELSE /\ form' = NewTabLeft
       /\ ListWillAppear(list, instance.user, FALSE)

SelectList ==
  /\ \E s \in {"new", "settings"} : Touchable(s)
  /\ ReadsInFlight < MaxReads
  /\ tab' = "list"
  /\ ListTabAppears
  /\ UNCHANGED <<db, puts, mainQueue, screen, pushed, instance, crashed,
                 authVars>>

\* Leaving the list's tab for another one; the new tab starts over.
SelectOther(t) ==
  /\ \E s \in Screens \ {"login", t} : Touchable(s)
  /\ tab' = t
  /\ IF Visible = "list" THEN ListWillDisappear ELSE UNCHANGED list
  /\ IF t = "new"
     THEN \E p \in Generated : form' = [form EXCEPT !["new"] = NewWillAppear(p)]
     ELSE form' = NewTabLeft
  /\ UNCHANGED <<storeVars, screen, pushed, overlay, instance, crashed,
                 authVars>>

\* didSelectRowAt and prepare(for:): the arrays are indexed by the row of the
\* table; out of range traps.
didSelectRow(i) ==
  /\ Touchable("list")
  /\ IF i \in DOMAIN list.credentials /\ i \in DOMAIN list.credentialIDs
     THEN /\ pushed' = TRUE
          /\ form' = [form EXCEPT !["edit"] =
                        editFor(list.credentials[i], list.credentialIDs[i])]
          /\ ListWillDisappear
          /\ UNCHANGED crashed
     ELSE /\ crashed' = TRUE
          /\ UNCHANGED <<pushed, form, list>>
  /\ UNCHANGED <<storeVars, screen, tab, overlay, instance, authVars>>

\* The edit form is popped and gone.
PopEdit ==
  /\ pushed' = FALSE
  /\ puts' = OrphanSaves(puts, {"edit"})
  /\ form' = [form EXCEPT !["edit"] = NewForm]

\* The navigation bar's back button.
Back ==
  /\ Touchable("edit")
  /\ ReadsInFlight < MaxReads
  /\ PopEdit
  /\ ListWillAppear(list, instance.user, FALSE)
  /\ mainQueue' = OrphanBlocks(mainQueue, {"edit"})
  /\ UNCHANGED <<db, screen, tab, instance, crashed, authVars>>

\* onSaveSuccessful and onSaveError: both take every overlay away, show an
\* alert and popBack().  The new tab switches to the list's tab ...
OnSavedNew ==
  /\ Run("put")
  /\ Head(mainQueue).saver = "new"
  /\ tab' = "list"
  /\ IF tab = "list"
     THEN overlay' = FALSE /\ UNCHANGED <<list, reads, form>>
     ELSE ListTabAppears
  /\ mainQueue' = Tail(mainQueue)
  /\ UNCHANGED <<db, puts, screen, pushed, instance, crashed, authVars>>

\* ... the edit form pops itself off the list's tab ...
OnSavedEdit ==
  /\ Run("put")
  /\ Head(mainQueue).saver = "edit"
  /\ PopEdit
  /\ IF tab = "list"
     THEN ListWillAppear(list, instance.user, FALSE)
     ELSE overlay' = FALSE /\ UNCHANGED <<list, reads>>
  /\ mainQueue' = OrphanBlocks(Tail(mainQueue), {"edit"})
  /\ UNCHANGED <<db, screen, tab, instance, crashed, authVars>>

\* ... and one that is no longer on a screen has nothing to leave.
OnSavedGone ==
  /\ Run("put")
  /\ Head(mainQueue).saver = "gone"
  /\ overlay' = FALSE
  /\ mainQueue' = Tail(mainQueue)
  /\ UNCHANGED <<db, puts, reads, screen, tab, pushed, instance, crashed,
                 list, form, authVars>>

-----------------------------------------------------------------------------
(* The process *)

\* The process dies, of a trap or because the system or the user ends it, and
\* starts again.  FIRAuth's user is in the keychain.
Relaunch ==
  /\ LosePending
  /\ screen' = "login"
  /\ tab' = "list"
  /\ pushed' = FALSE
  /\ overlay' = FALSE
  /\ instance' = [exists |-> FALSE, user |-> Nil, seen |-> Nil]
  /\ crashed' = FALSE
  /\ list' = NewList
  /\ form' = [v \in Forms |-> NewForm]
  /\ signIns' = <<>>
  /\ mainQueue' = LaunchQueue(auth)
  /\ UNCHANGED auth

Touch ==
  \/ \E u \in Users : login(u)
  \/ signOut
  \/ SelectList
  \/ \E t \in {"new", "settings"} : SelectOther(t)
  \/ \E i \in DOMAIN list.rows : didSelectRow(i)
  \/ Back
  \/ \E v \in Forms :
       \/ onUsernameChanged(v) /\ UNCHANGED authVars
       \/ onWebsiteChanged(v) /\ UNCHANGED authVars
       \/ onPasswordChanged(v) /\ UNCHANGED authVars
       \/ onRegenerateTapped(v) /\ UNCHANGED authVars
       \/ onSaveButtonPressed(v) /\ UNCHANGED authVars

Main ==
  \/ OnAuthState \/ SegueFirst \/ SegueKnown \/ SegueStale
  \/ OnSignedIn \/ OnValue
  \/ OnSavedNew \/ OnSavedEdit \/ OnSavedGone

\* A step of the database changes nothing of the rest of a live process.
DatabaseOnly == ~crashed /\ UNCHANGED <<windowVars, list, form, authVars>>

Server ==
  \/ AnswerRead /\ DatabaseOnly
  \/ DenyRead /\ DatabaseOnly
  \/ AckPut /\ DatabaseOnly
  \/ DenyPut /\ DatabaseOnly
  \/ \E u \in Users, id \in Ids, child \in Foreign :
       ForeignWrite(u, id, child) /\ DatabaseOnly
  \/ \E i \in DOMAIN signIns : SignInSucceeds(i) \/ CompleteSignIn(i)

Next == Touch \/ Main \/ Server \/ Relaunch

\* The main queue runs, the database and the authentication servers answer.
\* Nothing makes the user touch the screen.
Fairness ==
  /\ WF_vars(Main)
  /\ WF_vars(AnswerRead /\ DatabaseOnly)
  /\ WF_vars((AckPut \/ DenyPut) /\ DatabaseOnly)
  /\ WF_vars(1 \in DOMAIN signIns /\ CompleteSignIn(1))

Spec == Init /\ [][Next]_vars

FairSpec == Spec /\ Fairness

-----------------------------------------------------------------------------
(* Properties *)

\* A child decrypts with its user's key to a credential validate() accepts.
Sound(child, u) ==
  /\ child \in RawCredentials
  /\ DecryptOutcome(child, uidHash(u)) = "ok"
  /\ validate(Decrypted(child))

\* Whatever form, session or error came before, save() sends only complete
\* credentials, encrypted for the user whose node they are written to.
PutsSound == \A i \in DOMAIN puts : Sound(puts[i].child, puts[i].user)

\* Everything stored can be read back by its owner: reloadData's decryption
\* never fails on what the application itself has written.
StoredSound ==
  \A u \in Users, id \in Ids : db[u][id] # Nil => Sound(db[u][id], u)

\* A save button that can be pressed belongs to a credential save() accepts.
\* save() returns without calling back otherwise, and the overlay
\* onSaveButtonPressed has put up would stay for ever.  The edit form never
\* validates what it is given, so this rests on what was stored and read.
SaveNeverSilent ==
  \A v \in Forms :
    Touchable(v) /\ form[v].canSave => validate(form[v].credential)

\* What a form shows is what it saves: the fields and the credential object
\* agree through typing, regeneration and every reappearance.
FieldsMatch ==
  \A v \in Forms :
    Visible = v =>
      \A k \in {"username", "website", "password"} :
        form[v].fields[k] = FieldText(form[v].credential[k])

\* The singleton, which is never told of a sign-out, is the user FIRAuth has
\* signed in whenever a list or form that uses it can be touched.
SingletonIsCurrent ==
  \A s \in {"list", "new", "edit"} : Touchable(s) => instance.user = auth

\* The edit form writes back to where its credential was read: the same id
\* of the same user, whatever reloads and sign-ins happened since.
EditsWhatWasRead ==
  pushed => form["edit"].origin = [user |-> instance.user,
                                   id |-> form["edit"].credId]

\* A row that can be tapped and has a credential behind it opens the very
\* credential it shows, with that credential's id.
RowOpensItself ==
  Touchable("list") =>
    \A i \in DOMAIN list.rows \cap DOMAIN list.credentials :
      /\ list.credentials[i] = list.rows[i]
      /\ list.credentialIDs[i] = list.rows[i].path.id

\* The reads whose callback will fill the list on the screen.
Loading ==
  \/ \E i \in DOMAIN reads : reads[i].reader = "list"
  \/ \E i \in DOMAIN mainQueue :
       mainQueue[i].type = "read" /\ mainQueue[i].reader = "list"

\* The application traps only when a row is tapped while the list is being
\* reloaded: viewWillAppear has emptied the array and not the table.
TrapsOnlyWhileLoading == ~crashed /\ crashed' => Loading

\* When nothing is in flight, a list that can be touched shows exactly what is
\* stored for the signed-in user.
Shows(rows, u) ==
  {rows[i] : i \in DOMAIN rows} =
    {Entry(db[u], u, id) : id \in {id \in Ids : db[u][id] # Nil}}
ListShowsStore ==
  Touchable("list") /\ reads = <<>> /\ puts = <<>> /\ mainQueue = <<>> =>
    Shows(list.rows, auth) /\ list.credentials = list.rows

\* A blocking overlay always comes off again.
OverlayComesOff == overlay ~> ~overlay

-----------------------------------------------------------------------------
(* What comments and documentation say, and the code does not do *)

\* "Is valid when username, website and password all filled": no stored
\* credential has an empty text.
AllFilled ==
  \A u \in Users, id \in Ids :
    db[u][id] # Nil =>
      \A k \in {"username", "website", "password"} : Decrypted(db[u][id])[k] # Empty

\* "Structure: [PWMRoot]/Credentials/UID/hashOf(USN+URL)/[json]".
StoredAtItsHash ==
  \A u \in Users, id \in Ids :
    db[u][id] # Nil => id = credHash(Decrypted(db[u][id]))

\* "Use cred ID (if supplied, for updating existing details) instead of new
\* hash": a save without an id updates no existing details of another
\* credential.
SameCredential(c, d) == c.username = d.username /\ c.website = d.website
CreateOverwritesNothing ==
  [][\A i \in DOMAIN puts' \ DOMAIN puts :
       LET p == puts'[i]
       IN  p.saver = "new" /\ LocalView[p.user][p.id] # Nil =>
             SameCredential(Decrypted(p.child),
                            Decrypted(LocalView[p.user][p.id]))]_vars

\* "The credential decryption worked, now save the key": behind every
\* credential is the key it was read under.
KeysOfDecrypted ==
  \A i \in DOMAIN list.credentials :
    /\ i \in DOMAIN list.credentialIDs
    /\ list.credentialIDs[i] = list.credentials[i].path.id

\* "Block user interaction": while an operation that has put up a blocking
\* overlay is under way, no screen can be touched.
BlockedWhileBusy ==
  Loading \/ puts # <<>> \/ signIns # <<>> =>
    \A s \in Screens : ~Touchable(s)

-----------------------------------------------------------------------------
(* The abstract specification.  Encryption, forms and callbacks disappear. *)

DecryptedNode(node) ==
  [id \in Ids |-> IF node[id] = Nil THEN Nil ELSE Decrypted(node[id])]

V == INSTANCE Vault WITH
       store <- [u \in Users |-> DecryptedNode(db[u])],
       pending <- [i \in DOMAIN puts |->
                     [user |-> puts[i].user, id |-> puts[i].id,
                      cred |-> Decrypted(puts[i].child)]]

\* The application implements the vault.
VaultSpec == V!Spec

=============================================================================
