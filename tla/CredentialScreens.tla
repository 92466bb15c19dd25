------------------------- MODULE CredentialScreens --------------------------
(***************************************************************************)
(* What the view controllers share; ListViewController, with the arrays    *)
(* behind the table, the table, and the asynchronous reload of both; and   *)
(* EditCredentialsViewController in its two places, the "new" tab and the  *)
(* "edit" form the list pushes for a row.                                  *)
(*                                                                         *)
(* Shared are the window (which screen is on it, whether a blocking        *)
(* overlay covers it) and the AuthenticatedUser singleton.  SwiftOverlays  *)
(* puts a blocker over the window for every                                *)
(* showBlockingWaitOverlayWithText, and removeAllBlockingOverlays takes    *)
(* them all away, whoever put them up.  Whether any is up is therefore all *)
(* that matters.                                                           *)
(***************************************************************************)
EXTENDS CredentialStore, Functions

VARIABLES
  screen,    \* "login", or "main" (the tab bar)
  tab,       \* the selected tab
  pushed,    \* is the edit form on top of the list, on the list's tab?
  overlay,   \* is a blocking overlay up?
  instance,  \* the AuthenticatedUser singleton: does it exist, its user, and
             \* the user its listener was last called with
  crashed    \* the process has trapped

windowVars == <<screen, tab, pushed, overlay, instance, crashed>>

Tabs == {"list", "new", "settings"}
Screens == {"login", "list", "new", "edit", "settings"}

WindowTypeOK ==
  /\ screen \in {"login", "main"}
  /\ tab \in Tabs
  /\ pushed \in BOOLEAN
  /\ overlay \in BOOLEAN
  /\ instance \in [exists : BOOLEAN, user : Users \cup {Nil},
                 seen : Users \cup {Nil}]
  /\ crashed \in BOOLEAN

\* The screen an arrangement of tabs shows.
Shown(t, p) == IF t = "list" /\ p THEN "edit" ELSE t

Visible == IF screen = "login" THEN "login" ELSE Shown(tab, pushed)

hasSignedIn == instance.user # Nil

\* Can the user touch screen s?  Not through an overlay.  The blocks of the
\* authentication listeners are queued by the main thread for itself and run
\* before it takes the next touch.
Touchable(s) ==
  /\ ~crashed
  /\ Visible = s
  /\ ~overlay
  /\ \A i \in DOMAIN mainQueue :
       mainQueue[i].type \notin {"authState", "authInitial"}

WindowInit ==
  /\ screen = "login"
  /\ tab = "list"
  /\ pushed = FALSE
  /\ overlay = FALSE
  /\ instance = [exists |-> FALSE, user |-> Nil, seen |-> Nil]
  /\ crashed = FALSE

-----------------------------------------------------------------------------
(* The list *)

VARIABLE list
  \* credentials:   the decrypted credentials.  "path" is a ghost: the node
  \*                and child a credential was read from
  \* credentialIDs: their ids
  \* rows:          what the table shows, set by tableView.reloadData()
  \* observing:     registered with AuthenticatedUser

Paths == [user : Users, id : Ids]
Entries == [cred : Credentials, path : Paths]

ListTypeOK ==
  list \in [credentials : Seq(Entries), credentialIDs : Seq(Ids),
            rows : Seq(Entries), observing : BOOLEAN]

NewList ==
  [credentials |-> <<>>, credentialIDs |-> <<>>, rows |-> <<>>,
   observing |-> FALSE]

-----------------------------------------------------------------------------

\* reloadData(), for user u: overlay, then the read.
reloadData(u) ==
  /\ overlay' = TRUE
  /\ ObserveSingleEvent(u, "list")

\* viewWillAppear: forget the credentials (but neither the ids nor the
\* table), register, and reload if the singleton has a user u.  "covered":
\* is an overlay up already?
ListWillAppear(l, u, covered) ==
  /\ list' = [l EXCEPT !.credentials = <<>>, !.observing = TRUE]
  /\ IF u # Nil THEN reloadData(u)
     ELSE overlay' = covered /\ UNCHANGED reads

\* viewWillDisappear.
ListWillDisappear == list' = [list EXCEPT !.observing = FALSE]

-----------------------------------------------------------------------------
(* The callback of the read. *)

\* NSDictionary allKeys: the ids with a child, in any order.
KeyOrders(node) ==
  LET keys == {id \in Ids : node[id] # Nil}
  IN  Injection(1..Cardinality(keys), keys)

\* What the loop does with a child: "return" leaves the callback.
ChildOutcome(child, key) ==
  IF child = Malformed THEN "return" ELSE DecryptOutcome(child, key)

\* The loop completes its first n children and then ends, returns or traps.
Completes(node, keys, key, n) ==
  /\ \A i \in 1..n : ChildOutcome(node[keys[i]], key) \in {"ok", "throws"}
  /\ n < Len(keys) => ChildOutcome(node[keys[n+1]], key) \in {"return", "trap"}

LoopEnd(node, keys, key, n) ==
  IF n < Len(keys) THEN ChildOutcome(node[keys[n+1]], key) ELSE "done"

\* The positions of the children that decrypt, and the way to list positions
\* in increasing order.
Decrypting(node, keys, key, n) ==
  {i \in 1..n : ChildOutcome(node[keys[i]], key) = "ok"}
Increasing(S) ==
  {f \in Injection(1..Cardinality(S), S) :
     \A i, j \in 1..Cardinality(S) : i < j => f[i] < f[j]}

Entry(node, u, id) ==
  [cred |-> Decrypted(node[id]), path |-> [user |-> u, id |-> id]]

\* Mistake: the keys come in another order than the values.
KeptIDs_OtherOrder(keys, n) == [i \in 1..n |-> keys[n + 1 - i]]

\* self.credentialIDs.append: once per child the loop completes, whether or
\* not it decrypted.
KeptIDs(keys, n) == SubSeq(keys, 1, n)

\* The callback, for a node read for user u; decryption uses the user the
\* singleton has now.  A controller that is gone changes its own arrays only.
OnSnapshot(node, u, reader) ==
  \/ \* not a dictionary: only the overlay goes
     /\ \A id \in Ids : node[id] = Nil
     /\ overlay' = FALSE
     /\ UNCHANGED <<list, crashed>>
  \/ \E keys \in KeyOrders(node) : \E n \in 0..Len(keys) :
       LET key == uidHash(instance.user)
           end == LoopEnd(node, keys, key, n)
       IN  /\ keys # <<>>
           /\ Completes(node, keys, key, n)
           /\ crashed' = (end = "trap")
           /\ overlay' = (overlay /\ end # "done")
           /\ \E good \in Increasing(Decrypting(node, keys, key, n)) :
                LET creds == [i \in DOMAIN good |->
                                Entry(node, u, keys[good[i]])]
                IN  list' = IF reader # "list" THEN list
                            ELSE [list EXCEPT
                                    !.credentials = creds,
                                    !.credentialIDs = KeptIDs(keys, n),
                                    !.rows = IF end = "done" THEN creds ELSE @]

-----------------------------------------------------------------------------
(* The form *)

VARIABLE form
  \* credential: the Credential object
  \* fields:     the texts of the three fields
  \* canSave:    saveButton.isEnabled
  \* credId:     the id given to editFor, nil on the new tab
  \* origin:     ghost, where the edited credential was read from

editorVars == <<form>>

Forms == {"new", "edit"}

Texts ==
  [username : Usernames \cup {Empty},
   website  : Websites  \cup {Empty},
   password : Passwords \cup {Empty}]

EditorTypeOK ==
  form \in [Forms -> [credential : Credentials, fields : Texts,
                      canSave : BOOLEAN, credId : Ids \cup {Nil},
                      origin : Paths \cup {Nil}]]

EmptyFields == [username |-> Empty, website |-> Empty, password |-> Empty]

\* A form as the storyboard makes it: the save button starts out enabled.
NewForm ==
  [credential |-> NewCredential, fields |-> EmptyFields, canSave |-> TRUE,
   credId |-> Nil, origin |-> Nil]

-----------------------------------------------------------------------------

\* Mistake: the save button is left as it is.
validateCredentials_Skipped(f) == f

\* validateCredentials(): the save button follows the credential.
validateCredentials(f) == [f EXCEPT !.canSave = validate(f.credential)]

\* Mistake: the password field is not refreshed.
regeneratePassword_Hidden(f, p) == [f EXCEPT !.credential.password = p]

\* regeneratePassword() with the generated text p; it validates nothing.
regeneratePassword(f, p) ==
  [f EXCEPT !.credential.password = p, !.fields.password = p]

\* viewWillAppear of the new tab: start over with a generated password.
NewWillAppear(p) ==
  validateCredentials(
    regeneratePassword([form["new"] EXCEPT !.fields = EmptyFields,
                                           !.credential = NewCredential], p))

\* The text a field shows for a value: UITextField turns nil into "".
FieldText(t) == IF t = Nil THEN Empty ELSE t

\* viewWillAppear of the edit form: show the credential; the save button is
\* left as it is.
EditWillAppear(f) ==
  [f EXCEPT !.fields =
     [username |-> FieldText(f.credential.username),
      website  |-> FieldText(f.credential.website),
      password |-> FieldText(f.credential.password)]]

\* Mistake: the id is not kept.
editFor_NoId(entry, id) ==
  EditWillAppear([NewForm EXCEPT !.credential = entry.cred,
                                 !.origin = entry.path])

\* editFor, on the fresh form of the segue, followed by its viewWillAppear.
editFor(entry, id) ==
  EditWillAppear([NewForm EXCEPT !.credential = entry.cred, !.credId = id,
                                 !.origin = entry.path])

-----------------------------------------------------------------------------
(* Touches of the form *)

\* onUsernameChanged, onWebsiteChanged, onPasswordChanged.
Typed(f, field, t) ==
  validateCredentials([f EXCEPT !.fields[field] = t,
                                !.credential[field] = t])

onChanged(v, field, t) ==
  /\ Touchable(v)
  /\ form' = [form EXCEPT ![v] = Typed(@, field, t)]
  /\ UNCHANGED <<storeVars, windowVars, list>>

onUsernameChanged(v) == \E t \in Usernames : onChanged(v, "username", t)
onWebsiteChanged(v) == \E t \in Websites : onChanged(v, "website", t)
onPasswordChanged(v) == \E t \in Passwords : onChanged(v, "password", t)

onRegenerateTapped(v) ==
  /\ Touchable(v)
  /\ \E p \in Generated : form' = [form EXCEPT ![v] = regeneratePassword(@, p)]
  /\ UNCHANGED <<storeVars, windowVars, list>>

\* Credential.save(): an invalid credential returns and calls nobody back;
\* otherwise the fields are encrypted for the singleton's user, whose node is
\* also the one written to.
save(c, credId, saver) ==
  IF validate(c)
  THEN SetValue(instance.user, CredPath(c, credId),
                EncryptFields(c, uidHash(instance.user)), saver)
  ELSE UNCHANGED puts

\* The overlay goes up first.  Without a user, uidHash traps on nil.
onSaveButtonPressed(v) ==
  /\ Touchable(v)
  /\ form[v].canSave
  /\ SavesInFlight < MaxPuts
  /\ overlay' = TRUE
  /\ IF validate(form[v].credential) /\ ~hasSignedIn
     THEN crashed' = TRUE /\ UNCHANGED puts
     ELSE save(form[v].credential, form[v].credId, v) /\ UNCHANGED crashed
  /\ UNCHANGED <<db, reads, mainQueue, screen, tab, pushed, instance, list,
                 form>>

=============================================================================
