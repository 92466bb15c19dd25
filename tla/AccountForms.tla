------------------------------ MODULE AccountForms ------------------------------
(***************************************************************************)
(* The forms for signing in, registering and changing the password         *)
(* (LoginViewController, RegisterViewController,                           *)
(* AccountSettingsTableViewController) and the requests they make          *)
(* (Models/Authentication.swift).  FIRAuth is external: it answers, with   *)
(* an error or not, and signs the user out by force when a token turns out *)
(* to be invalid.                                                          *)
(***************************************************************************)
EXTENDS Integers, Sequences, FiniteSets

CONSTANTS
  Users,          \* accounts
  Texts,          \* what is typed besides the empty text and one space
  MaxForced       \* bound: forced sign-outs

VARIABLES
  screen,         \* "login", "register", "main" or "account"
  field,          \* name of a text field of the screen -> its text
  enabled,        \* the button of the form
  user,           \* Auth.auth().currentUser
  listened,       \* the user the listener of the screen was last called with
  overlay,        \* a blocking overlay is up
  request,        \* what FIRAuth was asked and has not answered
  forced

vars == <<screen, field, enabled, user, listened, overlay, request, forced>>

Nil == "nil"
Empty == ""
Space == " "
Text == Texts \cup {Empty, Space}
NoRequest == "none"

Fields(s) == CASE s = "login" -> {"email", "password"}
               [] s = "register" -> {"email", "password", "passwordConfirm"}
               [] s = "account" -> {"currentPassword", "newPassword"}
               [] s = "main" -> {}

-----------------------------------------------------------------------------
(* Screens                                                                 *)

\* A view controller is made, with empty fields and its button disabled
\* (viewDidLoad).  Its listener is called with the user at once.
Show(s) ==
  /\ screen' = s /\ enabled' = FALSE
  /\ field' = [f \in Fields(s) |-> Empty]
  /\ listened' = IF s \in {"login", "register"} THEN "never" ELSE Nil

Touchable(s) == screen = s /\ ~overlay

GoTo(from, to) ==
  /\ Touchable(from) /\ Show(to)
  /\ UNCHANGED <<user, overlay, request, forced>>

\* addStateDidChangeListener: the segue to the main screen when there is a user.
StateDidChange ==
  /\ screen \in {"login", "register"} /\ listened # user
  /\ IF user # Nil THEN Show("main")
     ELSE listened' = user /\ UNCHANGED <<screen, field, enabled>>
  /\ UNCHANGED <<user, overlay, request, forced>>

\* SettingsViewController.signOut
SignOut ==
  /\ Touchable("main") /\ Show("login")
  /\ user' = Nil
  /\ UNCHANGED <<overlay, request, forced>>

-----------------------------------------------------------------------------
(* Fields                                                                  *)

\* editingChanged: a single space leaves the button as it is.
EnabledAfter(texts, f) ==
  IF texts[f] = Space THEN enabled ELSE \A g \in Fields(screen) : texts[g] # Empty

Edit(f, text) ==
  /\ ~overlay /\ f \in Fields(screen) /\ field[f] # text
  /\ field' = [field EXCEPT ![f] = text]
  /\ enabled' = EnabledAfter(field', f)
  /\ UNCHANGED <<screen, user, listened, overlay, request, forced>>

-----------------------------------------------------------------------------
(* Requests                                                                *)

Ask(r) == overlay' = TRUE /\ request' = r
TellError == UNCHANGED <<overlay, request>>

\* signIn, and login(withEmail:password:)
signIn ==
  /\ Touchable("login") /\ enabled /\ Ask("login")
  /\ UNCHANGED <<screen, field, enabled, user, listened, forced>>

\* signUp, and register(withEmail:password:)
signUp ==
  /\ Touchable("register") /\ enabled
  /\ IF field["password"] # field["passwordConfirm"] THEN TellError ELSE Ask("register")
  /\ UNCHANGED <<screen, field, enabled, user, listened, forced>>

\* resetPassword: without a user nothing is asked, and the overlay is up.
resetPassword == IF user = Nil THEN overlay' = TRUE /\ UNCHANGED request ELSE Ask("reset")

saveTapped ==
  /\ Touchable("account") /\ enabled
  /\ IF field["currentPassword"] = field["newPassword"] THEN TellError ELSE resetPassword
  /\ UNCHANGED <<screen, field, enabled, user, listened, forced>>

\* The completions take the overlay away in every case; an error is a known one
\* (wrong password, user not found, email in use) or another.
Overlay(ok, known) == FALSE

\* FIRAuth answers; a sign-in changes the user before its completion is called.
Complete(ok, known) ==
  /\ request \in (IF ok THEN {"signedIn", "reset"} ELSE {"login", "register", "reset"})
  /\ overlay' = Overlay(ok, known) /\ request' = NoRequest
  /\ UNCHANGED <<screen, field, enabled, user, listened, forced>>

SignInSucceeds(u) ==
  /\ request \in {"login", "register"}
  /\ user' = u /\ request' = "signedIn"
  /\ UNCHANGED <<screen, field, enabled, listened, overlay, forced>>

\* signOutByForceWithUserID, for instance when updatePassword met a token that is
\* invalid; its completion is called all the same.
ForcedSignOut ==
  /\ user # Nil /\ forced < MaxForced
  /\ user' = Nil /\ forced' = forced + 1
  /\ UNCHANGED <<screen, field, enabled, listened, overlay, request>>

-----------------------------------------------------------------------------

Init ==
  /\ screen = "login" /\ field = [f \in Fields("login") |-> Empty] /\ enabled = FALSE
  /\ user \in Users \cup {Nil} /\ listened = "never"
  /\ overlay = FALSE /\ request = NoRequest /\ forced = 0

Next ==
  \/ GoTo("login", "register") \/ GoTo("register", "login")
  \/ GoTo("main", "account") \/ GoTo("account", "main")
  \/ StateDidChange \/ SignOut \/ signIn \/ signUp \/ saveTapped \/ ForcedSignOut
  \/ \E s \in {"login", "register", "account"} : \E f \in Fields(s), t \in Text : Edit(f, t)
  \/ \E u \in Users : SignInSucceeds(u)
  \/ \E ok, known \in BOOLEAN : Complete(ok, known)

Spec == Init /\ [][Next]_vars

\* FIRAuth answers every request, in the end with a completion.
FairSpec ==
  /\ Spec /\ WF_vars(\E ok, known \in BOOLEAN : Complete(ok, known))

-----------------------------------------------------------------------------
(* Properties                                                              *)

\* A button that can be tapped stands under a form without an empty field,
\* although a field that holds one space leaves it as it was.
ButtonMeansFilled == enabled => \A f \in Fields(screen) : field[f] # Empty

\* Nobody is signed in, and the password was to be changed.
ResetOfNobody == screen = "account" /\ user = Nil /\ request = NoRequest

\* An overlay comes off again, with the one exception of resetPassword after a
\* forced sign-out: "currentUser?.updatePassword" is then never called.
OverlayComesOff == overlay ~> (~overlay \/ ResetOfNobody)
=============================================================================
