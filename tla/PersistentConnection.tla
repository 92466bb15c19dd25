------------------------- MODULE PersistentConnection -------------------------
(***************************************************************************)
(* The database connection of a client (Core/FPersistentConnection.m of    *)
(* FirebaseDatabase, with Realtime/FConnection.m and FIRRetryHelper.m):    *)
(* writes and listens survive the loss of the socket, the token follows    *)
(* the user, and the connection is made again.                             *)
(*                                                                         *)
(* All of the client runs on one queue, so a callback is one step.  The    *)
(* server is external: it takes the requests of a socket in order and      *)
(* answers in order, which is why request numbers are left out and         *)
(* requestCBHash is the sequence of callbacks that wait.  What was sent on *)
(* a lost socket may reach the server until the next socket is ready.      *)
(* Pushed data is left out; so are statistics, delays and onDisconnect     *)
(* operations, which the app does not use.                                 *)
(***************************************************************************)
EXTENDS Integers, Sequences, SequencesExt, FiniteSets, FiniteSetsExt

CONSTANTS
  Queries,
  Paths,
  Tokens,         \* of the users that sign in
  Reasons,        \* for which a connection may be interrupted again, besides
                  \* "waiting_for_open": subset of {"repo_interrupt", "server_kill"}
  Calls,          \* what the client may do: subset of {"unlisten", "purge", "hash"}
  MaxPuts,        \* bounds: writes,
  MaxSpecs,       \*   listens,
  MaxTokens,      \*   changes of the token,
  MaxDrops        \*   lost sockets, failed fetches, refusals and revocations

VARIABLES
  c,              \* the client
  server,         \* [user, listens, value, runs]: the session, the data, how
                  \* often each write was carried out
  want,           \* query -> the listen its caller still wants
  refused,        \* listens that the server refused or revoked
  used            \* of the bounds

vars == <<c, server, want, refused, used>>

None == 0
Ids == 1..MaxPuts

-----------------------------------------------------------------------------
(* Sending                                                                 *)

Connected(d) == d.state \in {"authenticating", "connected"}
CanSendWrites(d) == d.state = "connected"

\* sendAction, without and with a callback
Send(d, m) == [d EXCEPT !.up = Append(@, m)]
SendAction(d, m) == [Send(d, m) EXCEPT !.cb = Append(@, m)]

SendPut(d, i) == SendAction([d EXCEPT !.puts[i].sent = TRUE], [kind |-> "put", put |-> i, path |-> d.puts[i].path])

SendListen(d, q) ==
  [SendAction(d, [kind |-> "listen", query |-> q, spec |-> d.listens[q]]) EXCEPT !.unacked = @ + 1]

SendAuth(d, restore) == SendAction(d, [kind |-> "auth", token |-> d.token, restore |-> restore])

\* Mistake: the writes are sent again in the order of a dictionary.
RestoreState_Unsorted(d) ==
  LET Listen(e, q) == IF e.listens[q] # None THEN SendListen(e, q) ELSE e
      Write(e, i)  == IF e.puts[i].out THEN SendPut(e, i) ELSE e
  IN  FoldLeft(Write, FoldLeft(Listen, d, SetToSeq(Queries)), Reverse([i \in Ids |-> i]))

\* restoreState: listens, then writes by their index.
RestoreState(d) ==
  LET Listen(e, q) == IF e.listens[q] # None THEN SendListen(e, q) ELSE e
      Write(e, i)  == IF e.puts[i].out THEN SendPut(e, i) ELSE e
  IN  FoldLeft(Write, FoldLeft(Listen, d, SetToSeq(Queries)), [i \in Ids |-> i])

-----------------------------------------------------------------------------
(* Completion blocks                                                       *)

Call(d, i, status) == [d EXCEPT !.called[i] = Append(@, status)]

AckPuts(d) ==
  LET Ack(e, x) == Call(e, x.put, x.status) IN [FoldLeft(Ack, d, d.toAck) EXCEPT !.toAck = <<>>]

\* The blocks of these writes are called, and they are forgotten.
Cancel(d, S, status) ==
  [d EXCEPT !.called = [i \in Ids |-> IF i \in S THEN Append(@[i], status) ELSE @[i]],
            !.puts = [i \in Ids |-> IF i \in S THEN [@[i] EXCEPT !.out = FALSE] ELSE @[i]]]

Outstanding(d) == {i \in Ids : d.puts[i].out}

\* cancelSentTransactions
CancelSentTransactions(d) ==
  Cancel(d, {i \in Outstanding(d) : d.puts[i].hash /\ d.puts[i].sent}, "disconnect")

-----------------------------------------------------------------------------
(* Connecting                                                              *)

ShouldReconnect(d) == d.reasons = {}

\* tryScheduleReconnect; retry: replaces what was scheduled.
TryScheduleReconnect(d) == IF ShouldReconnect(d) THEN [d EXCEPT !.retry = TRUE] ELSE d

\* onDisconnect: what the server had answered is lost.
OnDisconnect(d) ==
  LET e == CancelSentTransactions([d EXCEPT !.state = "disconnected", !.realtime = "none"])
  IN  TryScheduleReconnect([e EXCEPT !.cb = <<>>, !.unacked = 0, !.down = <<>>])

\* FConnection close
Close(d) == IF d.realtime = "none" THEN d ELSE OnDisconnect(d)

InterruptForReason(d, r) ==
  LET e == [d EXCEPT !.reasons = @ \cup {r}]
  IN  IF e.realtime # "none" THEN Close(e)
      ELSE [e EXCEPT !.retry = FALSE, !.state = "disconnected"]

ResumeForReason(d, r) ==
  LET e == [d EXCEPT !.reasons = @ \ {r}]
  IN  IF ShouldReconnect(e) /\ e.state = "disconnected" THEN TryScheduleReconnect(e) ELSE e

Quiet == UNCHANGED <<server, want, refused, used>>

\* open, FRepo resume
Resume(r) == r \in c.reasons \ {"server_kill"} /\ c' = ResumeForReason(c, r) /\ Quiet

\* FRepo interrupt; onKill
Interrupt(r) ==
  /\ r \in Reasons \ c.reasons /\ used.drops < MaxDrops
  /\ r = "server_kill" => c.realtime = "open"
  /\ c' = InterruptForReason(c, r)
  /\ used' = [used EXCEPT !.drops = @ + 1]
  /\ UNCHANGED <<server, want, refused>>

\* reachabilityCallback, enteringForeground
Reachable ==
  /\ c.state = "disconnected" /\ c' = TryScheduleReconnect(c)
  /\ Quiet

\* The block that tryScheduleReconnect gave to the retry helper: a fetch of the
\* token is begun, and earlier ones are not the latest any more.
RetryFires ==
  /\ c.retry
  /\ c' = [c EXCEPT !.retry = FALSE, !.state = "gettingToken",
                    !.fetches = {[f EXCEPT !.latest = FALSE] : f \in @} \cup {[latest |-> TRUE, token |-> c.user]}]
  /\ Quiet

\* openNetworkConnectionWithToken
OpenNetworkConnection(d, token) == [d EXCEPT !.token = token, !.state = "connecting", !.realtime = "opening"]

\* The token is there.
TokenFetched(f) ==
  /\ f \in c.fetches
  /\ LET d == [c EXCEPT !.fetches = @ \ {f}]
     IN  c' = IF f.latest /\ d.state = "gettingToken" THEN OpenNetworkConnection(d, f.token) ELSE d
  /\ Quiet

AfterFailedFetch(d, f) ==
  IF f.latest THEN TryScheduleReconnect([d EXCEPT !.state = "disconnected"]) ELSE d

TokenFails(f) ==
  /\ f \in c.fetches /\ used.drops < MaxDrops
  /\ c' = AfterFailedFetch([c EXCEPT !.fetches = @ \ {f}], f)
  /\ used' = [used EXCEPT !.drops = @ + 1]
  /\ UNCHANGED <<server, want, refused>>

\* restoreAuth
RestoreAuth(d) ==
  IF d.token = None THEN RestoreState([d EXCEPT !.state = "connected"])
  ELSE SendAuth([d EXCEPT !.state = "authenticating"], TRUE)

\* onHandshake, onReady: a new session.
OnReady ==
  /\ c.realtime = "opening"
  /\ c' = RestoreAuth([c EXCEPT !.realtime = "open", !.up = <<>>, !.down = <<>>])
  /\ server' = [server EXCEPT !.user = None, !.listens = {}]
  /\ UNCHANGED <<want, refused, used>>

\* The socket is lost, does not open, or is reset by the server.
Drop ==
  /\ c.realtime # "none" /\ used.drops < MaxDrops
  /\ c' = Close(c)
  /\ used' = [used EXCEPT !.drops = @ + 1]
  /\ UNCHANGED <<server, want, refused>>

-----------------------------------------------------------------------------
(* Calls of the client                                                     *)

\* listen: a new outstanding query.
Listen(q) ==
  /\ c.listens[q] = None /\ used.specs < MaxSpecs
  /\ LET s == used.specs + 1
         d == [c EXCEPT !.listens[q] = s]
     IN  /\ c' = IF Connected(d) THEN SendListen(d, q) ELSE d
         /\ want' = [want EXCEPT ![q] = s]
         /\ used' = [used EXCEPT !.specs = s]
  /\ UNCHANGED <<server, refused>>

Unlisten(q) ==
  /\ "unlisten" \in Calls /\ want[q] # None
  /\ LET d == [c EXCEPT !.listens[q] = None]
     IN  c' = IF c.listens[q] # None /\ Connected(c) THEN Send(d, [kind |-> "unlisten", query |-> q]) ELSE d
  /\ want' = [want EXCEPT ![q] = None]
  /\ UNCHANGED <<server, refused, used>>

\* putInternal
Put(path, hash) ==
  /\ used.puts < MaxPuts /\ (hash => "hash" \in Calls)
  /\ LET i == used.puts + 1
         d == [c EXCEPT !.puts[i] = [out |-> TRUE, path |-> path, hash |-> hash, sent |-> FALSE]]
     IN  /\ c' = IF CanSendWrites(d) THEN SendPut(d, i) ELSE d
         /\ used' = [used EXCEPT !.puts = i]
  /\ UNCHANGED <<server, want, refused>>

\* purgeOutstandingWrites
Purge ==
  /\ "purge" \in Calls /\ (c.toAck # <<>> \/ Outstanding(c) # {})
  /\ c' = Cancel(AckPuts(c), Outstanding(c), "canceled")
  /\ Quiet

\* Mistake: the token is not sent when a user is there already.
RefreshAuthToken_Once(d, token) ==
  LET e == [d EXCEPT !.token = token, !.user = token]
  IN  IF ~Connected(e) \/ (token # None /\ d.token # None) THEN e
      ELSE IF token # None THEN SendAuth(e, FALSE)
      ELSE Send(e, [kind |-> "unauth"])

RefreshAuthToken(d, token) ==
  LET e == [d EXCEPT !.token = token, !.user = token]
  IN  IF ~Connected(e) THEN e
      ELSE IF token # None THEN SendAuth(e, FALSE)
      ELSE Send(e, [kind |-> "unauth"])

\* A user signs in or out, and listenForTokenChanges calls back.
TokenChanges(token) ==
  /\ token # c.user /\ used.tokens < MaxTokens
  /\ c' = RefreshAuthToken(c, token)
  /\ used' = [used EXCEPT !.tokens = @ + 1]
  /\ UNCHANGED <<server, want, refused>>

-----------------------------------------------------------------------------
(* The server (external)                                                   *)

Refusals == IF used.drops < MaxDrops THEN {"ok", "denied"} ELSE {"ok"}

Carried(m, status) ==
  CASE m.kind = "auth" -> [server EXCEPT !.user = IF status = "ok" THEN m.token ELSE None]
    [] m.kind = "unauth" -> [server EXCEPT !.user = None]
    [] m.kind = "listen" -> [server EXCEPT !.listens = IF status = "ok" THEN @ \cup {m.query} ELSE @ \ {m.query}]
    [] m.kind = "unlisten" -> [server EXCEPT !.listens = @ \ {m.query}]
    [] m.kind = "put" -> IF status # "ok" THEN server
                         ELSE [server EXCEPT !.value[m.path] = m.put, !.runs[m.put] = @ + 1]

Serve(status) ==
  /\ c.up # <<>>
  /\ LET m == Head(c.up) IN
     /\ m.kind \in {"unauth", "unlisten"} => status = "ok"
     /\ server' = Carried(m, status)
     /\ c' = [c EXCEPT !.up = Tail(@),
                       !.down = IF c.realtime = "open" /\ m.kind \notin {"unauth", "unlisten"}
                                THEN Append(@, [kind |-> "answer", status |-> status]) ELSE @]
     /\ refused' = IF m.kind = "listen" /\ status # "ok" THEN refused \cup {m.spec} ELSE refused
  /\ used' = IF status = "ok" THEN used ELSE [used EXCEPT !.drops = @ + 1]
  /\ UNCHANGED want

\* The server takes back a listen, or the token: both are pushed.
RevokeListen(q) ==
  /\ q \in server.listens /\ c.realtime = "open" /\ used.drops < MaxDrops
  /\ server' = [server EXCEPT !.listens = @ \ {q}]
  /\ c' = [c EXCEPT !.down = Append(@, [kind |-> "listenRevoked", query |-> q])]
  /\ used' = [used EXCEPT !.drops = @ + 1]
  /\ UNCHANGED <<want, refused>>

RevokeAuth ==
  /\ server.user # None /\ c.realtime = "open" /\ used.drops < MaxDrops
  /\ server' = [server EXCEPT !.user = None]
  /\ c' = [c EXCEPT !.down = Append(@, [kind |-> "authRevoked"])]
  /\ used' = [used EXCEPT !.drops = @ + 1]
  /\ UNCHANGED <<want, refused>>

-----------------------------------------------------------------------------
(* Messages of the server                                                  *)

\* Mistake: what was asked for in the meantime is not sent.
OnAuth_NotRestored(d, m, status) ==
  LET e == [d EXCEPT !.state = "connected"]
  IN  IF status = "ok" THEN e ELSE Close([e EXCEPT !.token = None])

\* The callback of sendAuthAndRestoreStateAfterComplete
OnAuth(d, m, status) ==
  LET e == [d EXCEPT !.state = "connected"] IN
  CASE status = "ok" /\ m.restore -> RestoreState(e)
    [] status = "ok" /\ ~m.restore -> e
    [] status # "ok" -> Close([e EXCEPT !.token = None])

\* The callback of sendPut: held back while listens are not answered.
OnPut(d, m, status) ==
  LET e == [d EXCEPT !.puts[m.put].out = FALSE]
  IN  IF ~d.puts[m.put].out THEN d
      ELSE IF e.unacked = 0 THEN Call(e, m.put, status)
      ELSE [e EXCEPT !.toAck = Append(@, [put |-> m.put, status |-> status])]

\* The callback of sendListen
OnListen(d, m, status) ==
  LET e == [d EXCEPT !.listens[m.query] = IF @ = m.spec /\ status # "ok" THEN None ELSE @,
                     !.unacked = @ - 1]
  IN  IF e.unacked = 0 THEN AckPuts(e) ELSE e

\* onDataMessage with the number of a request
OnAnswer(d, status) ==
  LET m == Head(d.cb)
      e == [d EXCEPT !.cb = Tail(@)]
  IN  CASE m.kind = "auth" -> OnAuth(e, m, status)
        [] m.kind = "put" -> OnPut(e, m, status)
        [] m.kind = "listen" -> OnListen(e, m, status)

\* onAuthRevokedWithStatus
OnAuthRevoked(d) == Close([d EXCEPT !.token = None])

Receive ==
  /\ c.down # <<>>
  /\ LET m == Head(c.down)
         d == [c EXCEPT !.down = Tail(@)]
     IN  CASE m.kind = "answer" -> c' = OnAnswer(d, m.status) /\ UNCHANGED refused
           [] m.kind = "authRevoked" -> c' = OnAuthRevoked(d) /\ UNCHANGED refused
           [] m.kind = "listenRevoked" -> /\ c' = [d EXCEPT !.listens[m.query] = None]
                                          /\ refused' = refused \cup {c.listens[m.query]}
  /\ UNCHANGED <<server, want, used>>

-----------------------------------------------------------------------------

\* The connection waits for open.
Init ==
  /\ c = [state |-> "disconnected", realtime |-> "none", reasons |-> {"waiting_for_open"}, retry |-> FALSE,
          fetches |-> {}, token |-> None, user |-> None, listens |-> [q \in Queries |-> None],
          puts |-> [i \in Ids |-> [out |-> FALSE, path |-> None, hash |-> FALSE, sent |-> FALSE]],
          cb |-> <<>>, unacked |-> 0, toAck |-> <<>>, called |-> [i \in Ids |-> <<>>],
          up |-> <<>>, down |-> <<>>]
  /\ server = [user |-> None, listens |-> {}, value |-> [p \in Paths |-> 0], runs |-> [i \in Ids |-> 0]]
  /\ want = [q \in Queries |-> None] /\ refused = {}
  /\ used = [puts |-> 0, specs |-> 0, tokens |-> 0, drops |-> 0]

Next ==
  \/ \E r \in Reasons \cup {"waiting_for_open"} : Resume(r) \/ Interrupt(r)
  \/ Reachable \/ RetryFires \/ OnReady \/ Drop \/ Purge \/ Receive \/ RevokeAuth
  \/ \E f \in c.fetches : TokenFetched(f) \/ TokenFails(f)
  \/ \E q \in Queries : Listen(q) \/ Unlisten(q) \/ RevokeListen(q)
  \/ \E p \in Paths, hash \in BOOLEAN : Put(p, hash)
  \/ \E t \in Tokens \cup {None} : TokenChanges(t)
  \/ \E status \in Refusals : Serve(status)

Spec == Init /\ [][Next]_vars

\* The repo opens the connection; the queue runs what was put on it; sockets
\* open and the server answers unless the connection is lost.
FairSpec ==
  /\ Spec
  /\ WF_vars(Resume("waiting_for_open")) /\ WF_vars(RetryFires) /\ WF_vars(OnReady)
  /\ WF_vars(\E f \in c.fetches : TokenFetched(f))
  /\ WF_vars(\E status \in Refusals : Serve(status)) /\ WF_vars(Receive)

-----------------------------------------------------------------------------
(* Properties                                                              *)

\* A write whose block was called with success is in the database, and no older
\* write of this client to the same place came after it, however often all of
\* them were sent again (restoreState).
AckedIsThere ==
  \A i \in Ids : "ok" \in ToSet(c.called[i]) => server.value[c.puts[i].path] >= i

\* A block is called once at most, by the answer, by a purge or by the loss of
\* the socket; and the server carries a transaction out once at most.
CalledOnce ==
  /\ \A i \in Ids : Len(c.called[i]) =< 1
  /\ \A i \in Ids : c.puts[i].hash => server.runs[i] =< 1

\* The state is that of the socket, as the assertions of the code want it, and a
\* connection that is down and not interrupted will be made again.
NeverStranded ==
  /\ c.state = "connecting" <=> c.realtime = "opening"
  /\ Connected(c) <=> c.realtime = "open"
  /\ c.retry => c.state = "disconnected"
  /\ c.state = "disconnected" /\ ShouldReconnect(c) => c.retry
  /\ c.state = "gettingToken" => \E f \in c.fetches : f.latest

\* unackedListensCount is the number of listens that wait for an answer: it is
\* neither left over after a loss nor decremented below zero.
CountMatches == c.unacked = Len(SelectSeq(c.cb, LAMBDA m : m.kind = "listen"))

Settled == c.state = "connected" /\ c.up = <<>> /\ c.down = <<>>

\* When nothing is on its way the session has the token of the client, and
\* whatever the client listens to is listened to at the server.
SessionMatches ==
  Settled => /\ server.user = c.token
             /\ {q \in Queries : c.listens[q] # None} \subseteq server.listens

\* A listen is given up only if its own request was refused or it was revoked,
\* not when the answer to an earlier one at the same place comes late.
KeepsListens ==
  \A q \in Queries : want[q] \notin refused \cup {None} => c.listens[q] = want[q]

\* "The block to be called after the write has been committed to the Firebase
\* Database servers" (FIRDatabaseReference.h:100) is called, whatever becomes of
\* the sockets.
WritesAreAnswered ==
  \A i \in Ids : (used.puts >= i) ~> (c.called[i] # <<>>)
=============================================================================
