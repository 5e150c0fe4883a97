-------------------------------- MODULE Hub ---------------------------------
(***************************************************************************)
(* The push layer: the hub's map of live connections, the two goroutines   *)
(* of every connection and the buffered channel between them and the       *)
(* senders (internal/ws), and the notification that is stored, pushed to   *)
(* the socket and to the phone (notification_service).                     *)
(*                                                                         *)
(* A critical section of the hub's lock is one step.  A sender looks the   *)
(* connection up under the read lock and sends after it, as the code does. *)
(***************************************************************************)
EXTENDS Naturals, Sequences, SequencesExt

CONSTANTS
  Users, Conns, UserOf,  \* every connection is opened once, by its user
  Notices, For,          \* notifications and whom they are for
  Senders,               \* goroutines that send notifications
  SendBufferSize,        \* sendBufferSize
  NoConn, NoNotice

ASSUME HubAssumption ==
  /\ UserOf \in [Conns -> Users] /\ For \in [Notices -> Users]
  /\ SendBufferSize \in Nat \ {0}
  /\ NoConn \notin Conns /\ NoNotice \notin Notices

VARIABLES
  clients,  \* Hub.clients
  conn,     \* channel, goroutines and socket of every connection
  sender,   \* what each sender is doing
  inbox,    \* notifications: "none" until stored, then "unread" or "read"
  shown,    \* external: what reached the app or the phone
  newest    \* history: the connection each user opened last

hubVars == <<clients, conn, sender, inbox, shown, newest>>

NoConnection == [send |-> <<>>, closed |-> FALSE, reader |-> "none", writer |-> "none",
                 socket |-> "none", peer |-> "none"]
SenderIdle   == [at |-> "idle", notice |-> NoNotice, client |-> NoConn]

HubInit ==
  /\ clients = [u \in Users |-> NoConn]
  /\ conn    = [c \in Conns |-> NoConnection]
  /\ sender  = [s \in Senders |-> SenderIdle]
  /\ inbox   = [n \in Notices |-> "none"]
  /\ shown   = {}
  /\ newest  = [u \in Users |-> NoConn]

-----------------------------------------------------------------------------
(* Connections *)

Opened == [send |-> <<>>, closed |-> FALSE, reader |-> "reading", writer |-> "writing",
           socket |-> "open", peer |-> "there"]

\* Mutant: the replaced connection's channel is left open.
ConnectLeavesOld(c) ==
  /\ conn[c].socket = "none"
  /\ conn' = [conn EXCEPT ![c] = Opened]
  /\ clients' = [clients EXCEPT ![UserOf[c]] = c]
  /\ newest' = [newest EXCEPT ![UserOf[c]] = c]
  /\ UNCHANGED <<sender, inbox, shown>>

\* The replaced connection's channel is closed under the lock; the pumps
\* of the new one start.
Connect(c) ==
  /\ conn[c].socket = "none"
  /\ conn' = [d \in Conns |->
                IF d = c THEN Opened
                ELSE IF d = clients[UserOf[c]] THEN [conn[d] EXCEPT !.closed = TRUE] ELSE conn[d]]
  /\ clients' = [clients EXCEPT ![UserOf[c]] = c]
  /\ newest' = [newest EXCEPT ![UserOf[c]] = c]
  /\ UNCHANGED <<sender, inbox, shown>>

\* External: the app closes the socket or loses its network.
PeerLeaves(c) ==
  /\ conn[c].peer = "there"
  /\ conn' = [conn EXCEPT ![c].peer = "gone"]
  /\ UNCHANGED <<clients, sender, inbox, shown, newest>>

\* A closed socket, a closing peer or a pong that did not come in time.
ReadFails(c) ==
  /\ conn[c].reader = "reading"
  /\ conn[c].socket = "closed" \/ conn[c].peer = "gone"
  /\ conn' = [conn EXCEPT ![c].reader = "leaving"]
  /\ UNCHANGED <<clients, sender, inbox, shown, newest>>

\* Mutant: whichever connection the user has is removed.
UnregisterAny(c) ==
  /\ conn[c].reader = "leaving"
  /\ clients' = [clients EXCEPT ![UserOf[c]] = NoConn]
  /\ conn' = [conn EXCEPT ![c].reader = "done", ![c].socket = "closed"]
  /\ UNCHANGED <<sender, inbox, shown, newest>>

\* readPump's deferred calls; the channel stays open.
Unregister(c) ==
  /\ conn[c].reader = "leaving"
  /\ clients' = [clients EXCEPT ![UserOf[c]] = IF @ = c THEN NoConn ELSE @]
  /\ conn' = [conn EXCEPT ![c].reader = "done", ![c].socket = "closed"]
  /\ UNCHANGED <<sender, inbox, shown, newest>>

Alive(c) == conn[c].socket = "open" /\ conn[c].peer = "there"

\* A write to a peer that left may still be taken by the kernel, and is lost.
WriteMessage(c) ==
  /\ conn[c].writer = "writing" /\ conn[c].send # <<>>
  /\ conn[c].socket = "open"
  /\ shown' = IF Alive(c) THEN shown \cup {Head(conn[c].send)} ELSE shown
  /\ conn' = [conn EXCEPT ![c].send = Tail(@)]
  /\ UNCHANGED <<clients, sender, inbox, newest>>

\* The ticker's ping fails, or the write of a message it has taken does.
WriteFails(c) ==
  /\ conn[c].writer = "writing" /\ ~Alive(c)
  /\ \E rest \in {conn[c].send} \cup {Tail(q) : q \in {conn[c].send} \ {<<>>}} :
       conn' = [conn EXCEPT ![c].writer = "done", ![c].socket = "closed", ![c].send = rest]
  /\ UNCHANGED <<clients, sender, inbox, shown, newest>>

\* A closed channel is drained before the goroutine sees that it is closed.
WriteClose(c) ==
  /\ conn[c].writer = "writing" /\ conn[c].closed /\ conn[c].send = <<>>
  /\ conn' = [conn EXCEPT ![c].writer = "done", ![c].socket = "closed"]
  /\ UNCHANGED <<clients, sender, inbox, shown, newest>>

-----------------------------------------------------------------------------
(* NotificationService *)

\* The row comes first: a push that is dropped or panics is still in the list.
Store(s) ==
  \E n \in Notices :
    /\ sender[s].at = "idle"
    /\ inbox[n] = "none" /\ \A r \in Senders : sender[r].notice # n
    /\ inbox' = [inbox EXCEPT ![n] = "unread"]
    /\ sender' = [sender EXCEPT ![s] = [SenderIdle EXCEPT !.at = "look up", !.notice = n]]
    /\ UNCHANGED <<clients, conn, shown, newest>>

LookUp(s) ==
  /\ sender[s].at = "look up"
  /\ LET c == clients[For[sender[s].notice]]
     IN  sender' = [sender EXCEPT ![s].at = IF c = NoConn THEN "phone" ELSE "send", ![s].client = c]
  /\ UNCHANGED <<clients, conn, inbox, shown, newest>>

\* Dropped when the buffer is full.
Send(s) ==
  LET c == sender[s].client
  IN  /\ sender[s].at = "send" /\ ~conn[c].closed
      /\ conn' = IF Len(conn[c].send) < SendBufferSize
                 THEN [conn EXCEPT ![c].send = Append(@, sender[s].notice)] ELSE conn
      /\ sender' = [sender EXCEPT ![s].at = "phone"]
      /\ UNCHANGED <<clients, inbox, shown, newest>>

\* The channel was closed since the look-up: the send panics, the phone is
\* not pushed and the caller's request or job ends in its recover().
SendPanics(s) ==
  /\ sender[s].at = "send" /\ conn[sender[s].client].closed
  /\ sender' = [sender EXCEPT ![s] = SenderIdle]
  /\ UNCHANGED <<clients, conn, inbox, shown, newest>>

\* Best effort, when the account has a push token.
PushToPhone(s) ==
  /\ sender[s].at = "phone"
  /\ shown' \in {shown, shown \cup {sender[s].notice}}
  /\ sender' = [sender EXCEPT ![s] = SenderIdle]
  /\ UNCHANGED <<clients, conn, inbox, newest>>

MarkRead(n) ==
  /\ inbox[n] = "unread"
  /\ inbox' = [inbox EXCEPT ![n] = "read"]
  /\ UNCHANGED <<clients, conn, sender, shown, newest>>

MarkAllRead(u) ==
  /\ \E n \in Notices : For[n] = u /\ inbox[n] = "unread"
  /\ inbox' = [n \in Notices |-> IF For[n] = u /\ inbox[n] = "unread" THEN "read" ELSE inbox[n]]
  /\ UNCHANGED <<clients, conn, sender, shown, newest>>

Pump(c)       == ReadFails(c) \/ Unregister(c) \/ WriteMessage(c) \/ WriteFails(c) \/ WriteClose(c)
SenderStep(s) == Store(s) \/ LookUp(s) \/ Send(s) \/ SendPanics(s) \/ PushToPhone(s)

HubNext ==
  \/ \E c \in Conns : Connect(c) \/ PeerLeaves(c) \/ Pump(c)
  \/ \E s \in Senders : SenderStep(s)
  \/ \E n \in Notices : MarkRead(n)
  \/ \E u \in Users : MarkAllRead(u)

\* The runtime runs every goroutine that can go on: the reader is woken by
\* the socket or its deadline, the writer by the channel or its ticker.
HubFairness ==
  \A c \in Conns :
    /\ WF_hubVars(ReadFails(c)) /\ WF_hubVars(Unregister(c))
    /\ WF_hubVars(WriteMessage(c) \/ WriteFails(c) \/ WriteClose(c))

HubSpec == HubInit /\ [][HubNext]_hubVars /\ HubFairness

-----------------------------------------------------------------------------
(* Types and properties *)

Connection == [send : Seq(Notices), closed : BOOLEAN,
               reader : {"none", "reading", "leaving", "done"},
               writer : {"none", "writing", "done"},
               socket : {"none", "open", "closed"},
               peer : {"none", "there", "gone"}]
SenderRow  == [at : {"idle", "look up", "send", "phone"},
               notice : Notices \cup {NoNotice}, client : Conns \cup {NoConn}]

\* The types of the variables; a sender that runs has its notification, and
\* after a successful look-up its connection.
HubTypeOK ==
  /\ clients \in [Users -> Conns \cup {NoConn}]
  /\ conn    \in [Conns -> Connection]
  /\ sender  \in [Senders -> SenderRow]
  /\ inbox   \in [Notices -> {"none", "unread", "read"}]
  /\ shown   \subseteq Notices
  /\ newest  \in [Users -> Conns \cup {NoConn}]
  /\ \A s \in Senders :
       /\ sender[s].at # "idle" => sender[s].notice \in Notices
       /\ sender[s].at = "send" => sender[s].client \in Conns

\* A user whose last connection is being read is in the hub's map with that
\* connection, whenever older ones disconnect (unregister removes a connection
\* only if it is still the current one).
LastConnectionServed ==
  \A u \in Users : newest[u] # NoConn /\ conn[newest[u]].reader = "reading"
                     => clients[u] = newest[u]

\* Both goroutines of a connection that was replaced or whose peer left end,
\* and the hub forgets it, whatever is still being sent to it (Connect closes
\* the channel of the old one; readPump and writePump close the socket).
LeftConnectionEnds ==
  \A c \in Conns :
    conn[c].peer = "gone" \/ (conn[c].socket # "none" /\ newest[UserOf[c]] # c)
      ~> /\ conn[c].reader = "done" /\ conn[c].writer = "done"
         /\ clients[UserOf[c]] # c
=============================================================================
