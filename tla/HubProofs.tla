----------------------------- MODULE HubProofs ------------------------------
(***************************************************************************)
(* The hub serves the last connection of every user, for any number of     *)
(* users, connections, notifications and senders.                          *)
(***************************************************************************)
EXTENDS Hub, TLAPS

\* Besides the types: a connection opened last belongs to its user, and a
\* connection in the map was opened.
OwnConnection ==
  /\ \A u \in Users : newest[u] # NoConn => UserOf[newest[u]] = u
  /\ \A c \in Conns : conn[c].socket = "none" => conn[c].reader = "none"

HubInv == HubTypeOK /\ OwnConnection /\ LastConnectionServed

LEMMA OpenedType == Opened \in Connection /\ Opened.reader = "reading" /\ Opened.socket = "open"
<1>1. <<>> \in Seq(Notices)
  OBVIOUS
<1> QED
  BY <1>1 DEF Opened, Connection

\* What the steps change in a connection.
LEMMA RowClosed ==
  \A r \in Connection :
    LET row == [r EXCEPT !.closed = TRUE]
    IN  row \in Connection /\ row.reader = r.reader /\ row.socket = r.socket
<1> SUFFICES ASSUME NEW r \in Connection
             PROVE  LET row == [r EXCEPT !.closed = TRUE]
                    IN  row \in Connection /\ row.reader = r.reader /\ row.socket = r.socket
  OBVIOUS
<1>1. [r EXCEPT !.closed = TRUE] \in Connection
  BY DEF Connection
<1>2. [r EXCEPT !.closed = TRUE].reader = r.reader
  BY DEF Connection
<1>3. [r EXCEPT !.closed = TRUE].socket = r.socket
  BY DEF Connection
<1> QED
  BY <1>1, <1>2, <1>3

LEMMA RowRead ==
  ASSUME NEW r \in Connection
  PROVE  LET row == [[r EXCEPT !.reader = "done"] EXCEPT !.socket = "closed"]
         IN  row \in Connection /\ row.reader = "done" /\ row.socket = "closed"
<1> DEFINE a == [r EXCEPT !.reader = "done"]
<1>1. a \in Connection /\ a.reader = "done"
  BY DEF Connection
<1> HIDE DEF a
<1>2. [a EXCEPT !.socket = "closed"] \in Connection
  BY <1>1 DEF Connection
<1>3. [a EXCEPT !.socket = "closed"].reader = "done" /\ [a EXCEPT !.socket = "closed"].socket = "closed"
  BY <1>1 DEF Connection
<1> QED
  BY <1>2, <1>3 DEF a

LEMMA RowWritten ==
  ASSUME NEW r \in Connection
  PROVE  LET row == [[r EXCEPT !.writer = "done"] EXCEPT !.socket = "closed"]
         IN  row \in Connection /\ row.reader = r.reader /\ row.socket = "closed"
<1> DEFINE a == [r EXCEPT !.writer = "done"]
<1>1. a \in Connection /\ a.reader = r.reader
  BY DEF Connection
<1> HIDE DEF a
<1>2. [a EXCEPT !.socket = "closed"] \in Connection
  BY <1>1 DEF Connection
<1>3. [a EXCEPT !.socket = "closed"].reader = r.reader /\ [a EXCEPT !.socket = "closed"].socket = "closed"
  BY <1>1 DEF Connection
<1> QED
  BY <1>2, <1>3 DEF a

LEMMA RowSent ==
  ASSUME NEW r \in Connection, NEW q \in Seq(Notices)
  PROVE  LET row == [r EXCEPT !.send = q]
         IN  row \in Connection /\ row.reader = r.reader /\ row.socket = r.socket
<1>1. [r EXCEPT !.send = q] \in Connection
  BY DEF Connection
<1>2. [r EXCEPT !.send = q].reader = r.reader
  BY DEF Connection
<1>3. [r EXCEPT !.send = q].socket = r.socket
  BY DEF Connection
<1> QED
  BY <1>1, <1>2, <1>3

LEMMA InitHubInv == HubInit => HubInv
<1> SUFFICES ASSUME HubInit PROVE HubInv
  OBVIOUS
<1>1. HubTypeOK
  <2>1. NoConnection \in Connection
    <3>1. <<>> \in Seq(Notices)
      OBVIOUS
    <3> QED
      BY <3>1 DEF NoConnection, Connection
  <2>2. SenderIdle \in SenderRow /\ SenderIdle.at = "idle"
    BY DEF SenderIdle, SenderRow
  <2> HIDE DEF NoConnection, SenderIdle, Connection, SenderRow
  <2> QED
    BY <2>1, <2>2 DEF HubInit, HubTypeOK
<1>2. OwnConnection /\ LastConnectionServed
  BY HubAssumption DEF HubInit, OwnConnection, LastConnectionServed, NoConnection
<1> QED
  BY <1>1, <1>2 DEF HubInv

\* A step that changes one connection, lets no reader start reading and leaves
\* the map as it is.
LEMMA PumpKeeps ==
  ASSUME HubInv, NEW c \in Conns, NEW row \in Connection,
         conn' = [conn EXCEPT ![c] = row],
         row.reader = "reading" => conn[c].reader = "reading",
         row.socket = "none" => conn[c].socket = "none" /\ row.reader = conn[c].reader,
         UNCHANGED <<clients, newest>>
  PROVE  /\ conn' \in [Conns -> Connection]
         /\ OwnConnection' /\ LastConnectionServed'
<1>1. conn' \in [Conns -> Connection]
  BY DEF HubInv, HubTypeOK
<1>2. \A d \in Conns : conn'[d] = IF d = c THEN row ELSE conn[d]
  BY DEF HubInv, HubTypeOK
<1>3. OwnConnection'
  BY <1>2 DEF HubInv, HubTypeOK, OwnConnection
<1>4. LastConnectionServed'
  BY <1>2 DEF HubInv, HubTypeOK, LastConnectionServed
<1> QED
  BY <1>1, <1>3, <1>4

\* A new connection replaces the one in the map.
LEMMA ConnectKeeps ==
  ASSUME HubInv, NEW c \in Conns, Connect(c)
  PROVE  HubInv'
<1> DEFINE u == UserOf[c]
<1>1. u \in Users
  BY HubAssumption
<1>2. \A d \in Conns : conn'[d] = IF d = c THEN Opened
                                  ELSE IF d = clients[u] THEN [conn[d] EXCEPT !.closed = TRUE]
                                  ELSE conn[d]
  BY DEF Connect
<1>3. \A d \in Conns : [conn[d] EXCEPT !.closed = TRUE] \in Connection
                       /\ [conn[d] EXCEPT !.closed = TRUE].reader = conn[d].reader
                       /\ [conn[d] EXCEPT !.closed = TRUE].socket = conn[d].socket
  BY RowClosed DEF HubInv, HubTypeOK
<1>4. \A d \in Conns :
        /\ conn'[d] \in Connection
        /\ d # c => conn'[d].reader = conn[d].reader /\ conn'[d].socket = conn[d].socket
  <2> SUFFICES ASSUME NEW d \in Conns
               PROVE  /\ conn'[d] \in Connection
                      /\ d # c => conn'[d].reader = conn[d].reader /\ conn'[d].socket = conn[d].socket
    OBVIOUS
  <2>1. CASE d = c
    BY <2>1, <1>2, OpenedType
  <2>2. CASE d # c /\ d = clients[u]
    BY <2>2, <1>2, <1>3
  <2>3. CASE d # c /\ d # clients[u]
    BY <2>3, <1>2 DEF HubInv, HubTypeOK
  <2> QED
    BY <2>1, <2>2, <2>3
<1>5. conn'[c].reader = "reading" /\ conn'[c].socket = "open"
  BY <1>2, OpenedType
<1>6. /\ \A v \in Users : clients'[v] = IF v = u THEN c ELSE clients[v]
      /\ \A v \in Users : newest'[v] = IF v = u THEN c ELSE newest[v]
  BY <1>1 DEF Connect, HubInv, HubTypeOK
<1>7. HubTypeOK'
  <2>1. conn' \in [Conns -> Connection]
    <3> DEFINE new(d) == IF d = c THEN Opened
                         ELSE IF d = clients[u] THEN [conn[d] EXCEPT !.closed = TRUE] ELSE conn[d]
    <3>1. conn' = [d \in Conns |-> new(d)]
      BY DEF Connect
    <3>2. \A d \in Conns : new(d) \in Connection
      BY <1>2, <1>4
    <3> HIDE DEF new
    <3> QED
      BY <3>1, <3>2
  <2> QED
    BY <2>1, <1>1 DEF Connect, HubInv, HubTypeOK
<1>8. OwnConnection'
  <2>1. \A v \in Users : newest'[v] # NoConn => UserOf[newest'[v]] = v
    BY <1>6 DEF HubInv, OwnConnection
  <2>2. \A d \in Conns : conn'[d].socket = "none" => conn'[d].reader = "none"
    BY <1>4, <1>5 DEF HubInv, OwnConnection
  <2> QED
    BY <2>1, <2>2 DEF OwnConnection
<1>9. LastConnectionServed'
  <2> SUFFICES ASSUME NEW v \in Users, newest'[v] # NoConn, conn'[newest'[v]].reader = "reading"
               PROVE  clients'[v] = newest'[v]
    BY DEF LastConnectionServed
  <2>1. CASE v = u
    BY <2>1, <1>6
  <2>2. CASE v # u
    <3>1. newest[v] # NoConn /\ newest[v] \in Conns /\ newest[v] # c
      BY <2>2, <1>6 DEF HubInv, HubTypeOK, OwnConnection
    <3> QED
      BY <3>1, <2>2, <1>4, <1>6 DEF HubInv, LastConnectionServed
  <2> QED
    BY <2>1, <2>2
<1> QED
  BY <1>7, <1>8, <1>9 DEF HubInv

\* The connection that leaves is taken off the map only if it is there, and
\* then it is nobody else's last one.
LEMMA UnregisterKeeps ==
  ASSUME HubInv, NEW c \in Conns, Unregister(c)
  PROVE  HubInv'
<1> DEFINE u == UserOf[c]
<1>1. u \in Users
  BY HubAssumption
<1>2. /\ \A d \in Conns : d # c => conn'[d] = conn[d]
      /\ conn'[c].reader = "done" /\ conn'[c].socket = "closed" /\ conn'[c] \in Connection
  <2> DEFINE row == [[conn[c] EXCEPT !.reader = "done"] EXCEPT !.socket = "closed"]
  <2>1. row \in Connection /\ row.reader = "done" /\ row.socket = "closed"
    BY RowRead DEF HubInv, HubTypeOK
  <2>2. conn' = [conn EXCEPT ![c] = row]
    BY DEF Unregister, HubInv, HubTypeOK
  <2> HIDE DEF row
  <2> QED
    BY <2>1, <2>2 DEF HubInv, HubTypeOK
<1>3. \A v \in Users : clients'[v] = IF v = u /\ clients[v] = c THEN NoConn ELSE clients[v]
  BY <1>1 DEF Unregister, HubInv, HubTypeOK
<1>4. HubTypeOK'
  <2>1. conn' \in [Conns -> Connection]
    <3>1. conn' = [d \in Conns |-> conn'[d]]
      BY DEF Unregister, HubInv, HubTypeOK
    <3> QED
      BY <3>1, <1>2 DEF HubInv, HubTypeOK
  <2> QED
    BY <2>1, <1>1 DEF Unregister, HubInv, HubTypeOK
<1>5. OwnConnection'
  BY <1>2 DEF Unregister, HubInv, OwnConnection
<1>6. LastConnectionServed'
  BY <1>2, <1>3 DEF Unregister, HubInv, HubTypeOK, LastConnectionServed
<1> QED
  BY <1>4, <1>5, <1>6 DEF HubInv

\* The peer, the writer and a failing reader change no map.
LEMMA PumpsKeep ==
  ASSUME HubInv, NEW c \in Conns,
         PeerLeaves(c) \/ ReadFails(c) \/ WriteMessage(c) \/ WriteFails(c) \/ WriteClose(c)
  PROVE  HubInv'
<1> DEFINE old == conn[c]
<1>1. old \in Connection
  BY DEF HubInv, HubTypeOK
<1>2. \A q \in Seq(Notices) : q # <<>> => Tail(q) \in Seq(Notices) /\ Head(q) \in Notices
  OBVIOUS
<1>3. \E row \in Connection :
        /\ conn' = [conn EXCEPT ![c] = row]
        /\ row.reader = "reading" => old.reader = "reading"
        /\ row.socket = "none" => old.socket = "none" /\ row.reader = old.reader
  <2>1. CASE PeerLeaves(c)
    <3> DEFINE row == [old EXCEPT !.peer = "gone"]
    <3>1. row \in Connection /\ row.reader = old.reader /\ row.socket = old.socket
      BY <1>1 DEF Connection
    <3>2. conn' = [conn EXCEPT ![c] = row]
      BY <2>1 DEF PeerLeaves
    <3> HIDE DEF row
    <3> QED
      BY <3>1, <3>2
  <2>2. CASE ReadFails(c)
    <3> DEFINE row == [old EXCEPT !.reader = "leaving"]
    <3>1. row \in Connection /\ row.reader = "leaving" /\ row.socket = old.socket
      BY <1>1 DEF Connection
    <3>2. conn' = [conn EXCEPT ![c] = row] /\ old.socket # "none"
      BY <2>2 DEF ReadFails, HubInv, OwnConnection
    <3> HIDE DEF row
    <3> QED
      BY <3>1, <3>2
  <2>3. CASE WriteMessage(c)
    <3> DEFINE row == [old EXCEPT !.send = Tail(old.send)]
    <3>1. row \in Connection /\ row.reader = old.reader /\ row.socket = old.socket
      <4>1. Tail(old.send) \in Seq(Notices)
        BY <2>3, <1>1, <1>2 DEF WriteMessage, Connection
      <4> QED
        BY <4>1, <1>1, RowSent
    <3>2. conn' = [conn EXCEPT ![c] = row]
      BY <2>3 DEF WriteMessage
    <3> HIDE DEF row
    <3> QED
      BY <3>1, <3>2
  <2>4. CASE WriteFails(c)
    <3>1. PICK rest \in {old.send} \cup {Tail(q) : q \in {old.send} \ {<<>>}} :
            conn' = [conn EXCEPT ![c].writer = "done", ![c].socket = "closed", ![c].send = rest]
      BY <2>4 DEF WriteFails
    <3>2. rest \in Seq(Notices)
      BY <1>1, <1>2 DEF Connection
    <3> DEFINE ended == [[old EXCEPT !.writer = "done"] EXCEPT !.socket = "closed"]
               row   == [ended EXCEPT !.send = rest]
    <3>3. ended \in Connection /\ ended.reader = old.reader /\ ended.socket = "closed"
      BY <1>1, RowWritten
    <3>4. conn' = [conn EXCEPT ![c] = row]
      BY <3>1 DEF HubInv, HubTypeOK
    <3> HIDE DEF ended
    <3>5. row \in Connection /\ row.reader = old.reader /\ row.socket = "closed"
      BY <3>2, <3>3, RowSent
    <3> HIDE DEF row
    <3> QED
      BY <3>4, <3>5
  <2>5. CASE WriteClose(c)
    <3> DEFINE row == [[old EXCEPT !.writer = "done"] EXCEPT !.socket = "closed"]
    <3>1. row \in Connection /\ row.reader = old.reader /\ row.socket = "closed"
      BY <1>1, RowWritten
    <3>2. conn' = [conn EXCEPT ![c] = row]
      BY <2>5 DEF WriteClose, HubInv, HubTypeOK
    <3> HIDE DEF row
    <3> QED
      BY <3>1, <3>2
  <2> QED
    BY <2>1, <2>2, <2>3, <2>4, <2>5
<1>4. UNCHANGED <<clients, newest, sender, inbox>>
  BY DEF PeerLeaves, ReadFails, WriteMessage, WriteFails, WriteClose
<1>5. shown' \subseteq Notices
  <2>1. CASE WriteMessage(c)
    <3>1. Head(old.send) \in Notices
      BY <2>1, <1>1, <1>2 DEF WriteMessage, Connection
    <3> QED
      BY <2>1, <3>1 DEF WriteMessage, HubInv, HubTypeOK
  <2>2. CASE ~WriteMessage(c)
    BY <2>2 DEF PeerLeaves, ReadFails, WriteFails, WriteClose, HubInv, HubTypeOK
  <2> QED
    BY <2>1, <2>2
<1>6. /\ conn' \in [Conns -> Connection]
      /\ OwnConnection' /\ LastConnectionServed'
  BY <1>3, <1>4, PumpKeeps
<1>7. HubTypeOK'
  BY <1>4, <1>5, <1>6 DEF HubInv, HubTypeOK
<1> QED
  BY <1>6, <1>7 DEF HubInv

\* A sender touches a connection's channel only.
LEMMA SendersKeep ==
  ASSUME HubInv, NEW s \in Senders, SenderStep(s)
  PROVE  HubInv'
<1>1. UNCHANGED <<clients, newest>>
  BY DEF SenderStep, Store, LookUp, Send, SendPanics, PushToPhone
<1>2. CASE Send(s)
  <2> DEFINE c == sender[s].client
             n == sender[s].notice
             row == IF Len(conn[c].send) < SendBufferSize
                    THEN [conn[c] EXCEPT !.send = Append(conn[c].send, n)] ELSE conn[c]
  <2>1. c \in Conns /\ n \in Notices
    BY <1>2 DEF Send, HubInv, HubTypeOK
  <2>2. conn[c] \in Connection
    BY <2>1 DEF HubInv, HubTypeOK
  <2>3. Append(conn[c].send, n) \in Seq(Notices)
    BY <2>1, <2>2 DEF Connection
  <2>4. row \in Connection /\ row.reader = conn[c].reader /\ row.socket = conn[c].socket
    BY <2>2, <2>3, RowSent
  <2>5. conn' = [conn EXCEPT ![c] = row]
    BY <1>2, <2>1 DEF Send, HubInv, HubTypeOK
  <2> HIDE DEF row, c, n
  <2>6. conn' \in [Conns -> Connection] /\ OwnConnection' /\ LastConnectionServed'
    BY <2>1, <2>4, <2>5, <1>1, PumpKeeps
  <2>7. HubTypeOK'
    BY <2>6, <1>1, <1>2 DEF Send, HubInv, HubTypeOK, SenderRow
  <2> QED
    BY <2>6, <2>7 DEF HubInv
<1>3. CASE ~Send(s)
  <2>1. UNCHANGED conn
    BY <1>3 DEF SenderStep, Store, LookUp, SendPanics, PushToPhone
  <2>2. HubTypeOK'
    <3>1. CASE Store(s)
      <4>1. PICK n \in Notices :
              /\ inbox' = [inbox EXCEPT ![n] = "unread"]
              /\ sender' = [sender EXCEPT ![s] = [SenderIdle EXCEPT !.at = "look up", !.notice = n]]
        BY <3>1 DEF Store
      <4> DEFINE row == [SenderIdle EXCEPT !.at = "look up", !.notice = n]
      <4>2. row \in SenderRow /\ row.at = "look up" /\ row.notice = n
        BY DEF SenderIdle, SenderRow
      <4> HIDE DEF row
      <4> QED
        BY <4>1, <4>2, <3>1, <1>1, <2>1 DEF row, Store, HubInv, HubTypeOK
    <3>2. CASE LookUp(s)
      <4> DEFINE c == clients[For[sender[s].notice]]
      <4>1. c \in Conns \cup {NoConn}
        BY <3>2, HubAssumption DEF LookUp, HubInv, HubTypeOK
      <4> QED
        BY <4>1, <3>2, <1>1, <2>1 DEF LookUp, HubInv, HubTypeOK, SenderRow
    <3>3. CASE SendPanics(s)
      BY <3>3, <1>1, <2>1 DEF SendPanics, HubInv, HubTypeOK, SenderRow, SenderIdle
    <3>4. CASE PushToPhone(s)
      BY <3>4, <1>1, <2>1 DEF PushToPhone, HubInv, HubTypeOK, SenderRow, SenderIdle
    <3> QED
      BY <1>3, <3>1, <3>2, <3>3, <3>4 DEF SenderStep
  <2> QED
    BY <1>1, <2>1, <2>2 DEF HubInv, OwnConnection, LastConnectionServed
<1> QED
  BY <1>2, <1>3

LEMMA NextHubInv == HubInv /\ [HubNext]_hubVars => HubInv'
<1> SUFFICES ASSUME HubInv, [HubNext]_hubVars PROVE HubInv'
  OBVIOUS
<1>1. CASE \E c \in Conns : Connect(c) \/ PeerLeaves(c) \/ Pump(c)
  BY <1>1, ConnectKeeps, PumpsKeep, UnregisterKeeps DEF Pump
<1>2. CASE \E s \in Senders : SenderStep(s)
  BY <1>2, SendersKeep
<1>3. CASE \E n \in Notices : MarkRead(n)
  BY <1>3 DEF MarkRead, HubInv, HubTypeOK, OwnConnection, LastConnectionServed
<1>4. CASE \E u \in Users : MarkAllRead(u)
  BY <1>4 DEF MarkAllRead, HubInv, HubTypeOK, OwnConnection, LastConnectionServed
<1>5. CASE UNCHANGED hubVars
  BY <1>5 DEF hubVars, HubInv, HubTypeOK, OwnConnection, LastConnectionServed
<1> QED
  BY <1>1, <1>2, <1>3, <1>4, <1>5 DEF HubNext

LEMMA HubKeepsInv == HubSpec => []HubInv
BY InitHubInv, NextHubInv, PTL DEF HubSpec

\* The types of the hub's state (Hub, Client, NotificationService).
THEOREM HubTypes == HubSpec => []HubTypeOK
BY HubKeepsInv, PTL DEF HubInv

\* A user whose last connection is being read is in the map with it, whatever
\* older connections do (unregister removes only the current connection).
THEOREM HubServesLast == HubSpec => []LastConnectionServed
BY HubKeepsInv, PTL DEF HubInv
=============================================================================
