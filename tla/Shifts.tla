------------------------------- MODULE Shifts -------------------------------
(***************************************************************************)
(* Presence and evidence: GoOnline, GoOffline and PingLocation of          *)
(* internal/service/driver_service.go, and the shifts, batches of GPS      *)
(* points, hash chain, stale-shift job and purge of tracking_service.go    *)
(* over the tables driver_profiles, driver_shifts and location_points.     *)
(*                                                                         *)
(* A request is served by a slot and every call to a repository is one     *)
(* step.  The driver's app is modelled from what tracking_dto.go tells it: *)
(* it sends every point it has not been told to discard, oldest first,     *)
(* and sends it again when the answer is lost.                             *)
(***************************************************************************)
EXTENDS Naturals, FiniteSets, Sequences

CONSTANTS
  Drivers, NoDriver,
  MaxShift,         \* bound: shifts are created in the order 1, 2, ...
  MaxPoint,         \* bound: points the app records in each shift
  Reqs, Serves,     \* request slots and what each serves
  Stops,            \* slots whose handler may stop between two calls
  Tampers           \* whether somebody edits location_points behind the service

ShiftIds == 1 .. MaxShift
ShiftOps == {"online", "offline", "ping", "ingest", "verify", "stale job", "purge job"}

ASSUME ShiftsAssumption ==
  /\ MaxShift \in Nat /\ MaxPoint \in [ShiftIds -> Nat] /\ Tampers \in BOOLEAN
  /\ NoDriver \notin Drivers
  /\ Stops \subseteq Reqs

VARIABLES
  profile,  \* driver_profiles
  located,  \* drivers in the geo index
  shift,    \* driver_shifts
  trail,    \* location_points, by shift
  acked,    \* what the app was told to discard, by shift
  edited,   \* history: the shifts whose points were edited
  req       \* what each request slot is doing

shiftVars == <<profile, located, shift, trail, acked, edited, req>>

\* days: what is left of the subscription.  rated: how many ratings its mean has.
NoProfile == [status |-> "none", days |-> 0, online |-> FALSE, rated |-> 0]
Working   == [NoProfile EXCEPT !.status = "approved", !.days = 1]

\* quiet: no sign for staleAfter.  closed: ended_at is at most
\* shiftLateFlushGrace ago, or longer: then the retention may be over as well.
NoShift == [status |-> "none", driver |-> NoDriver, quiet |-> FALSE, closed |-> "no",
            count |-> 0, lastN |-> 0, head |-> <<>>]

Reading == [count |-> 0, head |-> <<>>, prev |-> <<>>, after |-> 0, found |-> 0,
            valid |-> TRUE, edited |-> FALSE, moved |-> FALSE]
ShiftIdle == [at |-> "idle", d |-> NoDriver, row |-> NoProfile, s |-> 0,
              batch |-> {}, upto |-> 0, todo |-> {}, v |-> Reading]

ShiftInit ==
  /\ profile = [d \in Drivers |-> Working]
  /\ located = {}
  /\ shift   = [s \in ShiftIds |-> NoShift]
  /\ trail   = [s \in ShiftIds |-> {}]
  /\ acked   = [s \in ShiftIds |-> 0]
  /\ edited  = {}
  /\ req     = [r \in Reqs |-> ShiftIdle]

-----------------------------------------------------------------------------
(* Slots and rows *)

Start(r, op)  == req[r].at = "idle" /\ op \in Serves[r]
At(r, step)   == req[r].at = step
Goto(r, step) == req' = [req EXCEPT ![r].at = step]
Finish(r)     == req' = [req EXCEPT ![r] = ShiftIdle]

ActiveShifts(d) == {s \in ShiftIds : shift[s].status = "active" /\ shift[s].driver = d}
Newest(S) == {s \in S : \A t \in S : t <= s}
Stored(s) == shift[s].status \in {"active", "ended"}

\* DriverRepository.Update: every column is written.
SaveProfile(d, row) == profile' = [profile EXCEPT ![d] = row]

\* EndShift acts on active shifts only.
EndShift(s, age) ==
  shift' = IF shift[s].status = "active"
           THEN [shift EXCEPT ![s].status = "ended", ![s].closed = age] ELSE shift

-----------------------------------------------------------------------------
(* GoOnline, GoOffline, PingLocation *)

GoOnline(r) ==
  \E d \in Drivers :
    /\ Start(r, "online")
    /\ profile[d].status = "approved" /\ profile[d].days > 0
    /\ req' = [req EXCEPT ![r] = [ShiftIdle EXCEPT !.at = "locate", !.d = d,
                                    !.row = [profile[d] EXCEPT !.online = TRUE]]]
    /\ UNCHANGED <<profile, located, shift, trail, acked, edited>>

LocateOnline(r) ==
  /\ At(r, "locate")
  /\ located' = located \cup {req[r].d}
  /\ Goto(r, "save online")
  /\ UNCHANGED <<profile, shift, trail, acked, edited>>

SaveOnline(r) ==
  /\ At(r, "save online")
  /\ SaveProfile(req[r].d, req[r].row)
  /\ Goto(r, "find shift")
  /\ UNCHANGED <<located, shift, trail, acked, edited>>

\* StartShift: a shift that still gives signs is continued.
ContinueShift(r) ==
  /\ At(r, "find shift")
  /\ LET newest == Newest(ActiveShifts(req[r].d))
     IN  IF \E s \in newest : ~shift[s].quiet THEN Finish(r) ELSE Goto(r, "retire")
  /\ UNCHANGED <<profile, located, shift, trail, acked, edited>>

\* The transaction's UPDATE sees the shifts committed when it begins; two of them
\* do not see each other's INSERT.
RetireShifts(r) ==
  /\ At(r, "retire")
  /\ req' = [req EXCEPT ![r].at = "open", ![r].todo = ActiveShifts(req[r].d)]
  /\ UNCHANGED <<profile, located, shift, trail, acked, edited>>

OpenShift(r) ==
  /\ At(r, "open")
  /\ \/ \E s \in ShiftIds :
          /\ shift[s].status = "none" /\ \A t \in 1 .. s - 1 : shift[t].status # "none"
          /\ shift' = [t \in ShiftIds |->
               IF t = s THEN [NoShift EXCEPT !.status = "active", !.driver = req[r].d]
               ELSE IF t \in req[r].todo /\ shift[t].status = "active"
               THEN [shift[t] EXCEPT !.status = "ended", !.closed = "grace"] ELSE shift[t]]
          /\ Finish(r)
     \/ Goto(r, "undo online") /\ UNCHANGED shift  \* the transaction failed
  /\ UNCHANGED <<profile, located, trail, acked, edited>>

UndoOnline(r) ==
  /\ At(r, "undo online")
  /\ SaveProfile(req[r].d, [req[r].row EXCEPT !.online = FALSE])
  /\ Goto(r, "undo locate")
  /\ UNCHANGED <<located, shift, trail, acked, edited>>

UndoLocate(r) ==
  /\ At(r, "undo locate")
  /\ located' = located \ {req[r].d}
  /\ Finish(r)
  /\ UNCHANGED <<profile, shift, trail, acked, edited>>

GoOffline(r) ==
  \E d \in Drivers :
    /\ Start(r, "offline")
    /\ req' = [req EXCEPT ![r] = [ShiftIdle EXCEPT !.at = "unlocate", !.d = d,
                                    !.row = [profile[d] EXCEPT !.online = FALSE]]]
    /\ UNCHANGED <<profile, located, shift, trail, acked, edited>>

UnlocateOffline(r) ==
  /\ At(r, "unlocate")
  /\ located' = located \ {req[r].d}
  /\ Goto(r, "save offline")
  /\ UNCHANGED <<profile, shift, trail, acked, edited>>

SaveOffline(r) ==
  /\ At(r, "save offline")
  /\ SaveProfile(req[r].d, req[r].row)
  /\ Goto(r, "find active")
  /\ UNCHANGED <<located, shift, trail, acked, edited>>

\* EndActiveShift
FindActiveShift(r) ==
  /\ At(r, "find active")
  /\ LET newest == Newest(ActiveShifts(req[r].d))
     IN  \/ newest = {} /\ Finish(r)
         \/ \E s \in newest : req' = [req EXCEPT ![r].at = "end", ![r].s = s]
  /\ UNCHANGED <<profile, located, shift, trail, acked, edited>>

EndActiveShift(r) ==
  /\ At(r, "end")
  /\ EndShift(req[r].s, "grace")
  /\ Finish(r)
  /\ UNCHANGED <<profile, located, trail, acked, edited>>

PingLocation(r) ==
  \E d \in Drivers :
    /\ Start(r, "ping")
    /\ profile[d].online
    /\ req' = [req EXCEPT ![r] = [ShiftIdle EXCEPT !.at = "ping", !.d = d]]
    /\ UNCHANGED <<profile, located, shift, trail, acked, edited>>

LocatePing(r) ==
  /\ At(r, "ping")
  /\ located' = located \cup {req[r].d}
  /\ Finish(r)
  /\ UNCHANGED <<profile, shift, trail, acked, edited>>

-----------------------------------------------------------------------------
(* The app's points and Ingest *)

\* The app sends what it was not told to discard; a batch may also come again, or
\* late, when the app was told more since.
SendBatch(r) ==
  \E s \in ShiftIds :
    /\ Start(r, "ingest")
    /\ shift[s].status # "none"
    /\ \E from \in 1 .. acked[s] + 1 : \E to \in from .. MaxPoint[s] :
         req' = [req EXCEPT ![r] = [ShiftIdle EXCEPT !.at = "load", !.s = s,
                                                     !.batch = from .. to]]
    /\ UNCHANGED <<profile, located, shift, trail, acked, edited>>

IngestLoad(r) ==
  /\ At(r, "load")
  /\ IF Stored(req[r].s) /\ shift[req[r].s].closed \in {"no", "grace"}
     THEN Goto(r, "append") ELSE Finish(r)  \* ErrShiftNotFound, ErrShiftClosed
  /\ UNCHANGED <<profile, located, shift, trail, acked, edited>>

\* Mutant: the points are taken the other way round.
AnyOrder(m, n) == m > n

\* The batch is sorted by the app's counter: m comes before n.
InOrder(m, n) == m < n

\* The i-th member of a set of counters is the one that i of them do not exceed.
Ascending(S) == [i \in 1 .. Cardinality(S) |->
                   CHOOSE n \in S : Cardinality({m \in S : m <= n}) = i]

\* What is appended of a batch: a point not beyond the last counter is ignored.
Accepted(batch, last) ==
  Ascending({n \in batch : n > last /\ \A m \in batch : InOrder(m, n) => m < n})

\* A hash stands for the contents it is made of: those of every point so far.
PointHash(prev, n) == Append(prev, n)

\* The hash after the points of a sequence, each made of the one before.
Chain(prev, new) == prev \o new

NewPoints(s, new) ==
  {[seq |-> shift[s].count + i, n |-> new[i],
    hash |-> Chain(shift[s].head, SubSeq(new, 1, i))] : i \in 1 .. Len(new)}

\* Mutant: the app's counter is not kept.
AppendPointsForgetful(r) ==
  /\ At(r, "append")
  /\ LET s == req[r].s  new == Accepted(req[r].batch, shift[s].lastN)
     IN  IF ~Stored(s) THEN Finish(r) /\ UNCHANGED <<shift, trail>>
         ELSE \E fresh \in BOOLEAN :
           /\ trail' = [trail EXCEPT ![s] = @ \cup NewPoints(s, new)]
           /\ shift' = [shift EXCEPT ![s].count = @ + Len(new),
                                     ![s].head = Chain(@, new),
                                     ![s].quiet = @ /\ (new = <<>> \/ ~fresh)]
           /\ req' = [req EXCEPT ![r].at = "reply", ![r].upto = shift'[s].lastN]
  /\ UNCHANGED <<profile, located, acked, edited>>

\* One transaction, with the shift's row locked.
AppendPoints(r) ==
  /\ At(r, "append")
  /\ LET s == req[r].s  new == Accepted(req[r].batch, shift[s].lastN)
     IN  IF ~Stored(s) THEN Finish(r) /\ UNCHANGED <<shift, trail>>
         ELSE \E fresh \in BOOLEAN :  \* recorded just now, or buffered for long
           /\ trail' = [trail EXCEPT ![s] = @ \cup NewPoints(s, new)]
           /\ shift' = [shift EXCEPT ![s].count = @ + Len(new),
                                     ![s].lastN = IF new = <<>> THEN @ ELSE new[Len(new)],
                                     ![s].head = Chain(@, new),
                                     ![s].quiet = @ /\ (new = <<>> \/ ~fresh)]
           /\ req' = [q \in Reqs |->
                IF q = r THEN [req[r] EXCEPT !.at = "reply", !.upto = shift'[s].lastN]
                ELSE IF req[q].s = s THEN [req[q] EXCEPT !.v.moved = @ \/ new # <<>>]
                ELSE req[q]]
  /\ UNCHANGED <<profile, located, acked, edited>>

\* last_client_seq: "app may discard everything up to and including this N".
Reply(r) ==
  /\ At(r, "reply")
  /\ \/ acked' = [acked EXCEPT ![req[r].s] = IF req[r].upto > @ THEN req[r].upto ELSE @]
     \/ UNCHANGED acked  \* the answer is lost
  /\ Finish(r)
  /\ UNCHANGED <<profile, located, shift, trail, edited>>

-----------------------------------------------------------------------------
(* Jobs *)

\* Mutant: a shift without points has no last_point_at and is never older.
StaleWithPoints == {s \in ShiftIds : /\ shift[s].status = "active" /\ shift[s].quiet
                                     /\ shift[s].count > 0}

StaleActiveShifts == {s \in ShiftIds : shift[s].status = "active" /\ shift[s].quiet}

StaleScan(r) ==
  /\ Start(r, "stale job")
  /\ StaleActiveShifts # {}
  /\ req' = [req EXCEPT ![r] = [ShiftIdle EXCEPT !.at = "close", !.todo = StaleActiveShifts]]
  /\ UNCHANGED <<profile, located, shift, trail, acked, edited>>

\* The shift ends at the last point that the scan saw.
CloseStale(r) ==
  \E s \in req[r].todo, age \in {"grace", "late"} :
    /\ At(r, "close")
    /\ EndShift(s, age)
    /\ IF req[r].todo = {s} THEN Finish(r) ELSE req' = [req EXCEPT ![r].todo = @ \ {s}]
    /\ UNCHANGED <<profile, located, trail, acked, edited>>

PurgeBefore(r) ==
  LET gone == {s \in ShiftIds : shift[s].status = "ended" /\ shift[s].closed = "late"}
  IN  /\ Start(r, "purge job")
      /\ gone # {}
      /\ trail' = [s \in ShiftIds |-> IF s \in gone THEN {} ELSE trail[s]]
      /\ shift' = [s \in ShiftIds |->
                     IF s \in gone THEN [NoShift EXCEPT !.status = "purged"] ELSE shift[s]]
      /\ req' = [q \in Reqs |-> [req[q] EXCEPT !.v.moved = @ \/ req[q].s \in gone]]
      /\ UNCHANGED <<profile, located, acked, edited>>

-----------------------------------------------------------------------------
(* ShiftDetail and VerifyShift; a batch of points is one point here *)

VerifyShift(r) ==
  \E s \in ShiftIds :
    /\ Start(r, "verify")
    /\ Stored(s)
    /\ req' = [req EXCEPT ![r] = [ShiftIdle EXCEPT !.at = "read", !.s = s,
                 !.v.count = shift[s].count, !.v.head = shift[s].head,
                 !.v.edited = s \in edited]]
    /\ UNCHANGED <<profile, located, shift, trail, acked, edited>>

VerifyPoint(r) ==
  /\ At(r, "read")
  /\ \E p \in trail[req[r].s] :
       /\ p.seq > req[r].v.after
       /\ \A q \in trail[req[r].s] : q.seq > req[r].v.after => p.seq <= q.seq
       /\ req' = [req EXCEPT
            ![r].v.found = @ + 1, ![r].v.after = p.seq, ![r].v.prev = p.hash,
            ![r].v.valid = @ /\ p.seq = req[r].v.after + 1
                             /\ p.hash = PointHash(req[r].v.prev, p.n)]
  /\ UNCHANGED <<profile, located, shift, trail, acked, edited>>

NoPointLeft(r) == \A p \in trail[req[r].s] : p.seq <= req[r].v.after

\* Mutant: the number of points is not compared.
HeadMatches(v) == v.valid /\ (v.found = 0 \/ v.prev = v.head)

Valid(v) == v.valid /\ v.found = v.count /\ (v.found = 0 \/ v.prev = v.head)

\* The verdict, Valid(req[r].v), is the answer to the admin.
VerifyEnd(r) ==
  /\ At(r, "read") /\ NoPointLeft(r)
  /\ Finish(r)
  /\ UNCHANGED <<profile, located, shift, trail, acked, edited>>

-----------------------------------------------------------------------------
(* Time, stops, and somebody with access to the database but not to the key *)

TimePasses ==
  /\ \E s \in ShiftIds :
       \/ shift[s].status = "active" /\ ~shift[s].quiet
          /\ shift' = [shift EXCEPT ![s].quiet = TRUE]
       \/ shift[s].closed = "grace" /\ shift' = [shift EXCEPT ![s].closed = "late"]
  /\ UNCHANGED <<profile, located, trail, acked, edited, req>>

EditPoint ==
  /\ Tampers /\ edited = {}  \* bound: one edit, after shiftLateFlushGrace
  /\ \E s \in ShiftIds : \E p \in trail[s] :
       /\ shift[s].closed = "late"
       /\ \/ trail' = [trail EXCEPT ![s] = @ \ {p}]
          \/ trail' = [trail EXCEPT ![s] = (@ \ {p}) \cup {[p EXCEPT !.n = 0]}]
       /\ edited' = edited \cup {s}
  /\ UNCHANGED <<profile, located, shift, acked, req>>

Abandon(r) ==
  /\ r \in Stops /\ req[r].at # "idle"
  /\ Finish(r)
  /\ UNCHANGED <<profile, located, shift, trail, acked, edited>>

Presence(r) ==
  \/ GoOnline(r) \/ LocateOnline(r) \/ SaveOnline(r) \/ ContinueShift(r)
  \/ RetireShifts(r) \/ OpenShift(r) \/ UndoOnline(r) \/ UndoLocate(r)
  \/ GoOffline(r) \/ UnlocateOffline(r) \/ SaveOffline(r)
  \/ FindActiveShift(r) \/ EndActiveShift(r) \/ PingLocation(r) \/ LocatePing(r)

Evidence(r) ==
  \/ SendBatch(r) \/ IngestLoad(r) \/ AppendPoints(r) \/ Reply(r)
  \/ VerifyShift(r) \/ VerifyPoint(r) \/ VerifyEnd(r)

Jobs(r) == StaleScan(r) \/ CloseStale(r) \/ PurgeBefore(r)

ShiftNext ==
  \/ \E r \in Reqs : Presence(r) \/ Evidence(r) \/ Jobs(r) \/ Abandon(r)
  \/ TimePasses \/ EditPoint

\* runEvery starts CloseStaleShifts again and again, and it goes through its rows.
ShiftSpec == /\ ShiftInit /\ [][ShiftNext]_shiftVars
             /\ \A r \in Reqs : WF_shiftVars(StaleScan(r)) /\ WF_shiftVars(CloseStale(r))

-----------------------------------------------------------------------------
(* Properties *)

\* The points of a shift nobody edited are numbered without a gap, keep the order
\* in which the app recorded them, none twice, and chain up to the shift's row
\* (AppendPoints, whatever requests overlap with it and however often a batch comes).
TrailSound ==
  \A s \in ShiftIds : Stored(s) /\ s \notin edited =>
    LET row == shift[s]
    IN  /\ Len(row.head) = row.count
        /\ trail[s] = {[seq |-> i, n |-> row.head[i], hash |-> SubSeq(row.head, 1, i)] :
                         i \in 1 .. row.count}
        /\ \A i \in 1 .. row.count - 1 : row.head[i] < row.head[i + 1]

\* A point that the app was told to discard is in the trail, as long as nobody
\* edited it and the shift is retained.
DiscardedIsStored ==
  \A s \in ShiftIds : Stored(s) /\ s \notin edited =>
    \A n \in 1 .. acked[s] : \E p \in trail[s] : p.n = n

\* "removing, inserting or editing any row breaks the chain" (models/tracking.go):
\* a verification begun after an edit says so, and one that finds something wrong in
\* a trail nobody edited read it while points were added or purged.
VerdictRight ==
  [][\A r \in Reqs : At(r, "read") /\ ~At(r, "read")' /\ NoPointLeft(r) =>
       IF Valid(req[r].v) THEN ~req[r].v.edited
       ELSE req[r].s \in edited \/ req[r].v.moved]_shiftVars

\* A shift without a sign is closed or gives a sign again (CloseStaleShifts), also
\* the shift that never had a point, and whatever became of its driver's app.
Silent(s) == shift[s].status = "active" /\ shift[s].quiet
StaleShiftsEnd == \A s \in ShiftIds : Silent(s) ~> ~Silent(s)
=============================================================================
