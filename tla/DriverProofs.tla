---------------------------- MODULE DriverProofs ----------------------------
(***************************************************************************)
(* What holds of the trail of a shift, of the access a driver paid for and *)
(* of ratings, for any number of drivers, shifts, points and requests.     *)
(***************************************************************************)
EXTENDS Drivers, FiniteSetTheorems, TLAPS

-----------------------------------------------------------------------------
(* Types of Shifts *)

Step   == {"idle", "locate", "save online", "find shift", "retire", "open",
           "undo online", "undo locate", "unlocate", "save offline", "find active",
           "end", "ping", "load", "append", "reply", "close", "read"}
Whom   == Drivers \cup {NoDriver}
Which  == ShiftIds \cup {0}
Some   == SUBSET ShiftIds
Points == SUBSET Nat

ProfileRow == [status : {"none", "pending", "approved", "rejected"},
               days : Nat, online : BOOLEAN, rated : Nat]

ShiftRow == [status : {"none", "active", "ended", "purged"},
             driver : Whom, quiet : BOOLEAN,
             closed : {"no", "grace", "late"},
             count : Nat, lastN : Nat, head : Seq(Nat)]

Point == [seq : Nat, n : Nat, hash : Seq(Nat)]

Verdict == [count : Nat, head : Seq(Nat), prev : Seq(Nat), after : Nat, found : Nat,
            valid : BOOLEAN, edited : BOOLEAN, moved : BOOLEAN]

ReqRow == [at : Step, d : Whom, row : ProfileRow, s : Which, batch : Points,
           upto : Nat, todo : Some, v : Verdict]

\* A slot that goes on for a driver has picked one.
Picked == {"locate", "save online", "find shift", "retire", "open", "undo online",
           "undo locate", "unlocate", "save offline", "find active", "ping"}

PresenceTypes ==
  /\ profile \in [Drivers -> ProfileRow]
  /\ shift \in [ShiftIds -> ShiftRow]
  /\ req \in [Reqs -> ReqRow]
  /\ \A r \in Reqs : req[r].at \in Picked => req[r].d \in Drivers

LEMMA IdleTypes ==
  /\ NoProfile \in ProfileRow /\ Working \in ProfileRow
  /\ NoShift \in ShiftRow /\ Reading \in Verdict /\ ShiftIdle \in ReqRow
  /\ ShiftIdle.at = "idle" /\ ShiftIdle.v = Reading /\ ShiftIdle.row = NoProfile
<1>1. <<>> \in Seq(Nat)
  OBVIOUS
<1>2. NoProfile \in ProfileRow
  BY DEF NoProfile, ProfileRow
<1>6. Working \in ProfileRow
  <2> DEFINE row == [NoProfile EXCEPT !.status = "approved"]
  <2>1. row \in ProfileRow
    BY <1>2 DEF ProfileRow
  <2> HIDE DEF row
  <2>2. [row EXCEPT !.days = 1] \in ProfileRow
    BY <2>1 DEF ProfileRow
  <2> QED
    BY <2>2 DEF Working, row
<1>3. NoShift \in ShiftRow
  BY <1>1 DEF NoShift, ShiftRow, Whom
<1>4. Reading \in Verdict
  BY <1>1 DEF Reading, Verdict
<1>5. ShiftIdle \in ReqRow
  <2>1. NoDriver \in Whom /\ 0 \in Which /\ {} \in Points /\ {} \in Some
    BY DEF Whom, Which, Points, Some
  <2>2. "idle" \in Step
    BY DEF Step
  <2> QED
    BY <1>2, <1>4, <2>1, <2>2 DEF ShiftIdle, ReqRow
<1> QED
  BY <1>2, <1>3, <1>4, <1>5, <1>6 DEF ShiftIdle

\* Only the row of slot r changes, to row.
Becomes(r, row) == req' = [req EXCEPT ![r] = row]

SlotOK(row) == row \in ReqRow /\ (row.at \in Picked => row.d \in Drivers)

LEMMA IdleSlot == SlotOK(ShiftIdle)
BY IdleTypes DEF SlotOK, Picked

LEMMA SlotTypes ==
  ASSUME PresenceTypes, NEW r \in Reqs
  PROVE  SlotOK(req[r])
BY DEF PresenceTypes, SlotOK

LEMMA StepSlot ==
  ASSUME PresenceTypes, NEW r \in Reqs, NEW step \in Step, Goto(r, step),
         step \in Picked => req[r].at \in Picked
  PROVE  /\ Becomes(r, [req[r] EXCEPT !.at = step])
         /\ SlotOK([req[r] EXCEPT !.at = step])
<1>1. SlotOK([req[r] EXCEPT !.at = step])
  BY SlotTypes DEF SlotOK, ReqRow
<1> QED
  BY <1>1 DEF Becomes, Goto, PresenceTypes

LEMMA TypesOneSlot ==
  ASSUME PresenceTypes, profile' \in [Drivers -> ProfileRow], shift' \in [ShiftIds -> ShiftRow],
         NEW r \in Reqs, NEW row, SlotOK(row), Becomes(r, row)
  PROVE  PresenceTypes'
<1>1. req' \in [Reqs -> ReqRow]
  BY DEF PresenceTypes, Becomes, SlotOK
<1>2. \A q \in Reqs : req'[q].at \in Picked => req'[q].d \in Drivers
  BY DEF PresenceTypes, Becomes, SlotOK
<1> QED
  BY <1>1, <1>2 DEF PresenceTypes

LEMMA TypesGoto ==
  ASSUME PresenceTypes, profile' \in [Drivers -> ProfileRow], shift' \in [ShiftIds -> ShiftRow],
         NEW r \in Reqs, NEW step \in Step, Goto(r, step),
         step \in Picked => req[r].at \in Picked
  PROVE  PresenceTypes'
BY StepSlot, TypesOneSlot

LEMMA TypesFinish ==
  ASSUME PresenceTypes, profile' \in [Drivers -> ProfileRow], shift' \in [ShiftIds -> ShiftRow],
         NEW r \in Reqs, Finish(r)
  PROVE  PresenceTypes'
BY IdleSlot, TypesOneSlot DEF Finish, Becomes

LEMMA SavedProfile ==
  ASSUME PresenceTypes, NEW d, NEW row \in ProfileRow, SaveProfile(d, row)
  PROVE  profile' \in [Drivers -> ProfileRow]
BY DEF PresenceTypes, SaveProfile

LEMMA EndedShift ==
  ASSUME PresenceTypes, NEW s \in Which, NEW age \in {"grace", "late"}, EndShift(s, age)
  PROVE  /\ shift' \in [ShiftIds -> ShiftRow]
         /\ \A t \in ShiftIds :
              \/ shift'[t] = shift[t]
              \/ /\ shift[t].status = "active"
                 /\ shift'[t] = [shift[t] EXCEPT !.status = "ended", !.closed = age]
<1> DEFINE ended(t) == [shift[t] EXCEPT !.status = "ended", !.closed = age]
<1>1. \A t \in ShiftIds : ended(t) \in ShiftRow
  <2> SUFFICES ASSUME NEW t \in ShiftIds PROVE ended(t) \in ShiftRow
    OBVIOUS
  <2>1. shift[t] \in ShiftRow
    BY DEF PresenceTypes
  <2> QED
    BY <2>1 DEF ShiftRow
<1>2. \/ shift' = shift
      \/ shift[s].status = "active" /\ shift' = [shift EXCEPT ![s] = ended(s)]
  BY DEF EndShift
<1> HIDE DEF ended
<1>3. \A t \in ShiftIds : \/ shift'[t] = shift[t]
                          \/ shift[t].status = "active" /\ shift'[t] = ended(t)
  BY <1>2 DEF PresenceTypes
<1>4. shift' \in [ShiftIds -> ShiftRow]
  BY <1>1, <1>2 DEF PresenceTypes
<1> QED
  BY <1>3, <1>4 DEF ended

LEMMA NewSlots ==
  ASSUME PresenceTypes, NEW d \in Drivers, NEW step \in Step, NEW row \in ProfileRow
  PROVE  /\ SlotOK([ShiftIdle EXCEPT !.at = step, !.d = d])
         /\ SlotOK([ShiftIdle EXCEPT !.at = step, !.d = d, !.row = row])
<1>1. d \in Whom
  BY DEF Whom
<1> QED
  BY <1>1, IdleTypes DEF SlotOK, ReqRow

LEMMA OnlineRow ==
  ASSUME PresenceTypes, NEW d \in Drivers, NEW on \in BOOLEAN
  PROVE  [profile[d] EXCEPT !.online = on] \in ProfileRow
<1>1. profile[d] \in ProfileRow
  BY DEF PresenceTypes
<1> QED
  BY <1>1 DEF ProfileRow

LEMMA OpenedTypes ==
  ASSUME PresenceTypes, NEW r \in Reqs, OpenShift(r)
  PROVE  shift' \in [ShiftIds -> ShiftRow]
<1>1. CASE shift' = shift
  BY <1>1 DEF PresenceTypes
<1>2. ASSUME NEW s \in ShiftIds, At(r, "open"),
             shift' = [t \in ShiftIds |->
               IF t = s THEN [NoShift EXCEPT !.status = "active", !.driver = req[r].d]
               ELSE IF t \in req[r].todo /\ shift[t].status = "active"
               THEN [shift[t] EXCEPT !.status = "ended", !.closed = "grace"] ELSE shift[t]]
      PROVE  shift' \in [ShiftIds -> ShiftRow]
  <2>1. req[r].d \in Whom
    BY <1>2 DEF PresenceTypes, At, Picked, Whom
  <2>2. [NoShift EXCEPT !.status = "active", !.driver = req[r].d] \in ShiftRow
    BY <2>1, IdleTypes DEF ShiftRow
  <2>3. ASSUME NEW t \in ShiftIds
        PROVE  /\ shift[t] \in ShiftRow
               /\ [shift[t] EXCEPT !.status = "ended", !.closed = "grace"] \in ShiftRow
    <3>1. shift[t] \in ShiftRow
      BY DEF PresenceTypes
    <3> QED
      BY <3>1 DEF ShiftRow
  <2> QED
    BY <1>2, <2>2, <2>3
<1> QED
  BY <1>1, <1>2 DEF OpenShift

LEMMA PresenceKeepsTypes ==
  ASSUME PresenceTypes, NEW r \in Reqs, Presence(r)
  PROVE  PresenceTypes'
<1>0. profile \in [Drivers -> ProfileRow] /\ shift \in [ShiftIds -> ShiftRow]
  BY DEF PresenceTypes
<1>1. CASE GoOnline(r)
  <2>1. PICK d \in Drivers :
          /\ UNCHANGED <<profile, shift>>
          /\ Becomes(r, [ShiftIdle EXCEPT !.at = "locate", !.d = d,
                                          !.row = [profile[d] EXCEPT !.online = TRUE]])
    BY <1>1 DEF GoOnline, Becomes
  <2> QED
    BY <1>0, <2>1, OnlineRow, NewSlots, TypesOneSlot DEF Step
<1>2. CASE GoOffline(r)
  <2>1. PICK d \in Drivers :
          /\ UNCHANGED <<profile, shift>>
          /\ Becomes(r, [ShiftIdle EXCEPT !.at = "unlocate", !.d = d,
                                          !.row = [profile[d] EXCEPT !.online = FALSE]])
    BY <1>2 DEF GoOffline, Becomes
  <2> QED
    BY <1>0, <2>1, OnlineRow, NewSlots, TypesOneSlot DEF Step
<1>3. CASE PingLocation(r)
  <2>1. PICK d \in Drivers : /\ UNCHANGED <<profile, shift>>
                             /\ Becomes(r, [ShiftIdle EXCEPT !.at = "ping", !.d = d])
    BY <1>3 DEF PingLocation, Becomes
  <2> QED
    BY <1>0, <2>1, IdleTypes, NewSlots, TypesOneSlot DEF Step
<1>4. CASE LocateOnline(r) \/ UnlocateOffline(r)
  BY <1>0, <1>4, TypesGoto DEF LocateOnline, UnlocateOffline, At, Picked, Step
<1>5. CASE SaveOnline(r) \/ SaveOffline(r)
  <2>1. req[r].row \in ProfileRow
    BY SlotTypes DEF SlotOK, ReqRow
  <2>2. profile' \in [Drivers -> ProfileRow]
    BY <1>5, <2>1, SavedProfile DEF SaveOnline, SaveOffline
  <2> QED
    BY <1>0, <1>5, <2>2, TypesGoto DEF SaveOnline, SaveOffline, At, Picked, Step
<1>6. CASE ContinueShift(r)
  <2>1. UNCHANGED <<profile, shift>> /\ At(r, "find shift") /\ (Finish(r) \/ Goto(r, "retire"))
    BY <1>6 DEF ContinueShift
  <2> QED
    BY <1>0, <2>1, TypesGoto, TypesFinish DEF At, Picked, Step
<1>7. CASE RetireShifts(r)
  <2> DEFINE row == [req[r] EXCEPT !.at = "open", !.todo = ActiveShifts(req[r].d)]
  <2>1. ActiveShifts(req[r].d) \in Some
    BY DEF ActiveShifts, Some
  <2>2. SlotOK(row)
    BY <1>7, <2>1, SlotTypes DEF RetireShifts, At, SlotOK, ReqRow, Step, Picked
  <2>3. Becomes(r, row) /\ UNCHANGED <<profile, shift>>
    BY <1>7 DEF RetireShifts, Becomes, PresenceTypes
  <2> QED
    BY <1>0, <2>2, <2>3, TypesOneSlot
<1>8. CASE OpenShift(r)
  <2>1. profile' = profile /\ At(r, "open") /\ (Finish(r) \/ Goto(r, "undo online"))
    BY <1>8 DEF OpenShift
  <2> QED
    BY <1>0, <1>8, <2>1, OpenedTypes, TypesGoto, TypesFinish DEF At, Picked, Step
<1>9. CASE UndoOnline(r)
  <2>1. [req[r].row EXCEPT !.online = FALSE] \in ProfileRow
    BY SlotTypes DEF SlotOK, ReqRow, ProfileRow
  <2>2. profile' \in [Drivers -> ProfileRow]
    BY <1>9, <2>1, SavedProfile DEF UndoOnline
  <2> QED
    BY <1>0, <1>9, <2>2, TypesGoto DEF UndoOnline, At, Picked, Step
<1>10. CASE UndoLocate(r) \/ LocatePing(r)
  BY <1>0, <1>10, TypesFinish DEF UndoLocate, LocatePing
<1>11. CASE FindActiveShift(r)
  <2>1. CASE Finish(r)
    BY <1>0, <1>11, <2>1, TypesFinish DEF FindActiveShift
  <2>2. CASE ~Finish(r)
    <3>1. PICK s \in Newest(ActiveShifts(req[r].d)) :
            req' = [req EXCEPT ![r].at = "end", ![r].s = s]
      BY <1>11, <2>2 DEF FindActiveShift
    <3> DEFINE row == [req[r] EXCEPT !.at = "end", !.s = s]
    <3>2. s \in Which
      BY DEF Newest, ActiveShifts, Which
    <3>3. SlotOK(row)
      BY <3>2, SlotTypes DEF SlotOK, ReqRow, Step, Picked
    <3>4. Becomes(r, row) /\ UNCHANGED <<profile, shift>>
      BY <1>11, <3>1 DEF FindActiveShift, Becomes, PresenceTypes
    <3> QED
      BY <1>0, <3>3, <3>4, TypesOneSlot
  <2> QED
    BY <2>1, <2>2
<1>12. CASE EndActiveShift(r)
  <2>1. req[r].s \in Which
    BY SlotTypes DEF SlotOK, ReqRow
  <2>2. shift' \in [ShiftIds -> ShiftRow]
    BY <1>12, <2>1, EndedShift DEF EndActiveShift
  <2> QED
    BY <1>0, <1>12, <2>2, TypesFinish DEF EndActiveShift
<1> QED
  BY <1>1, <1>2, <1>3, <1>4, <1>5, <1>6, <1>7, <1>8, <1>9, <1>10, <1>11, <1>12 DEF Presence

\* A slot whose reading was overtaken, if b.
Moved(row, b) == [row EXCEPT !.v.moved = b]

LEMMA MovedSlot ==
  ASSUME NEW row, SlotOK(row), NEW b \in BOOLEAN, NEW new, new = Moved(row, b)
  PROVE  /\ SlotOK(new)
         /\ new.at = row.at /\ new.s = row.s /\ new.batch = row.batch /\ new.upto = row.upto
         /\ new.v = [row.v EXCEPT !.moved = b]
<1> DEFINE verdict == [row.v EXCEPT !.moved = b]
<1>1. row \in ReqRow /\ row.v \in Verdict
  BY DEF SlotOK, ReqRow
<1>2. verdict \in Verdict
  BY <1>1 DEF Verdict
<1>3. new = [row EXCEPT !.v = verdict]
  BY <1>1 DEF ReqRow, Moved
<1> HIDE DEF verdict
<1>4. /\ new \in ReqRow
      /\ new.at = row.at /\ new.s = row.s /\ new.d = row.d
      /\ new.batch = row.batch /\ new.upto = row.upto /\ new.v = verdict
  BY <1>1, <1>2, <1>3 DEF ReqRow
<1> QED
  BY <1>4 DEF SlotOK, verdict

LEMMA AllSlots ==
  ASSUME PresenceTypes, profile' = profile, shift' \in [ShiftIds -> ShiftRow],
         req' \in [Reqs -> ReqRow], \A q \in Reqs : SlotOK(req'[q])
  PROVE  PresenceTypes'
<1>1. \A q \in Reqs : req'[q].at \in Picked => req'[q].d \in Drivers
  BY DEF SlotOK
<1>2. profile' \in [Drivers -> ProfileRow]
  BY DEF PresenceTypes
<1> QED
  BY <1>1, <1>2 DEF PresenceTypes

Gone == {s \in ShiftIds : shift[s].status = "ended" /\ shift[s].closed = "late"}

LEMMA PurgedSlots ==
  ASSUME PresenceTypes, NEW r, PurgeBefore(r)
  PROVE  /\ req' \in [Reqs -> ReqRow]
         /\ \A q \in Reqs :
              /\ SlotOK(req'[q])
              /\ req'[q].at = req[q].at /\ req'[q].s = req[q].s
              /\ req'[q].batch = req[q].batch /\ req'[q].upto = req[q].upto
              /\ req'[q].v = [req[q].v EXCEPT !.moved = req[q].v.moved \/ req[q].s \in Gone]
<1>1. req' = [q \in Reqs |-> [req[q] EXCEPT !.v.moved = @ \/ req[q].s \in Gone]]
  BY DEF PurgeBefore, Gone
<1>3. ASSUME NEW q \in Reqs
      PROVE  /\ SlotOK(req'[q])
             /\ req'[q].at = req[q].at /\ req'[q].s = req[q].s
             /\ req'[q].batch = req[q].batch /\ req'[q].upto = req[q].upto
             /\ req'[q].v = [req[q].v EXCEPT !.moved = req[q].v.moved \/ req[q].s \in Gone]
  <2>1. PICK b \in BOOLEAN : b = (req[q].v.moved \/ req[q].s \in Gone)
    OBVIOUS
  <2>2. req'[q] = Moved(req[q], b)
    <3>1. req'[q] = [req[q] EXCEPT !.v.moved = @ \/ req[q].s \in Gone]
      BY <1>1
    <3> QED
      BY <2>1, <3>1, Zenon DEF Moved
  <2>3. SlotOK(req[q])
    BY SlotTypes
  <2>4. /\ SlotOK(req'[q])
        /\ req'[q].at = req[q].at /\ req'[q].s = req[q].s
        /\ req'[q].batch = req[q].batch /\ req'[q].upto = req[q].upto
        /\ req'[q].v = [req[q].v EXCEPT !.moved = b]
    BY <2>2, <2>3, MovedSlot
  <2> QED
    BY <2>1, <2>4, Zenon
<1>4. req' \in [Reqs -> ReqRow]
  <2> DEFINE row(q) == [req[q] EXCEPT !.v.moved = @ \/ req[q].s \in Gone]
  <2>1. req' = [q \in Reqs |-> row(q)] /\ \A q \in Reqs : req'[q] = row(q)
    BY <1>1
  <2> HIDE DEF row
  <2>2. \A q \in Reqs : row(q) \in ReqRow
    BY <1>3, <2>1 DEF SlotOK
  <2> QED
    BY <2>1, <2>2
<1> QED
  BY <1>3, <1>4

LEMMA JobsKeepTypes ==
  ASSUME PresenceTypes, NEW r \in Reqs, Jobs(r)
  PROVE  PresenceTypes'
<1>0. profile \in [Drivers -> ProfileRow] /\ shift \in [ShiftIds -> ShiftRow]
  BY DEF PresenceTypes
<1>1. CASE StaleScan(r)
  <2> DEFINE row == [ShiftIdle EXCEPT !.at = "close", !.todo = StaleActiveShifts]
  <2>1. StaleActiveShifts \in Some
    BY DEF StaleActiveShifts, Some
  <2>2. SlotOK(row)
    BY <2>1, IdleTypes DEF SlotOK, ReqRow, Step, Picked
  <2>3. Becomes(r, row) /\ UNCHANGED <<profile, shift>>
    BY <1>1 DEF StaleScan, Becomes
  <2> QED
    BY <1>0, <2>2, <2>3, TypesOneSlot
<1>2. CASE CloseStale(r)
  <2>1. PICK s \in req[r].todo, age \in {"grace", "late"} :
          /\ At(r, "close") /\ EndShift(s, age) /\ profile' = profile
          /\ Finish(r) \/ req' = [req EXCEPT ![r].todo = @ \ {s}]
    BY <1>2 DEF CloseStale
  <2>2. SlotOK(req[r]) /\ req[r].todo \in Some
    BY SlotTypes DEF SlotOK, ReqRow
  <2>3. s \in Which
    BY <2>2 DEF Some, Which
  <2>4. shift' \in [ShiftIds -> ShiftRow]
    BY <2>1, <2>3, EndedShift
  <2>5. CASE Finish(r)
    BY <1>0, <2>1, <2>4, <2>5, TypesFinish
  <2>6. CASE req' = [req EXCEPT ![r].todo = @ \ {s}]
    <3> DEFINE row == [req[r] EXCEPT !.todo = @ \ {s}]
    <3>1. req[r].todo \ {s} \in Some
      BY <2>2 DEF Some
    <3>2. SlotOK(row)
      BY <2>1, <2>2, <3>1 DEF SlotOK, ReqRow, At, Picked
    <3>3. Becomes(r, row)
      BY <2>6 DEF Becomes
    <3> QED
      BY <1>0, <2>1, <2>4, <3>2, <3>3, TypesOneSlot
  <2> QED
    BY <2>1, <2>5, <2>6
<1>3. CASE PurgeBefore(r)
  <2>1. shift' = [s \in ShiftIds |->
                    IF s \in Gone THEN [NoShift EXCEPT !.status = "purged"] ELSE shift[s]]
    BY <1>3 DEF PurgeBefore, Gone
  <2>2. [NoShift EXCEPT !.status = "purged"] \in ShiftRow
    BY IdleTypes DEF ShiftRow
  <2>3. shift' \in [ShiftIds -> ShiftRow] /\ profile' = profile
    BY <1>0, <1>3, <2>1, <2>2 DEF PurgeBefore
  <2> QED
    BY <1>3, <2>3, PurgedSlots, AllSlots
<1> QED
  BY <1>1, <1>2, <1>3 DEF Jobs

-----------------------------------------------------------------------------
(* Batches: counters without a gap *)

Upto(c)     == [i \in 1 .. c |-> i]
Beyond(c, n) == [i \in 1 .. n |-> c + i]

LEMMA AscendingInterval ==
  ASSUME NEW a \in Nat, NEW b \in Nat, NEW n \in Nat, n = IF a < b THEN b - a ELSE 0
  PROVE  Ascending(a + 1 .. b) = Beyond(a, n)
<1> DEFINE S == a + 1 .. b
<1>1. Cardinality(S) = n
  BY FS_Interval
<1>2. ASSUME NEW m \in S PROVE Cardinality({k \in S : k <= m}) = m - a
  <2>1. {k \in S : k <= m} = a + 1 .. m
    OBVIOUS
  <2>2. m \in Int /\ a + 1 \in Int /\ m > a
    OBVIOUS
  <2>3. Cardinality(a + 1 .. m) = IF a + 1 > m THEN 0 ELSE m - (a + 1) + 1
    BY <2>2, FS_Interval
  <2> HIDE DEF S
  <2>4. Cardinality(a + 1 .. m) = m - a
    BY <2>2, <2>3
  <2> QED
    BY <2>1, <2>4
<1>3. ASSUME NEW i \in 1 .. n
      PROVE  (CHOOSE m \in S : Cardinality({k \in S : k <= m}) = i) = a + i
  <2>1. a + i \in S /\ \A m \in S : (m - a = i) <=> (m = a + i)
    OBVIOUS
  <2> HIDE DEF S
  <2>2. \A m \in S : Cardinality({k \in S : k <= m}) = i <=> m = a + i
    BY <1>2, <2>1
  <2> QED
    BY <2>1, <2>2
<1> HIDE DEF S
<1>4. Ascending(S) = [i \in 1 .. n |-> CHOOSE m \in S : Cardinality({k \in S : k <= m}) = i]
  BY <1>1 DEF Ascending
<1> QED
  BY <1>3, <1>4 DEF Beyond, S

LEMMA AcceptedBeyond ==
  ASSUME NEW from \in Nat, NEW to \in Nat, NEW last \in Nat, from <= last + 1,
         NEW n \in Nat, n = IF last < to THEN to - last ELSE 0
  PROVE  Accepted(from .. to, last) = Beyond(last, n)
<1>1. {k \in from .. to : k > last /\ \A m \in from .. to : InOrder(m, k) => m < k}
        = last + 1 .. to
  BY DEF InOrder
<1> QED
  BY <1>1, AscendingInterval DEF Accepted

LEMMA Counters ==
  ASSUME NEW c \in Nat, NEW n \in Nat
  PROVE  /\ Upto(c) \in Seq(Nat) /\ Len(Upto(c)) = c /\ \A i \in 1 .. c : Upto(c)[i] = i
         /\ Beyond(c, n) \in Seq(Nat) /\ Len(Beyond(c, n)) = n
         /\ \A i \in 1 .. n : Beyond(c, n)[i] = c + i
         /\ n = 0 <=> Beyond(c, n) = <<>>
<1>1. Upto(c) \in Seq(Nat) /\ Len(Upto(c)) = c /\ \A i \in 1 .. c : Upto(c)[i] = i
  BY DEF Upto
<1>2. /\ Beyond(c, n) \in Seq(Nat) /\ Len(Beyond(c, n)) = n
      /\ \A i \in 1 .. n : Beyond(c, n)[i] = c + i
  BY DEF Beyond
<1>3. n = 0 <=> Beyond(c, n) = <<>>
  BY <1>2
<1> QED
  BY <1>1, <1>2, <1>3

LEMMA Chained ==
  ASSUME NEW c \in Nat, NEW n \in Nat
  PROVE  /\ Chain(Upto(c), Beyond(c, n)) = Upto(c + n)
         /\ \A i \in 1 .. n : SubSeq(Beyond(c, n), 1, i) = Beyond(c, i)
         /\ \A i \in 1 .. c : SubSeq(Upto(c), 1, i) = Upto(i)
         /\ PointHash(Upto(c), c + 1) = Upto(c + 1)
<1>1. Chain(Upto(c), Beyond(c, n)) = Upto(c + n)
  BY Counters DEF Chain, Upto, Beyond
<1>2. \A i \in 1 .. n : SubSeq(Beyond(c, n), 1, i) = Beyond(c, i)
  BY Counters DEF Beyond
<1>3. \A i \in 1 .. c : SubSeq(Upto(c), 1, i) = Upto(i)
  BY Counters DEF Upto
<1>4. PointHash(Upto(c), c + 1) = Upto(c + 1)
  BY Counters DEF PointHash, Upto
<1> QED
  BY <1>1, <1>2, <1>3, <1>4

IsBeyond(new, c, n) ==
  /\ Len(new) = n /\ (n = 0 <=> new = <<>>) /\ \A i \in 1 .. n : new[i] = c + i
  /\ Chain(Upto(c), new) = Upto(c + n)
  /\ \A i \in 1 .. n : SubSeq(new, 1, i) = Beyond(c, i)

LEMMA BeyondSeq ==
  ASSUME NEW c \in Nat, NEW n \in Nat, NEW new, new = Beyond(c, n)
  PROVE  IsBeyond(new, c, n)
<1>1. Len(Beyond(c, n)) = n /\ \A i \in 1 .. n : Beyond(c, n)[i] = c + i
  BY Counters
<1>2. n = 0 <=> Beyond(c, n) = <<>>
  BY Counters
<1>3. Chain(Upto(c), Beyond(c, n)) = Upto(c + n)
  BY Chained
<1>4. \A i \in 1 .. n : SubSeq(Beyond(c, n), 1, i) = Beyond(c, i)
  BY Chained
<1> QED
  BY <1>1, <1>2, <1>3, <1>4 DEF IsBeyond

-----------------------------------------------------------------------------
(* The invariant of trails                                                  *)

Entry(i) == [seq |-> i, n |-> i, hash |-> Upto(i)]
Full(c)  == {Entry(i) : i \in 1 .. c}

\* An edit left the i-th point out, or with a content its hash is not of.
Broken(points, i) == \A p \in points : p.seq = i => p.n = 0 /\ p.hash = Upto(i)

\* A shift has every point the app recorded up to some counter.
RowOK(s) ==
  /\ shift[s].lastN = shift[s].count /\ shift[s].head = Upto(shift[s].count)
  /\ ~Stored(s) => shift[s].count = 0 /\ trail[s] = {}
  /\ shift[s].status = "none" => acked[s] = 0 /\ s \notin edited
  /\ Stored(s) => acked[s] <= shift[s].count
  /\ s \notin edited => trail[s] = Full(shift[s].count)
  /\ Stored(s) /\ s \in edited => \E i \in 1 .. shift[s].count : Broken(trail[s], i)

Begun(s) == s \in ShiftIds /\ shift[s].status # "none"

\* What the app sends begins where it was told to go on, or before.
SentOK(r) ==
  req[r].at \in {"load", "append"} =>
    /\ Begun(req[r].s)
    /\ \E from \in 1 .. acked[req[r].s] + 1 : \E to \in 0 .. MaxPoint[req[r].s] :
         req[r].batch = from .. to

RepliedOK(r) ==
  req[r].at = "reply" => /\ Begun(req[r].s)
                         /\ Stored(req[r].s) => req[r].upto <= shift[req[r].s].count

\* A check that nothing overtook agrees with the trail up to where it is.
Undisturbed(v, s) ==
  ~v.moved /\ s \notin edited =>
    /\ Stored(s) /\ v.count = shift[s].count /\ v.head = Upto(v.count)
    /\ v.valid /\ v.found = v.after /\ v.after <= v.count /\ v.prev = Upto(v.after)

\* A check begun after an edit does not get past the edited point.
Noticed(v, s) ==
  v.edited =>
    /\ s \in edited
    /\ \E i \in 1 .. v.count :
         /\ Broken(trail[s], i)
         /\ Stored(s) => i <= shift[s].count
         /\ v.valid => v.found = v.after /\ v.after < i

ReadOK(r) ==
  req[r].at = "read" => /\ Begun(req[r].s)
                        /\ Undisturbed(req[r].v, req[r].s) /\ Noticed(req[r].v, req[r].s)

TrailInv ==
  /\ PresenceTypes
  /\ trail \in [ShiftIds -> SUBSET Point] /\ acked \in [ShiftIds -> Nat]
  /\ edited \subseteq ShiftIds
  /\ \A s \in ShiftIds : RowOK(s)
  /\ \A r \in Reqs : SentOK(r) /\ RepliedOK(r) /\ ReadOK(r)

\* A step of a request about presence, or of time.
Kept(s) ==
  /\ shift'[s].count = shift[s].count /\ shift'[s].lastN = shift[s].lastN
  /\ shift'[s].head = shift[s].head
  /\ shift[s].status = "none" => shift'[s].status \in {"none", "active"}
  /\ shift[s].status # "none" => /\ shift'[s].status # "none"
                                 /\ Stored(s)' <=> Stored(s)

Trails == UNCHANGED <<trail, acked, edited>>

SlotGood(r) == SentOK(r) /\ RepliedOK(r) /\ ReadOK(r)

LEMMA KeptRows ==
  ASSUME TrailInv, Trails, NEW s \in ShiftIds, Kept(s)
  PROVE  RowOK(s)'
<1>1. RowOK(s)
  BY DEF TrailInv
<1>2. CASE shift[s].status = "none"
  <2>1. shift[s].count = 0 /\ trail[s] = {} /\ acked[s] = 0 /\ s \notin edited
    BY <1>1, <1>2 DEF RowOK, Stored
  <2> QED
    BY <1>1, <1>2, <2>1 DEF RowOK, Kept, Trails
<1>3. CASE shift[s].status # "none"
  <2>1. shift'[s].status # "none" /\ (Stored(s)' <=> Stored(s))
    BY <1>3 DEF Kept
  <2>2. shift'[s].count = shift[s].count /\ shift'[s].lastN = shift[s].lastN
        /\ shift'[s].head = shift[s].head
    BY DEF Kept
  <2> QED
    BY <1>1, <2>1, <2>2 DEF RowOK, Trails
<1> QED
  BY <1>2, <1>3

LEMMA KeptSlot ==
  ASSUME TrailInv, Trails, \A s \in ShiftIds : Kept(s), NEW r \in Reqs, req'[r] = req[r]
  PROVE  SlotGood(r)'
<1>1. SlotGood(r)
  BY DEF TrailInv, SlotGood
<1>2. SentOK(r)'
  BY <1>1 DEF SlotGood, SentOK, Begun, Kept, Trails
<1>3. RepliedOK(r)'
  BY <1>1 DEF SlotGood, RepliedOK, Begun, Kept, Trails
<1>4. ReadOK(r)'
  <2> DEFINE s == req[r].s
             v == req[r].v
  <2>1. SUFFICES ASSUME req[r].at = "read" PROVE (Begun(s) /\ Undisturbed(v, s) /\ Noticed(v, s))'
    BY DEF ReadOK
  <2>2. Begun(s) /\ Undisturbed(v, s) /\ Noticed(v, s)
    BY <1>1, <2>1 DEF SlotGood, ReadOK
  <2>3. /\ s \in ShiftIds /\ shift'[s].status # "none" /\ (Stored(s)' <=> Stored(s))
        /\ shift'[s].count = shift[s].count
    BY <2>2 DEF Begun, Kept
  <2> QED
    BY <2>2, <2>3 DEF Begun, Undisturbed, Noticed, Trails
<1> QED
  BY <1>2, <1>3, <1>4 DEF SlotGood

Watched == {"load", "append", "reply", "read"}

LEMMA CalmStep ==
  ASSUME TrailInv, PresenceTypes', Trails, \A s \in ShiftIds : Kept(s),
         NEW r \in Reqs, \A q \in Reqs : q # r => req'[q] = req[q], req'[r].at \notin Watched
  PROVE  TrailInv'
<1>1. \A s \in ShiftIds : RowOK(s)'
  BY KeptRows
<1>2. \A q \in Reqs : q # r => SlotGood(q)'
  BY KeptSlot
<1>3. SlotGood(r)'
  BY DEF SlotGood, SentOK, RepliedOK, ReadOK, Watched
<1>4. \A q \in Reqs : (SentOK(q) /\ RepliedOK(q) /\ ReadOK(q))'
  BY <1>2, <1>3 DEF SlotGood
<1> QED
  BY <1>1, <1>4 DEF TrailInv, Trails

LEMMA SameShifts ==
  ASSUME PresenceTypes, shift' = shift
  PROVE  \A s \in ShiftIds : Kept(s)
BY DEF Kept, Stored

LEMMA EndedKept ==
  ASSUME PresenceTypes, NEW s \in Which, NEW age \in {"grace", "late"}, EndShift(s, age)
  PROVE  \A t \in ShiftIds : Kept(t)
<1> SUFFICES ASSUME NEW t \in ShiftIds PROVE Kept(t)
  OBVIOUS
<1>1. shift[t] \in ShiftRow
  BY DEF PresenceTypes
<1>2. CASE shift'[t] = shift[t]
  BY <1>2 DEF Kept, Stored
<1>3. CASE /\ shift[t].status = "active"
           /\ shift'[t] = [shift[t] EXCEPT !.status = "ended", !.closed = age]
  BY <1>1, <1>3 DEF Kept, Stored, ShiftRow
<1> QED
  BY <1>2, <1>3, EndedShift

LEMMA OpenedKept ==
  ASSUME TrailInv, NEW r \in Reqs, OpenShift(r)
  PROVE  \A t \in ShiftIds : Kept(t)
<1>1. CASE shift' = shift
  BY <1>1, SameShifts DEF TrailInv
<1>2. ASSUME NEW s \in ShiftIds, shift[s].status = "none",
             shift' = [t \in ShiftIds |->
               IF t = s THEN [NoShift EXCEPT !.status = "active", !.driver = req[r].d]
               ELSE IF t \in req[r].todo /\ shift[t].status = "active"
               THEN [shift[t] EXCEPT !.status = "ended", !.closed = "grace"] ELSE shift[t]],
             NEW t \in ShiftIds
      PROVE  Kept(t)
  <2>1. shift[t] \in ShiftRow
    BY DEF TrailInv, PresenceTypes
  <2>2. CASE t = s
    <3>1. shift'[t] = [NoShift EXCEPT !.status = "active", !.driver = req[r].d]
      BY <1>2, <2>2
    <3>2. /\ shift'[t].status = "active" /\ shift'[t].count = 0 /\ shift'[t].lastN = 0
          /\ shift'[t].head = <<>>
      BY <3>1 DEF NoShift
    <3>3. shift[t].count = 0 /\ shift[t].lastN = 0 /\ shift[t].head = Upto(0)
      BY <1>2, <2>2 DEF TrailInv, RowOK, Stored
    <3>4. Upto(0) = <<>>
      BY Counters DEF Upto
    <3> QED
      BY <1>2, <2>2, <3>2, <3>3, <3>4 DEF Kept
  <2>3. CASE t # s /\ t \in req[r].todo /\ shift[t].status = "active"
    <3>1. shift'[t] = [shift[t] EXCEPT !.status = "ended", !.closed = "grace"]
      BY <1>2, <2>3
    <3> QED
      BY <2>1, <2>3, <3>1 DEF Kept, Stored, ShiftRow
  <2>4. CASE t # s /\ ~(t \in req[r].todo /\ shift[t].status = "active")
    <3>1. shift'[t] = shift[t]
      BY <1>2, <2>4
    <3> QED
      BY <3>1 DEF Kept, Stored
  <2> QED
    BY <2>2, <2>3, <2>4
<1> QED
  BY <1>1, <1>2 DEF OpenShift

LEMMA OtherSlots ==
  ASSUME PresenceTypes, NEW r \in Reqs,
         Finish(r) \/ (\E row : Becomes(r, row)) \/ (\E step \in Step : Goto(r, step))
  PROVE  \A q \in Reqs : q # r => req'[q] = req[q]
BY DEF Finish, Becomes, Goto, PresenceTypes

LEMMA ThisSlot ==
  ASSUME PresenceTypes, NEW r \in Reqs
  PROVE  /\ \A row : Becomes(r, row) => req'[r] = row
         /\ \A step \in Step : Goto(r, step) => req'[r].at = step
         /\ Finish(r) => req'[r].at = "idle"
<1>1. \A row : Becomes(r, row) => req'[r] = row
  BY DEF Becomes, PresenceTypes
<1>2. \A step \in Step : Goto(r, step) => req'[r].at = step
  BY <1>1, StepSlot, SlotTypes DEF Goto, PresenceTypes, ReqRow
<1>3. Finish(r) => req'[r].at = "idle"
  BY IdleTypes DEF Finish, PresenceTypes
<1> QED
  BY <1>1, <1>2, <1>3

\* A request about presence does not touch the evidence.
LEMMA PresenceTrails ==
  ASSUME TrailInv, NEW r \in Reqs, Presence(r)
  PROVE  TrailInv'
<1>0. PresenceTypes /\ PresenceTypes' /\ Trails
  BY PresenceKeepsTypes DEF TrailInv, Trails, Presence, GoOnline, LocateOnline, SaveOnline,
     ContinueShift, RetireShifts, OpenShift, UndoOnline, UndoLocate, GoOffline,
     UnlocateOffline, SaveOffline, FindActiveShift, EndActiveShift, PingLocation, LocatePing
<1>1. \A s \in ShiftIds : Kept(s)
  <2>1. CASE OpenShift(r)
    BY <2>1, OpenedKept
  <2>2. CASE EndActiveShift(r)
    BY <1>0, <2>2, SlotTypes, EndedKept DEF EndActiveShift, SlotOK, ReqRow
  <2>3. CASE ~OpenShift(r) /\ ~EndActiveShift(r)
    BY <1>0, <2>3, SameShifts DEF Presence, GoOnline, LocateOnline, SaveOnline,
       ContinueShift, RetireShifts, UndoOnline, UndoLocate, GoOffline,
       UnlocateOffline, SaveOffline, FindActiveShift, PingLocation, LocatePing
  <2> QED
    BY <2>1, <2>2, <2>3
<1>2. /\ \A q \in Reqs : q # r => req'[q] = req[q]
      /\ req'[r].at \notin Watched
  <2>1. CASE GoOnline(r) \/ GoOffline(r) \/ PingLocation(r)
    <3>1. \E row : Becomes(r, row) /\ row.at \notin Watched
      <4>1. CASE GoOnline(r)
        <5>1. PICK d \in Drivers : req' = [req EXCEPT ![r] =
                [ShiftIdle EXCEPT !.at = "locate", !.d = d,
                               !.row = [profile[d] EXCEPT !.online = TRUE]]]
          BY <4>1 DEF GoOnline
        <5> DEFINE row == [ShiftIdle EXCEPT !.at = "locate", !.d = d,
                               !.row = [profile[d] EXCEPT !.online = TRUE]]
        <5>2. row.at = "locate"
          BY IdleTypes DEF ReqRow
        <5>3. Becomes(r, row)
          BY <5>1 DEF Becomes
        <5> HIDE DEF row
        <5> QED
          BY <5>2, <5>3 DEF Watched
      <4>2. CASE GoOffline(r)
        <5>1. PICK d \in Drivers : req' = [req EXCEPT ![r] =
                [ShiftIdle EXCEPT !.at = "unlocate", !.d = d,
                               !.row = [profile[d] EXCEPT !.online = FALSE]]]
          BY <4>2 DEF GoOffline
        <5> DEFINE row == [ShiftIdle EXCEPT !.at = "unlocate", !.d = d,
                               !.row = [profile[d] EXCEPT !.online = FALSE]]
        <5>2. row.at = "unlocate"
          BY IdleTypes DEF ReqRow
        <5>3. Becomes(r, row)
          BY <5>1 DEF Becomes
        <5> HIDE DEF row
        <5> QED
          BY <5>2, <5>3 DEF Watched
      <4>3. CASE PingLocation(r)
        <5>1. PICK d \in Drivers : req' = [req EXCEPT ![r] =
                [ShiftIdle EXCEPT !.at = "ping", !.d = d]]
          BY <4>3 DEF PingLocation
        <5> DEFINE row == [ShiftIdle EXCEPT !.at = "ping", !.d = d]
        <5>2. row.at = "ping"
          BY IdleTypes DEF ReqRow
        <5>3. Becomes(r, row)
          BY <5>1 DEF Becomes
        <5> HIDE DEF row
        <5> QED
          BY <5>2, <5>3 DEF Watched
      <4> QED
        BY <2>1, <4>1, <4>2, <4>3
    <3> QED
      BY <1>0, <3>1, OtherSlots, ThisSlot
  <2>2. CASE \/ LocateOnline(r) \/ SaveOnline(r) \/ ContinueShift(r) \/ OpenShift(r)
             \/ UndoOnline(r) \/ UndoLocate(r) \/ UnlocateOffline(r) \/ SaveOffline(r)
             \/ EndActiveShift(r) \/ LocatePing(r)
    <3>1. \/ Finish(r)
          \/ \E step \in Step \ Watched : Goto(r, step)
      BY <2>2 DEF LocateOnline, SaveOnline, ContinueShift, OpenShift, UndoOnline, UndoLocate,
         UnlocateOffline, SaveOffline, EndActiveShift, LocatePing, Step, Watched
    <3> QED
      BY <1>0, <3>1, OtherSlots, ThisSlot DEF Watched
  <2>3. CASE RetireShifts(r) \/ FindActiveShift(r)
    <3>1. \/ Finish(r)
          \/ \E todo : req' = [req EXCEPT ![r].at = "open", ![r].todo = todo]
          \/ \E s : req' = [req EXCEPT ![r].at = "end", ![r].s = s]
      BY <2>3 DEF RetireShifts, FindActiveShift
    <3>2. req[r] \in ReqRow
      BY <1>0 DEF PresenceTypes
    <3> QED
      BY <1>0, <3>1, <3>2, OtherSlots, ThisSlot DEF PresenceTypes, ReqRow, Watched
  <2> QED
    BY <2>1, <2>2, <2>3 DEF Presence
<1> QED
  BY <1>0, <1>1, <1>2, CalmStep

LEMMA TrailsOneSlot ==
  ASSUME TrailInv, PresenceTypes', Trails, \A s \in ShiftIds : Kept(s), NEW r \in Reqs,
         \A q \in Reqs : q # r => req'[q] = req[q], SlotGood(r)'
  PROVE  TrailInv'
<1>1. \A s \in ShiftIds : RowOK(s)'
  BY KeptRows
<1>2. \A q \in Reqs : q # r => SlotGood(q)'
  BY KeptSlot
<1>4. \A q \in Reqs : (SentOK(q) /\ RepliedOK(q) /\ ReadOK(q))'
  BY <1>2 DEF SlotGood
<1> QED
  BY <1>1, <1>4 DEF TrailInv, Trails

LEMMA SendTrails ==
  ASSUME TrailInv, NEW r \in Reqs, SendBatch(r)
  PROVE  TrailInv'
<1>1. PICK s \in ShiftIds :
        /\ shift[s].status # "none"
        /\ \E from \in 1 .. acked[s] + 1 : \E to \in from .. MaxPoint[s] :
             req' = [req EXCEPT ![r] = [ShiftIdle EXCEPT !.at = "load", !.s = s,
                                                         !.batch = from .. to]]
  BY DEF SendBatch
<1>2. PICK from \in 1 .. acked[s] + 1 : \E to \in from .. MaxPoint[s] :
        req' = [req EXCEPT ![r] = [ShiftIdle EXCEPT !.at = "load", !.s = s, !.batch = from .. to]]
  BY <1>1
<1>2b. PICK to \in from .. MaxPoint[s] :
        req' = [req EXCEPT ![r] = [ShiftIdle EXCEPT !.at = "load", !.s = s, !.batch = from .. to]]
  BY <1>2
<1> DEFINE row == [ShiftIdle EXCEPT !.at = "load", !.s = s, !.batch = from .. to]
<1>3. acked[s] \in Nat /\ MaxPoint[s] \in Nat
  BY ShiftsAssumption DEF TrailInv
<1>4. from .. to \in Points /\ s \in Which /\ to \in 0 .. MaxPoint[s]
  BY <1>3 DEF Points, Which
<1>5. row \in ReqRow /\ row.at = "load" /\ row.s = s /\ row.batch = from .. to
  BY <1>4, IdleTypes DEF ReqRow, Step
<1>6. Becomes(r, row)
  BY <1>2b DEF Becomes
<1> HIDE DEF row
<1>7. PresenceTypes /\ profile' = profile /\ shift' = shift /\ Trails
  BY DEF TrailInv, SendBatch, Trails
<1>8. PresenceTypes' /\ \A t \in ShiftIds : Kept(t)
  BY <1>5, <1>6, <1>7, TypesOneSlot, SameShifts DEF PresenceTypes, SlotOK, Picked
<1>9. req'[r] = row /\ \A q \in Reqs : q # r => req'[q] = req[q]
  BY <1>6, <1>7, OtherSlots, ThisSlot
<1>10. SlotGood(r)'
  <2>1. SentOK(r)'
    <3>1. acked'[s] = acked[s] /\ shift'[s].status # "none"
      BY <1>1, <1>7 DEF Trails
    <3> QED
      BY <1>4, <1>5, <1>9, <3>1 DEF SentOK, Begun
  <2> QED
    BY <1>5, <1>9, <2>1 DEF SlotGood, RepliedOK, ReadOK
<1> QED
  BY <1>7, <1>8, <1>9, <1>10, TrailsOneSlot

LEMMA LoadTrails ==
  ASSUME TrailInv, NEW r \in Reqs, IngestLoad(r)
  PROVE  TrailInv'
<1>1. PresenceTypes /\ profile' = profile /\ shift' = shift /\ Trails
  BY DEF TrailInv, IngestLoad, Trails
<1>2. \A t \in ShiftIds : Kept(t)
  BY <1>1, SameShifts
<1>3. CASE Finish(r)
  <2>1. PresenceTypes'
    BY <1>1, <1>3, TypesFinish DEF PresenceTypes
  <2> QED
    BY <1>1, <1>2, <1>3, <2>1, OtherSlots, ThisSlot, CalmStep DEF Watched
<1>4. CASE Goto(r, "append") /\ At(r, "load")
  <2>1. PresenceTypes'
    BY <1>1, <1>4, TypesGoto DEF PresenceTypes, Picked, Step
  <2>2. req'[r] = [req[r] EXCEPT !.at = "append"] /\ \A q \in Reqs : q # r => req'[q] = req[q]
    BY <1>4 DEF Goto, TrailInv, PresenceTypes
  <2>3. req'[r].at = "append" /\ req'[r].s = req[r].s /\ req'[r].batch = req[r].batch
    BY <2>2 DEF TrailInv, PresenceTypes, ReqRow
  <2>4. SentOK(r)
    BY DEF TrailInv
  <2>5. SentOK(r)'
    BY <1>1, <1>4, <2>3, <2>4 DEF SentOK, Begun, At, Trails
  <2>6. SlotGood(r)'
    BY <2>3, <2>5 DEF SlotGood, RepliedOK, ReadOK
  <2> QED
    BY <1>1, <1>2, <2>1, <2>2, <2>6, TrailsOneSlot
<1> QED
  BY <1>3, <1>4 DEF IngestLoad

LEMMA ReplyTrails ==
  ASSUME TrailInv, NEW r \in Reqs, Reply(r)
  PROVE  TrailInv'
<1> DEFINE s == req[r].s
<1>1. PresenceTypes /\ profile' = profile /\ shift' = shift /\ trail' = trail /\ edited' = edited
      /\ Finish(r) /\ At(r, "reply")
  BY DEF TrailInv, Reply
<1>2. PresenceTypes'
  BY <1>1, TypesFinish DEF PresenceTypes
<1>3. s \in ShiftIds /\ shift[s].status # "none" /\ (Stored(s) => req[r].upto <= shift[s].count)
  BY <1>1 DEF TrailInv, RepliedOK, Begun, At
<1>4. req[r].upto \in Nat /\ acked \in [ShiftIds -> Nat]
  BY <1>1 DEF TrailInv, PresenceTypes, ReqRow
<1>5. /\ acked' \in [ShiftIds -> Nat]
      /\ \A t \in ShiftIds : acked[t] <= acked'[t]
      /\ \A t \in ShiftIds : t # s => acked'[t] = acked[t]
      /\ acked'[s] \in {acked[s], req[r].upto}
  BY <1>3, <1>4 DEF Reply
<1>6. ASSUME NEW t \in ShiftIds PROVE RowOK(t)'
  <2>1. RowOK(t)
    BY DEF TrailInv
  <2>2. CASE t # s
    BY <1>1, <1>5, <2>1, <2>2 DEF RowOK, Stored
  <2>3. CASE t = s
    <3>1. Stored(t) => acked'[t] <= shift[t].count
      BY <1>3, <1>5, <2>1, <2>3 DEF RowOK
    <3> QED
      BY <1>1, <1>3, <2>1, <2>3, <3>1 DEF RowOK, Stored
  <2> QED
    BY <2>2, <2>3
<1>7. \A q \in Reqs : q # r => req'[q] = req[q]
  BY <1>1, OtherSlots
<1>8. ASSUME NEW q \in Reqs PROVE (SentOK(q) /\ RepliedOK(q) /\ ReadOK(q))'
  <2>1. CASE q = r
    BY <1>1, <2>1, ThisSlot DEF SentOK, RepliedOK, ReadOK
  <2>2. CASE q # r
    <3>1. SentOK(q) /\ RepliedOK(q) /\ ReadOK(q) /\ req'[q] = req[q]
      BY <1>7, <2>2 DEF TrailInv
    <3>2. SentOK(q)'
      <4>1. SUFFICES ASSUME req[q].at \in {"load", "append"} PROVE SentOK(q)'
        BY <3>1 DEF SentOK
      <4>2. PICK from \in 1 .. acked[req[q].s] + 1, to \in 0 .. MaxPoint[req[q].s] :
              req[q].batch = from .. to
        BY <3>1, <4>1 DEF SentOK
      <4>3. req[q].s \in ShiftIds
        BY <3>1, <4>1 DEF SentOK, Begun
      <4>4. from \in 1 .. acked'[req[q].s] + 1
        BY <1>4, <1>5, <4>3
      <4> QED
        BY <1>1, <3>1, <4>1, <4>2, <4>4 DEF SentOK, Begun
    <3>3. RepliedOK(q)' /\ ReadOK(q)'
      BY <1>1, <3>1 DEF RepliedOK, ReadOK, Begun, Undisturbed, Noticed, Stored
    <3> QED
      BY <3>2, <3>3
  <2> QED
    BY <2>1, <2>2
<1> QED
  BY <1>1, <1>2, <1>5, <1>6, <1>8 DEF TrailInv

LEMMA VerifyTrails ==
  ASSUME TrailInv, NEW r \in Reqs, VerifyShift(r)
  PROVE  TrailInv'
<1>1. PICK s \in ShiftIds :
        /\ Stored(s)
        /\ req' = [req EXCEPT ![r] = [ShiftIdle EXCEPT !.at = "read", !.s = s,
                     !.v.count = shift[s].count, !.v.head = shift[s].head,
                     !.v.edited = s \in edited]]
  BY DEF VerifyShift
<1>2. PICK b \in BOOLEAN : b = (s \in edited)
  <2>1. (s \in edited) \in BOOLEAN
    OBVIOUS
  <2> QED
    BY <2>1, Zenon
<1> DEFINE v   == [Reading EXCEPT !.count = shift[s].count, !.head = shift[s].head, !.edited = b]
           row == [ShiftIdle EXCEPT !.at = "read", !.s = s, !.v = v]
<1>3. req' = [req EXCEPT ![r] = [ShiftIdle EXCEPT !.at = "read", !.s = s,
                !.v.count = shift[s].count, !.v.head = shift[s].head, !.v.edited = b]]
  <2> DEFINE next(edit) == [req EXCEPT ![r] = [ShiftIdle EXCEPT !.at = "read", !.s = s,
                !.v.count = shift[s].count, !.v.head = shift[s].head, !.v.edited = edit]]
  <2>1. req' = next(s \in edited)
    BY <1>1
  <2> HIDE DEF next
  <2>2. req' = next(b)
    BY <1>2, <2>1
  <2> QED
    BY <2>2 DEF next
<1>4. Becomes(r, row)
  BY <1>3, IdleTypes DEF Becomes, ReqRow
<1>5. shift[s] \in ShiftRow /\ PresenceTypes /\ RowOK(s)
  BY DEF TrailInv, PresenceTypes
<1>6. /\ v \in Verdict /\ v.count = shift[s].count /\ v.head = shift[s].head /\ v.edited = b
      /\ v.prev = <<>> /\ v.after = 0 /\ v.found = 0 /\ v.valid
  BY <1>5, IdleTypes DEF Verdict, ShiftRow, Reading
<1> HIDE DEF v
<1>7. s \in Which
  BY DEF Which
<1>8. row \in ReqRow /\ row.at = "read" /\ row.s = s /\ row.v = v
  BY <1>6, <1>7, IdleTypes DEF ReqRow, Step
<1> HIDE DEF row
<1>9. profile' = profile /\ shift' = shift /\ Trails
  BY DEF VerifyShift, Trails
<1>10. PresenceTypes' /\ \A t \in ShiftIds : Kept(t)
  BY <1>4, <1>5, <1>8, <1>9, TypesOneSlot, SameShifts DEF PresenceTypes, SlotOK, Picked
<1>11. req'[r] = row /\ \A q \in Reqs : q # r => req'[q] = req[q]
  BY <1>4, <1>5, OtherSlots, ThisSlot
<1>12. Upto(0) = <<>>
  BY Counters DEF Upto
<1>13. Begun(s)
  BY <1>1 DEF Begun, Stored
<1>14. Undisturbed(v, s)
  <2>1. shift[s].count \in Nat /\ shift[s].head = Upto(shift[s].count)
    BY <1>5 DEF RowOK, ShiftRow
  <2> QED
    BY <1>1, <1>6, <1>12, <2>1 DEF Undisturbed
<1>15. Noticed(v, s)
  <2>1. SUFFICES ASSUME s \in edited PROVE Noticed(v, s)
    BY <1>2, <1>6 DEF Noticed
  <2>2. PICK i \in 1 .. shift[s].count : Broken(trail[s], i)
    BY <1>1, <1>5, <2>1 DEF RowOK
  <2>3. i \in 1 .. v.count /\ i <= shift[s].count /\ v.found = v.after /\ v.after < i
    BY <1>6, <2>2
  <2> QED
    BY <2>1, <2>2, <2>3 DEF Noticed
<1>16. ReadOK(r)'
  BY <1>8, <1>9, <1>11, <1>13, <1>14, <1>15 DEF ReadOK, Begun, Undisturbed, Noticed, Stored, Trails
<1>17. SlotGood(r)'
  BY <1>8, <1>11, <1>16 DEF SlotGood, SentOK, RepliedOK
<1> QED
  BY <1>9, <1>10, <1>11, <1>17, TrailsOneSlot

\* What the check of a point does to the verdict so far.
LEMMA PointRead ==
  ASSUME TrailInv, NEW r \in Reqs, VerifyPoint(r)
  PROVE  \E p \in trail[req[r].s], v \in Verdict, b \in BOOLEAN :
           LET old == req[r].v
           IN  /\ p.seq > old.after
               /\ \A q \in trail[req[r].s] : q.seq > old.after => p.seq <= q.seq
               /\ b = (old.valid /\ p.seq = old.after + 1 /\ p.hash = PointHash(old.prev, p.n))
               /\ v = [old EXCEPT !.found = @ + 1, !.after = p.seq, !.prev = p.hash, !.valid = b]
               /\ Becomes(r, [req[r] EXCEPT !.v = v])
<1> DEFINE old == req[r].v
<1>1. PICK p \in trail[req[r].s] :
        /\ p.seq > old.after
        /\ \A q \in trail[req[r].s] : q.seq > old.after => p.seq <= q.seq
        /\ req' = [req EXCEPT
             ![r].v.found = @ + 1, ![r].v.after = p.seq, ![r].v.prev = p.hash,
             ![r].v.valid = @ /\ p.seq = req[r].v.after + 1
                              /\ p.hash = PointHash(req[r].v.prev, p.n)]
  BY DEF VerifyPoint
<1>2. PICK b \in BOOLEAN :
        b = (old.valid /\ p.seq = old.after + 1 /\ p.hash = PointHash(old.prev, p.n))
  OBVIOUS
<1>3. req' = [req EXCEPT ![r].v.found = @ + 1, ![r].v.after = p.seq, ![r].v.prev = p.hash,
                         ![r].v.valid = b]
  BY <1>1, <1>2, Zenon
<1> DEFINE v == [old EXCEPT !.found = @ + 1, !.after = p.seq, !.prev = p.hash, !.valid = b]
<1>4. req[r] \in ReqRow /\ old \in Verdict
  BY DEF TrailInv, PresenceTypes, ReqRow
<1>5. p \in Point
  BY DEF TrailInv, VerifyPoint, At, ReadOK, Begun
<1>6. v \in Verdict
  <2>1. p.seq \in Nat /\ p.hash \in Seq(Nat)
    BY <1>5 DEF Point
  <2>2. old \in Verdict /\ old.found + 1 \in Nat
    BY <1>4 DEF Verdict
  <2> HIDE DEF old
  <2>3. [old EXCEPT !.found = @ + 1, !.after = p.seq, !.prev = p.hash] \in Verdict
    BY <2>1, <2>2 DEF Verdict
  <2> QED
    BY <2>1, <2>2, <2>3 DEF Verdict
<1>7. Becomes(r, [req[r] EXCEPT !.v = v])
  <2> DEFINE row == [req[r] EXCEPT !.v.found = @ + 1, !.v.after = p.seq, !.v.prev = p.hash,
                                   !.v.valid = b]
  <2>1. req' = [req EXCEPT ![r] = row]
    BY <1>3 DEF TrailInv, PresenceTypes
  <2>2. row = [req[r] EXCEPT !.v = v]
    BY <1>4 DEF ReqRow
  <2> HIDE DEF row, v
  <2> QED
    BY <2>1, <2>2 DEF Becomes
<1>8. v = [old EXCEPT !.found = @ + 1, !.after = p.seq, !.prev = p.hash, !.valid = b]
  OBVIOUS
<1> HIDE DEF v
<1> QED
  BY <1>1, <1>2, <1>6, <1>7, <1>8

LEMMA NoChainToZero ==
  ASSUME NEW i \in Nat, i > 0, NEW prev \in Seq(Nat)
  PROVE  PointHash(prev, 0) # Upto(i)
<1> SUFFICES ASSUME PointHash(prev, 0) = Upto(i) PROVE FALSE
  OBVIOUS
<1>1. Len(PointHash(prev, 0)) = Len(prev) + 1 /\ PointHash(prev, 0)[Len(prev) + 1] = 0
  BY DEF PointHash
<1>2. Len(Upto(i)) = i /\ Upto(i)[i] = i
  BY DEF Upto
<1> QED
  BY <1>1, <1>2

LEMMA PointTrails ==
  ASSUME TrailInv, NEW r \in Reqs, VerifyPoint(r)
  PROVE  TrailInv'
<1> DEFINE old == req[r].v
           s   == req[r].s
<1>1. PICK p \in trail[s], v \in Verdict, b \in BOOLEAN :
        /\ p.seq > old.after
        /\ \A q \in trail[s] : q.seq > old.after => p.seq <= q.seq
        /\ b = (old.valid /\ p.seq = old.after + 1 /\ p.hash = PointHash(old.prev, p.n))
        /\ v = [old EXCEPT !.found = @ + 1, !.after = p.seq, !.prev = p.hash, !.valid = b]
        /\ Becomes(r, [req[r] EXCEPT !.v = v])
  <2> HIDE DEF s, old
  <2>1. s = req[r].s /\ old = req[r].v
    BY DEF s, old
  <2> QED
    BY <2>1, PointRead
<1>2. /\ PresenceTypes /\ profile' = profile /\ shift' = shift /\ Trails
      /\ req[r].at = "read" /\ req[r] \in ReqRow /\ old \in Verdict
  BY DEF TrailInv, VerifyPoint, Trails, At, PresenceTypes, ReqRow
<1>3. Begun(s) /\ Undisturbed(old, s) /\ Noticed(old, s) /\ s \in ShiftIds
  BY <1>2 DEF TrailInv, ReadOK, Begun
<1>4. /\ v.count = old.count /\ v.head = old.head /\ v.edited = old.edited /\ v.moved = old.moved
      /\ v.found = old.found + 1 /\ v.after = p.seq /\ v.prev = p.hash /\ v.valid = b
  BY <1>1, <1>2 DEF Verdict
<1>5. p \in Point /\ RowOK(s)
  BY <1>1, <1>3 DEF TrailInv
<1>6. Undisturbed(v, s)
  <2>1. SUFFICES ASSUME ~v.moved, s \notin edited
                 PROVE  /\ Stored(s) /\ v.count = shift[s].count /\ v.head = Upto(v.count)
                        /\ v.valid /\ v.found = v.after /\ v.after <= v.count
                        /\ v.prev = Upto(v.after)
    BY DEF Undisturbed
  <2>2. /\ Stored(s) /\ old.count = shift[s].count /\ old.head = Upto(old.count)
        /\ old.valid /\ old.found = old.after /\ old.after <= old.count
        /\ old.prev = Upto(old.after)
    BY <1>3, <1>4, <2>1 DEF Undisturbed
  <2>3. trail[s] = Full(old.count) /\ old.after \in Nat /\ old.count \in Nat
    BY <1>2, <1>5, <2>1, <2>2 DEF RowOK, Verdict
  <2>4. PICK j \in 1 .. old.count : p = Entry(j)
    BY <1>1, <2>3 DEF Full
  <2>5. p.seq = j /\ p.n = j /\ p.hash = Upto(j)
    BY <2>4 DEF Entry
  <2>6. old.after + 1 \in 1 .. old.count
    BY <1>1, <2>3, <2>5
  <2>7. Entry(old.after + 1) \in trail[s]
    BY <2>3, <2>6 DEF Full
  <2>8. Entry(old.after + 1).seq = old.after + 1
    BY DEF Entry
  <2>9. j = old.after + 1
    <3>1. Entry(old.after + 1).seq > old.after => p.seq <= Entry(old.after + 1).seq
      BY <1>1, <2>7
    <3>2. p.seq > old.after
      BY <1>1
    <3> QED
      BY <2>3, <2>5, <2>8, <3>1, <3>2
  <2>10. PointHash(Upto(old.after), old.after + 1) = Upto(old.after + 1)
    BY <2>3, Chained
  <2>11. b
    BY <1>1, <2>2, <2>5, <2>9, <2>10
  <2> QED
    BY <1>4, <2>2, <2>5, <2>6, <2>9, <2>11
<1>7. Noticed(v, s)
  <2>1. SUFFICES ASSUME old.edited PROVE Noticed(v, s)
    BY <1>4 DEF Noticed
  <2>2. s \in edited
    BY <1>3, <2>1 DEF Noticed
  <2>3. PICK i \in 1 .. old.count :
          /\ Broken(trail[s], i)
          /\ Stored(s) => i <= shift[s].count
          /\ old.valid => old.found = old.after /\ old.after < i
    BY <1>3, <2>1 DEF Noticed
  <2>4. b => v.found = v.after /\ v.after < i
    <3>1. SUFFICES ASSUME b PROVE v.found = v.after /\ v.after < i
      OBVIOUS
    <3>2. /\ old.valid /\ p.seq = old.after + 1 /\ p.hash = PointHash(old.prev, p.n)
          /\ old.found = old.after /\ old.after < i
      BY <1>1, <2>3, <3>1
    <3>3. old.after \in Nat /\ old.prev \in Seq(Nat) /\ old.count \in Nat
      BY <1>2 DEF Verdict
    <3>4. p.seq # i
      <4>1. SUFFICES ASSUME p.seq = i PROVE FALSE
        OBVIOUS
      <4>2. p.n = 0 /\ p.hash = Upto(i)
        BY <1>1, <2>3, <4>1 DEF Broken
      <4>3. i \in Nat /\ i > 0
        OBVIOUS
      <4> QED
        BY <3>2, <3>3, <4>2, <4>3, NoChainToZero
    <3> QED
      BY <1>4, <3>2, <3>3, <3>4
  <2> QED
    BY <1>4, <2>2, <2>3, <2>4 DEF Noticed
<1> DEFINE row == [req[r] EXCEPT !.v = v]
<1>8. row \in ReqRow /\ row.at = "read" /\ row.s = s /\ row.v = v
  BY <1>2 DEF ReqRow
<1>9. Becomes(r, row)
  BY <1>1
<1> HIDE DEF row
<1>10. PresenceTypes' /\ \A t \in ShiftIds : Kept(t)
  BY <1>2, <1>8, <1>9, TypesOneSlot, SameShifts DEF PresenceTypes, SlotOK, Picked
<1>11. req'[r] = row /\ \A q \in Reqs : q # r => req'[q] = req[q]
  BY <1>2, <1>9, OtherSlots, ThisSlot
<1> HIDE DEF old
<1>12. ReadOK(r)'
  <2>1. req'[r].at = "read" /\ req'[r].s = s /\ req'[r].v = v
    BY <1>8, <1>11
  <2> HIDE DEF s
  <2> QED
    BY <1>2, <1>3, <1>6, <1>7, <2>1 DEF ReadOK, Begun, Undisturbed, Noticed, Stored, Trails
<1>13. SlotGood(r)'
  BY <1>8, <1>11, <1>12 DEF SlotGood, SentOK, RepliedOK
<1> QED
  BY <1>2, <1>10, <1>11, <1>13, TrailsOneSlot

LEMMA FinishTrails ==
  ASSUME TrailInv, NEW r \in Reqs, Finish(r), profile' = profile, shift' = shift, Trails
  PROVE  TrailInv'
<1>1. PresenceTypes /\ PresenceTypes'
  BY TypesFinish DEF TrailInv, PresenceTypes
<1> QED
  BY <1>1, SameShifts, OtherSlots, ThisSlot, CalmStep DEF Watched

LEMMA TimeTrails ==
  ASSUME TrailInv, TimePasses
  PROVE  TrailInv'
<1>1. /\ PresenceTypes /\ shift \in [ShiftIds -> ShiftRow] /\ Trails
      /\ profile' = profile /\ req' = req
  BY DEF TrailInv, PresenceTypes, TimePasses, Trails
<1>2. PICK s \in ShiftIds :
        \/ /\ shift[s].status = "active"
           /\ shift' = [shift EXCEPT ![s].quiet = TRUE]
        \/ /\ shift[s].closed = "grace"
           /\ shift' = [shift EXCEPT ![s].closed = "late"]
  BY DEF TimePasses
<1> DEFINE quiet == [shift[s] EXCEPT !.quiet = TRUE]
           late  == [shift[s] EXCEPT !.closed = "late"]
<1>3. quiet \in ShiftRow /\ late \in ShiftRow
  BY <1>1 DEF ShiftRow
<1>4. /\ quiet.status = shift[s].status /\ late.status = shift[s].status
      /\ quiet.count = shift[s].count /\ late.count = shift[s].count
      /\ quiet.lastN = shift[s].lastN /\ late.lastN = shift[s].lastN
      /\ quiet.head = shift[s].head /\ late.head = shift[s].head
  BY <1>1 DEF ShiftRow
<1>5. shift' = [shift EXCEPT ![s] = quiet] \/ shift' = [shift EXCEPT ![s] = late]
  BY <1>2
<1> HIDE DEF quiet, late
<1>6. PresenceTypes'
  BY <1>1, <1>3, <1>5 DEF PresenceTypes
<1>7. \A t \in ShiftIds : Kept(t)
  BY <1>1, <1>4, <1>5 DEF Kept, Stored
<1>8. \A t \in ShiftIds : RowOK(t)'
  BY <1>1, <1>7, KeptRows
<1>9. \A q \in Reqs : (SentOK(q) /\ RepliedOK(q) /\ ReadOK(q))'
  BY <1>1, <1>7, KeptSlot DEF SlotGood
<1> QED
  BY <1>1, <1>6, <1>8, <1>9 DEF TrailInv, Trails

LEMMA EditTrails ==
  ASSUME TrailInv, EditPoint
  PROVE  TrailInv'
<1>1. /\ PresenceTypes /\ PresenceTypes'
      /\ edited = {} /\ shift' = shift /\ req' = req /\ acked' = acked
  BY DEF TrailInv, PresenceTypes, EditPoint
<1>2a. PICK s \in ShiftIds : \E p \in trail[s] :
        /\ \/ trail' = [trail EXCEPT ![s] = @ \ {p}]
           \/ trail' = [trail EXCEPT ![s] = (@ \ {p}) \cup {[p EXCEPT !.n = 0]}]
        /\ edited' = edited \cup {s}
  BY DEF EditPoint
<1>2. PICK p \in trail[s] :
        /\ \/ trail' = [trail EXCEPT ![s] = @ \ {p}]
           \/ trail' = [trail EXCEPT ![s] = (@ \ {p}) \cup {[p EXCEPT !.n = 0]}]
        /\ edited' = edited \cup {s}
  BY <1>2a
<1>3. RowOK(s) /\ trail \in [ShiftIds -> SUBSET Point] /\ shift[s] \in ShiftRow
  BY DEF TrailInv, PresenceTypes
<1>4. /\ Stored(s) /\ shift[s].status # "none" /\ trail[s] = Full(shift[s].count)
      /\ shift[s].count \in Nat
  BY <1>1, <1>2, <1>3 DEF RowOK, Stored, ShiftRow
<1>5. PICK i \in 1 .. shift[s].count : p = Entry(i)
  BY <1>2, <1>4 DEF Full
<1> DEFINE zero == [p EXCEPT !.n = 0]
<1>6. /\ p.seq = i /\ zero.seq = i /\ zero.n = 0 /\ zero.hash = Upto(i)
      /\ zero \in Point
  BY <1>2, <1>3, <1>5 DEF Entry, Point
<1>7. /\ trail'[s] = trail[s] \ {p} \/ trail'[s] = (trail[s] \ {p}) \cup {zero}
      /\ \A t \in ShiftIds : t # s => trail'[t] = trail[t]
      /\ trail' \in [ShiftIds -> SUBSET Point]
  BY <1>2, <1>3, <1>6
<1> HIDE DEF zero
<1>8. Broken(trail'[s], i)
  <2> SUFFICES ASSUME NEW q \in trail'[s], q.seq = i
               PROVE  q.n = 0 /\ q.hash = Upto(i)
    BY DEF Broken
  <2>1. CASE q = zero
    BY <1>6, <2>1
  <2>2. CASE q \in trail[s] \ {p}
    <3>1. PICK j \in 1 .. shift[s].count : q = Entry(j)
      BY <1>4, <2>2 DEF Full
    <3>2. q.seq = j
      BY <3>1 DEF Entry
    <3> QED
      BY <1>5, <2>2, <3>1, <3>2
  <2> QED
    BY <1>7, <2>1, <2>2
<1>9. edited' = {s}
  BY <1>1, <1>2
<1>10. ASSUME NEW t \in ShiftIds PROVE RowOK(t)'
  <2>1. CASE t = s
    BY <1>1, <1>3, <1>4, <1>5, <1>8, <1>9, <2>1 DEF RowOK, Stored
  <2>2. CASE t # s
    <3>1. RowOK(t)
      BY DEF TrailInv
    <3> QED
      BY <1>1, <1>7, <1>9, <2>2, <3>1 DEF RowOK, Stored
  <2> QED
    BY <2>1, <2>2
<1>11. ASSUME NEW q \in Reqs PROVE (SentOK(q) /\ RepliedOK(q) /\ ReadOK(q))'
  <2>1. SentOK(q) /\ RepliedOK(q) /\ ReadOK(q)
    BY DEF TrailInv
  <2>2. SentOK(q)' /\ RepliedOK(q)'
    BY <1>1, <2>1 DEF SentOK, RepliedOK, Begun, Stored
  <2>3. ReadOK(q)'
    BY <1>1, <1>9, <2>1 DEF ReadOK, Begun, Undisturbed, Noticed, Stored
  <2> QED
    BY <2>2, <2>3
<1> QED
  BY <1>1, <1>3, <1>7, <1>9, <1>10, <1>11 DEF TrailInv

LEMMA PurgeTrails ==
  ASSUME TrailInv, NEW r \in Reqs, PurgeBefore(r)
  PROVE  TrailInv'
<1>1. /\ trail' = [s \in ShiftIds |-> IF s \in Gone THEN {} ELSE trail[s]]
      /\ shift' = [s \in ShiftIds |->
                     IF s \in Gone THEN [NoShift EXCEPT !.status = "purged"] ELSE shift[s]]
      /\ acked' = acked /\ edited' = edited
  BY DEF PurgeBefore, Gone
<1>2. PresenceTypes /\ PresenceTypes' /\ trail \in [ShiftIds -> SUBSET Point]
  BY JobsKeepTypes DEF TrailInv, Jobs
<1>3. Upto(0) = <<>> /\ Full(0) = {}
  BY Counters DEF Upto, Full
<1>4. ASSUME NEW s \in ShiftIds, s \in Gone
      PROVE  /\ trail'[s] = {} /\ shift'[s].status = "purged" /\ ~Stored(s)'
             /\ shift'[s].count = 0 /\ shift'[s].lastN = 0 /\ shift'[s].head = <<>>
             /\ shift[s].status = "ended"
  BY <1>1, <1>4 DEF NoShift, Stored, Gone
<1>5. ASSUME NEW s \in ShiftIds, s \notin Gone
      PROVE  trail'[s] = trail[s] /\ shift'[s] = shift[s] /\ (Stored(s)' <=> Stored(s))
  BY <1>1, <1>5 DEF Stored
<1>6. ASSUME NEW s \in ShiftIds PROVE RowOK(s)'
  <2>1. RowOK(s)
    BY DEF TrailInv
  <2>2. CASE s \in Gone
    BY <1>1, <1>3, <1>4, <2>1, <2>2 DEF RowOK
  <2>3. CASE s \notin Gone
    BY <1>1, <1>5, <2>1, <2>3 DEF RowOK
  <2> QED
    BY <2>2, <2>3
<1>7. ASSUME NEW q \in Reqs PROVE (SentOK(q) /\ RepliedOK(q) /\ ReadOK(q))'
  <2>0. PICK s, v : s = req[q].s /\ v = req[q].v
    OBVIOUS
  <2>1. /\ SentOK(q) /\ RepliedOK(q) /\ ReadOK(q) /\ v \in Verdict
        /\ req'[q].at = req[q].at /\ req'[q].s = s /\ req'[q].batch = req[q].batch
        /\ req'[q].upto = req[q].upto
        /\ req'[q].v = [v EXCEPT !.moved = v.moved \/ s \in Gone]
    BY <1>2, <2>0, PurgedSlots DEF TrailInv, PresenceTypes, ReqRow
  <2>2. \A t \in ShiftIds : /\ shift[t].status # "none" => shift'[t].status # "none"
                            /\ Stored(t)' => Stored(t) /\ shift'[t].count = shift[t].count
    BY <1>4, <1>5
  <2>3. SentOK(q)' /\ RepliedOK(q)'
    BY <1>1, <2>0, <2>1, <2>2 DEF SentOK, RepliedOK, Begun
  <2>4. ReadOK(q)'
    <3>1. SUFFICES ASSUME req[q].at = "read" PROVE ReadOK(q)'
      BY <2>1 DEF ReadOK
    <3>2. Begun(s) /\ Undisturbed(v, s) /\ Noticed(v, s)
      BY <2>0, <2>1, <3>1 DEF ReadOK
    <3>3. PICK b \in BOOLEAN : b = (v.moved \/ s \in Gone)
      OBVIOUS
    <3>4. req'[q].v = [v EXCEPT !.moved = b]
      BY <2>1, <3>3, Zenon
    <3>4a. PICK new : new = req'[q].v
      OBVIOUS
    <3>5. /\ new.count = v.count /\ new.head = v.head /\ new.prev = v.prev
          /\ new.after = v.after /\ new.found = v.found /\ new.valid = v.valid
          /\ new.edited = v.edited /\ new.moved = b
      BY <2>1, <3>4, <3>4a DEF Verdict
    <3>6. Begun(s)'
      BY <2>2, <3>2 DEF Begun
    <3>7. Undisturbed(new, s)'
      <4>1. CASE s \in Gone
        BY <3>3, <3>5, <4>1 DEF Undisturbed
      <4>2. CASE s \notin Gone
        BY <1>1, <1>5, <3>2, <3>3, <3>5, <4>2 DEF Undisturbed, Begun
      <4> QED
        BY <4>1, <4>2
    <3>8. Noticed(new, s)'
      <4>1. CASE s \in Gone
        BY <1>1, <1>4, <3>2, <3>5, <4>1 DEF Noticed, Broken, Begun
      <4>2. CASE s \notin Gone
        BY <1>1, <1>5, <3>2, <3>5, <4>2 DEF Noticed, Begun
      <4> QED
        BY <4>1, <4>2
    <3> QED
      BY <2>0, <2>1, <3>6, <3>7, <3>8, <3>4a DEF ReadOK
  <2> QED
    BY <2>3, <2>4
<1>8. trail' \in [ShiftIds -> SUBSET Point]
  BY <1>1, <1>2
<1> QED
  BY <1>1, <1>2, <1>6, <1>7, <1>8 DEF TrailInv

LEMMA NextPoints ==
  ASSUME TrailInv, NEW s \in ShiftIds, Stored(s), NEW n \in Nat, NEW new,
         new = Beyond(shift[s].count, n)
  PROVE  /\ NewPoints(s, new) = {Entry(shift[s].count + i) : i \in 1 .. n}
         /\ \A i \in 1 .. n : Entry(shift[s].count + i) \in Point
<1>1. PICK c \in Nat : c = shift[s].count /\ shift[s].head = Upto(c)
  BY DEF TrailInv, RowOK, PresenceTypes, ShiftRow
<1>2. /\ Len(new) = n /\ \A i \in 1 .. n : new[i] = c + i
      /\ \A i \in 1 .. n : SubSeq(new, 1, i) = Beyond(c, i)
  <2>1. new = Beyond(c, n)
    BY <1>1
  <2>2. IsBeyond(new, c, n)
    BY <2>1, BeyondSeq
  <2> QED
    BY <2>2 DEF IsBeyond
<1>3. ASSUME NEW i \in 1 .. n
      PROVE  Chain(Upto(c), SubSeq(new, 1, i)) = Upto(c + i)
  <2>1. SubSeq(new, 1, i) = Beyond(c, i)
    BY <1>2
  <2>2. i \in Nat
    OBVIOUS
  <2>3. Chain(Upto(c), Beyond(c, i)) = Upto(c + i)
    BY <2>2, Chained
  <2> QED
    BY <2>1, <2>3
<1>4. \A i \in 1 .. n : [seq |-> c + i, n |-> new[i],
                         hash |-> Chain(shift[s].head, SubSeq(new, 1, i))] = Entry(c + i)
  BY <1>1, <1>2, <1>3 DEF Entry
<1>5. NewPoints(s, new) = {Entry(c + i) : i \in 1 .. n}
  BY <1>1, <1>2, <1>4 DEF NewPoints
<1>6. ASSUME NEW i \in 1 .. n PROVE Entry(c + i) \in Point
  <2>1. c + i \in Nat
    OBVIOUS
  <2>2. Upto(c + i) \in Seq(Nat)
    BY <2>1, Counters
  <2> QED
    BY <2>1, <2>2 DEF Entry, Point
<1> QED
  BY <1>1, <1>5, <1>6

\* What a batch adds to a shift: the next points, n of them.
LEMMA AppendedRow ==
  ASSUME TrailInv, NEW r \in Reqs, AppendPoints(r), Stored(req[r].s)
  PROVE  \E s \in ShiftIds, c \in Nat, n \in Nat :
           /\ s = req[r].s /\ Stored(s) /\ c = shift[s].count
           /\ trail' = [trail EXCEPT ![s] = @ \cup {Entry(c + i) : i \in 1 .. n}]
           /\ \E row \in ShiftRow :
                /\ shift' = [shift EXCEPT ![s] = row]
                /\ row.status = shift[s].status /\ row.count = c + n /\ row.lastN = c + n
                /\ row.head = Upto(c + n)
           /\ req' = [q \in Reqs |->
                IF q = r THEN [req[r] EXCEPT !.at = "reply", !.upto = shift'[s].lastN]
                ELSE IF req[q].s = s THEN [req[q] EXCEPT !.v.moved = @ \/ n # 0]
                ELSE req[q]]
<1>1. PICK s \in ShiftIds : s = req[r].s
  BY DEF TrailInv, SentOK, AppendPoints, At, Begun
<1>2. PICK c \in Nat :
        /\ Stored(s) /\ shift \in [ShiftIds -> ShiftRow] /\ shift[s] \in ShiftRow
        /\ c = shift[s].count /\ shift[s].lastN = c
        /\ shift[s].head = Upto(c) /\ acked[s] \in Nat /\ acked[s] <= c
  BY <1>1 DEF TrailInv, RowOK, PresenceTypes, ShiftRow
<1>3. PICK from \in 1 .. acked[s] + 1, to \in 0 .. MaxPoint[s] : req[r].batch = from .. to
  BY <1>1 DEF TrailInv, SentOK, AppendPoints, At
<1>4. MaxPoint[s] \in Nat
  BY ShiftsAssumption
<1>5. from \in Nat /\ to \in Nat /\ from <= c + 1
  BY <1>2, <1>3, <1>4
<1>6. PICK n \in Nat : n = IF c < to THEN to - c ELSE 0
  BY <1>5
<1>7. PICK new : new = Accepted(req[r].batch, shift[s].lastN)
  OBVIOUS
<1>8. new = Beyond(c, n)
  BY <1>2, <1>3, <1>5, <1>6, <1>7, AcceptedBeyond
<1>9. PICK fresh \in BOOLEAN :
        /\ trail' = [trail EXCEPT ![s] = @ \cup NewPoints(s, new)]
        /\ shift' = [shift EXCEPT ![s].count = @ + Len(new),
                                  ![s].lastN = IF new = <<>> THEN @ ELSE new[Len(new)],
                                  ![s].head = Chain(@, new),
                                  ![s].quiet = @ /\ (new = <<>> \/ ~fresh)]
        /\ req' = [q \in Reqs |->
             IF q = r THEN [req[r] EXCEPT !.at = "reply", !.upto = shift'[s].lastN]
             ELSE IF req[q].s = s THEN [req[q] EXCEPT !.v.moved = @ \/ new # <<>>]
             ELSE req[q]]
  BY <1>1, <1>7 DEF AppendPoints
<1>10. /\ Len(new) = n /\ (n = 0 <=> new = <<>>) /\ Chain(shift[s].head, new) = Upto(c + n)
       /\ n > 0 => new[Len(new)] = c + n
  <2>4. IsBeyond(new, c, n)
    BY <1>8, BeyondSeq
  <2>1. Len(new) = n /\ (n = 0 <=> new = <<>>) /\ \A i \in 1 .. n : new[i] = c + i
    BY <2>4 DEF IsBeyond
  <2>2. Chain(Upto(c), new) = Upto(c + n)
    BY <2>4 DEF IsBeyond
  <2>3. n > 0 => new[n] = c + n
    BY <2>1
  <2> QED
    BY <1>2, <2>1, <2>2, <2>3
<1>11. trail' = [trail EXCEPT ![s] = @ \cup {Entry(c + i) : i \in 1 .. n}]
  <2>1. new = Beyond(shift[s].count, n)
    BY <1>2, <1>8
  <2>2. NewPoints(s, new) = {Entry(shift[s].count + i) : i \in 1 .. n}
    BY <1>2, <2>1, NextPoints
  <2>3. NewPoints(s, new) = {Entry(c + i) : i \in 1 .. n}
    BY <1>2, <2>2
  <2> QED
    BY <1>9, <2>3
<1>12. PICK b \in BOOLEAN : b = (shift[s].quiet /\ (new = <<>> \/ ~fresh))
  OBVIOUS
<1> DEFINE row == [shift[s] EXCEPT !.count = c + n, !.lastN = c + n, !.head = Upto(c + n),
                                   !.quiet = b]
<1>13. row \in ShiftRow /\ row.status = shift[s].status /\ row.count = c + n
       /\ row.lastN = c + n /\ row.head = Upto(c + n)
  <2>1. Upto(c + n) \in Seq(Nat) /\ c + n \in Nat
    BY Counters
  <2> QED
    BY <1>2, <2>1 DEF ShiftRow
<1>14. shift' = [shift EXCEPT ![s] = row]
  <2>1. shift' = [shift EXCEPT ![s] = [shift[s] EXCEPT
                    !.count = shift[s].count + Len(new),
                    !.lastN = IF new = <<>> THEN shift[s].lastN ELSE new[Len(new)],
                    !.head = Chain(shift[s].head, new),
                    !.quiet = shift[s].quiet /\ (new = <<>> \/ ~fresh)]]
    BY <1>9
  <2>2. /\ shift[s].count + Len(new) = c + n
        /\ (IF new = <<>> THEN shift[s].lastN ELSE new[Len(new)]) = c + n
    BY <1>2, <1>10
  <2>3. shift' = [shift EXCEPT ![s] = [shift[s] EXCEPT
                    !.count = c + n, !.lastN = c + n, !.head = Upto(c + n),
                    !.quiet = shift[s].quiet /\ (new = <<>> \/ ~fresh)]]
    BY <2>1, <2>2, <1>10
  <2> DEFINE next(q) == [shift EXCEPT ![s] = [shift[s] EXCEPT
                           !.count = c + n, !.lastN = c + n, !.head = Upto(c + n), !.quiet = q]]
  <2>4. shift' = next(shift[s].quiet /\ (new = <<>> \/ ~fresh))
    BY <2>3
  <2> HIDE DEF next
  <2>5. shift' = next(b)
    BY <1>12, <2>4
  <2> QED
    BY <2>5 DEF next
<1>15. req' = [q \in Reqs |->
         IF q = r THEN [req[r] EXCEPT !.at = "reply", !.upto = shift'[s].lastN]
         ELSE IF req[q].s = s THEN [req[q] EXCEPT !.v.moved = @ \/ n # 0]
         ELSE req[q]]
  <2> DEFINE next(some) == [q \in Reqs |->
         IF q = r THEN [req[r] EXCEPT !.at = "reply", !.upto = shift'[s].lastN]
         ELSE IF req[q].s = s THEN [req[q] EXCEPT !.v.moved = @ \/ some]
         ELSE req[q]]
  <2>1. req' = next(new # <<>>)
    BY <1>9
  <2>2. (n # 0) = (new # <<>>)
    BY <1>10
  <2> HIDE DEF next
  <2>3. req' = next(n # 0)
    BY <2>1, <2>2
  <2> QED
    BY <2>3 DEF next
<1> HIDE DEF row
<1>16. /\ s = req[r].s /\ Stored(s) /\ c = shift[s].count
       /\ \E some \in ShiftRow :
            /\ shift' = [shift EXCEPT ![s] = some]
            /\ some.status = shift[s].status /\ some.count = c + n /\ some.lastN = c + n
            /\ some.head = Upto(c + n)
  BY <1>1, <1>2, <1>13, <1>14
<1> QED
  BY <1>11, <1>15, <1>16, Zenon

LEMMA AppendTrails ==
  ASSUME TrailInv, NEW r \in Reqs, AppendPoints(r)
  PROVE  TrailInv'
<1>0. profile' = profile /\ acked' = acked /\ edited' = edited
  BY DEF AppendPoints
<1>1. CASE ~Stored(req[r].s)
  <2>1. Finish(r) /\ UNCHANGED <<shift, trail>>
    BY <1>1 DEF AppendPoints
  <2> QED
    BY <1>0, <2>1, FinishTrails DEF Trails
<1>2. CASE Stored(req[r].s)
  <2>1. PICK s \in ShiftIds, c \in Nat, n \in Nat :
          /\ s = req[r].s /\ Stored(s) /\ c = shift[s].count
          /\ trail' = [trail EXCEPT ![s] = @ \cup {Entry(c + i) : i \in 1 .. n}]
          /\ \E row \in ShiftRow :
               /\ shift' = [shift EXCEPT ![s] = row]
               /\ row.status = shift[s].status /\ row.count = c + n /\ row.lastN = c + n
               /\ row.head = Upto(c + n)
          /\ req' = [q \in Reqs |->
               IF q = r THEN [req[r] EXCEPT !.at = "reply", !.upto = shift'[s].lastN]
               ELSE IF req[q].s = s THEN [req[q] EXCEPT !.v.moved = @ \/ n # 0]
               ELSE req[q]]
    BY <1>2, AppendedRow
  <2>2. PICK row \in ShiftRow :
          /\ shift' = [shift EXCEPT ![s] = row]
          /\ row.status = shift[s].status /\ row.count = c + n /\ row.lastN = c + n
          /\ row.head = Upto(c + n)
    BY <2>1
  <2>3. /\ PresenceTypes /\ trail \in [ShiftIds -> SUBSET Point]
        /\ shift \in [ShiftIds -> ShiftRow] /\ req \in [Reqs -> ReqRow]
        /\ acked \in [ShiftIds -> Nat] /\ RowOK(s)
    BY DEF TrailInv, PresenceTypes
  <2>4. /\ shift' \in [ShiftIds -> ShiftRow] /\ shift'[s] = row
        /\ \A t \in ShiftIds : t # s => shift'[t] = shift[t]
        /\ \A t \in ShiftIds : shift'[t].status = shift[t].status /\ (Stored(t)' <=> Stored(t))
    BY <2>2, <2>3 DEF Stored
  <2>5. PICK more : more = {Entry(c + i) : i \in 1 .. n}
    OBVIOUS
  <2>6. more \subseteq Point
    <3>1. \A i \in 1 .. n : Entry(c + i) \in Point
      BY <2>1, NextPoints
    <3> QED
      BY <2>5, <3>1
  <2>7. /\ trail' \in [ShiftIds -> SUBSET Point] /\ trail'[s] = trail[s] \cup more
        /\ \A t \in ShiftIds : t # s => trail'[t] = trail[t]
    BY <2>1, <2>3, <2>5, <2>6
  <2>8. Full(c) \cup more = Full(c + n)
    <3>1. \A x : x \in Full(c + n) <=> \E i \in 1 .. c + n : x = Entry(i)
      BY DEF Full
    <3>2. \A x : x \in Full(c) <=> \E i \in 1 .. c : x = Entry(i)
      BY DEF Full
    <3>3. \A x : x \in more <=> \E i \in 1 .. n : x = Entry(c + i)
      BY <2>5
    <3>4. \A i \in 1 .. c + n : i \in 1 .. c \/ (i - c \in 1 .. n /\ c + (i - c) = i)
      OBVIOUS
    <3>5. \A i \in 1 .. n : c + i \in 1 .. c + n
      OBVIOUS
    <3>6. \A i \in 1 .. c : i \in 1 .. c + n
      OBVIOUS
    <3>7. ASSUME NEW x \in Full(c + n) PROVE x \in Full(c) \cup more
      BY <3>1, <3>2, <3>3, <3>4
    <3>8. ASSUME NEW x \in Full(c) \cup more PROVE x \in Full(c + n)
      BY <3>1, <3>2, <3>3, <3>5, <3>6
    <3> QED
      BY <3>7, <3>8
  <2>9. ASSUME NEW i \in 1 .. c, Broken(trail[s], i) PROVE Broken(trail'[s], i)
    <3>1. \A p \in more : p.seq # i
      <4> SUFFICES ASSUME NEW k \in 1 .. n PROVE Entry(c + k).seq # i
        BY <2>5
      <4>1. Entry(c + k).seq = c + k
        BY DEF Entry
      <4> QED
        BY <4>1
    <3> QED
      BY <2>7, <2>9, <3>1 DEF Broken
  <2>10. ASSUME NEW t \in ShiftIds PROVE RowOK(t)'
    <3>1. CASE t # s
      <4>1. RowOK(t)
        BY DEF TrailInv
      <4> QED
        BY <1>0, <2>4, <2>7, <3>1, <4>1 DEF RowOK
    <3>2. CASE t = s
      <4>1. /\ shift'[s].count = c + n /\ shift'[s].lastN = c + n /\ shift'[s].head = Upto(c + n)
            /\ Stored(s) /\ Stored(s)' /\ shift[s].status # "none" /\ shift'[s].status # "none"
        BY <2>1, <2>2, <2>4 DEF Stored
      <4>2. acked'[s] <= c + n
        BY <1>0, <2>1, <2>3 DEF RowOK
      <4>3. s \notin edited => trail'[s] = Full(c + n)
        BY <2>1, <2>3, <2>7, <2>8 DEF RowOK
      <4>4. s \in edited => \E i \in 1 .. c + n : Broken(trail'[s], i)
        <5>1. s \in edited => \E i \in 1 .. c : Broken(trail[s], i)
          BY <2>1, <2>3 DEF RowOK
        <5>2. \A i \in 1 .. c : i \in 1 .. c + n
          OBVIOUS
        <5> QED
          BY <2>9, <5>1, <5>2
      <4> QED
        BY <1>0, <3>2, <4>1, <4>2, <4>3, <4>4 DEF RowOK
    <3> QED
      BY <3>1, <3>2
  <2>11. /\ req'[r].at = "reply" /\ req'[r].s = s /\ req'[r].upto = c + n /\ SlotOK(req'[r])
    <3>1. req'[r] = [req[r] EXCEPT !.at = "reply", !.upto = shift'[s].lastN]
      BY <2>1
    <3>2. shift'[s].lastN = c + n /\ c + n \in Nat
      BY <2>2, <2>4
    <3>3. req[r] \in ReqRow /\ req[r].s = s
      BY <2>1, <2>3
    <3> QED
      BY <3>1, <3>2, <3>3 DEF SlotOK, ReqRow, Step, Picked
  <2>12. ASSUME NEW q \in Reqs, q # r
         PROVE  \E v \in Verdict, b \in BOOLEAN :
                  /\ SlotOK(req'[q]) /\ req'[q].at = req[q].at /\ req'[q].s = req[q].s
                  /\ req'[q].batch = req[q].batch /\ req'[q].upto = req[q].upto
                  /\ v = req[q].v /\ req'[q].v = [v EXCEPT !.moved = b]
                  /\ (v.moved => b) /\ (req[q].s = s /\ n # 0 => b)
    <3>1. SlotOK(req[q]) /\ req[q].v \in Verdict
      BY <2>3, SlotTypes DEF SlotOK, ReqRow
    <3>2. CASE req[q].s = s
      <4>1. PICK b \in BOOLEAN : b = (req[q].v.moved \/ n # 0)
        OBVIOUS
      <4>2. req'[q] = Moved(req[q], b)
        <5>1. req'[q] = [req[q] EXCEPT !.v.moved = @ \/ n # 0]
          BY <2>1, <2>12, <3>2
        <5> QED
          BY <4>1, <5>1, Zenon DEF Moved
      <4>3. /\ SlotOK(req'[q])
            /\ req'[q].at = req[q].at /\ req'[q].s = req[q].s
            /\ req'[q].batch = req[q].batch /\ req'[q].upto = req[q].upto
            /\ req'[q].v = [req[q].v EXCEPT !.moved = b]
        BY <3>1, <4>2, MovedSlot
      <4> QED
        BY <3>1, <4>1, <4>3
    <3>3. CASE req[q].s # s
      <4>1. req'[q] = req[q]
        BY <2>1, <2>12, <3>3
      <4>2. req[q].v.moved \in BOOLEAN /\ req[q].v = [req[q].v EXCEPT !.moved = req[q].v.moved]
        BY <3>1 DEF Verdict
      <4> QED
        BY <3>1, <3>3, <4>1, <4>2
    <3> QED
      BY <3>2, <3>3
  <2>13. req' \in [Reqs -> ReqRow]
    <3> DEFINE next(q) == IF q = r THEN [req[r] EXCEPT !.at = "reply", !.upto = shift'[s].lastN]
                          ELSE IF req[q].s = s THEN [req[q] EXCEPT !.v.moved = @ \/ n # 0]
                          ELSE req[q]
    <3>1. req' = [q \in Reqs |-> next(q)] /\ \A q \in Reqs : req'[q] = next(q)
      BY <2>1
    <3> HIDE DEF next
    <3>2. \A q \in Reqs : req'[q] \in ReqRow
      BY <2>11, <2>12 DEF SlotOK
    <3> QED
      BY <3>1, <3>2
  <2>14. PresenceTypes'
    BY <1>0, <2>3, <2>4, <2>11, <2>12, <2>13, AllSlots
  <2>15. ASSUME NEW q \in Reqs PROVE (SentOK(q) /\ RepliedOK(q) /\ ReadOK(q))'
    <3>1. CASE q = r
      <4>1. RepliedOK(r)'
        BY <2>1, <2>2, <2>4, <2>11 DEF RepliedOK, Begun, Stored
      <4> QED
        BY <2>11, <3>1, <4>1 DEF SentOK, ReadOK
    <3>2. CASE q # r
      <4>1. PICK v \in Verdict, b \in BOOLEAN :
              /\ req'[q].at = req[q].at /\ req'[q].s = req[q].s
              /\ req'[q].batch = req[q].batch /\ req'[q].upto = req[q].upto
              /\ v = req[q].v /\ req'[q].v = [v EXCEPT !.moved = b]
              /\ (v.moved => b) /\ (req[q].s = s /\ n # 0 => b)
        BY <2>12, <3>2
      <4>2. SentOK(q) /\ RepliedOK(q) /\ ReadOK(q)
        BY DEF TrailInv
      <4>3. SentOK(q)'
        BY <1>0, <2>4, <4>1, <4>2 DEF SentOK, Begun
      <4>4. \A t \in ShiftIds : shift[t].count \in Nat /\ shift[t].count <= shift'[t].count
        BY <2>1, <2>2, <2>3, <2>4 DEF ShiftRow
      <4>5. RepliedOK(q)'
        <5>1. req[q].upto \in Nat
          BY <2>3 DEF ReqRow
        <5>2. \A t \in ShiftIds : shift'[t].count \in Nat
          BY <2>4 DEF ShiftRow
        <5> QED
          BY <2>4, <4>1, <4>2, <4>4, <5>1, <5>2 DEF RepliedOK, Begun
      <4>6. ReadOK(q)'
        <5>1. SUFFICES ASSUME req[q].at = "read" PROVE ReadOK(q)'
          BY <4>1 DEF ReadOK
        <5>2. PICK t \in ShiftIds : t = req[q].s
          BY <4>2, <5>1 DEF ReadOK, Begun
        <5>3. Begun(t) /\ Undisturbed(v, t) /\ Noticed(v, t)
          BY <4>1, <4>2, <5>1, <5>2 DEF ReadOK
        <5>4. PICK new : new = req'[q].v
          OBVIOUS
        <5>5. /\ new.count = v.count /\ new.head = v.head /\ new.prev = v.prev
              /\ new.after = v.after /\ new.found = v.found /\ new.valid = v.valid
              /\ new.edited = v.edited /\ new.moved = b
          BY <4>1, <5>4 DEF Verdict
        <5>6. Begun(t)'
          BY <2>4, <5>3 DEF Begun
        <5>7. Undisturbed(new, t)'
          <6>1. CASE t = s /\ n # 0
            BY <4>1, <5>2, <5>5, <6>1 DEF Undisturbed
          <6>2. CASE t # s \/ n = 0
            <7>1. shift'[t].count = shift[t].count
              BY <2>1, <2>2, <2>4, <6>2
            <7> QED
              BY <1>0, <2>4, <4>1, <5>3, <5>5, <7>1 DEF Undisturbed
          <6> QED
            BY <6>1, <6>2
        <5>8. Noticed(new, t)'
          <6>1. SUFFICES ASSUME v.edited PROVE Noticed(new, t)'
            BY <5>5 DEF Noticed
          <6>2. PICK i \in 1 .. v.count :
                  /\ Broken(trail[t], i)
                  /\ Stored(t) => i <= shift[t].count
                  /\ v.valid => v.found = v.after /\ v.after < i
            BY <5>3, <6>1 DEF Noticed
          <6>3. t \in edited'
            BY <1>0, <5>3, <6>1 DEF Noticed
          <6>4. Broken(trail'[t], i)
            <7>1. CASE t = s
              <8>1. i \in 1 .. c
                BY <2>1, <6>2, <7>1
              <8> QED
                BY <2>9, <6>2, <7>1, <8>1
            <7>2. CASE t # s
              BY <2>7, <6>2, <7>2
            <7> QED
              BY <7>1, <7>2
          <6>5. Stored(t)' => i <= shift'[t].count
            <7>1. shift'[t].count \in Nat /\ shift[t].count \in Nat
              BY <2>3, <2>4 DEF ShiftRow
            <7>2. v.count \in Nat
              BY DEF Verdict
            <7> QED
              BY <2>4, <4>4, <6>2, <7>1, <7>2
          <6> QED
            BY <5>5, <6>2, <6>3, <6>4, <6>5 DEF Noticed
        <5> QED
          BY <4>1, <5>2, <5>4, <5>6, <5>7, <5>8 DEF ReadOK
      <4> QED
        BY <4>3, <4>5, <4>6
    <3> QED
      BY <3>1, <3>2
  <2> QED
    BY <1>0, <2>3, <2>7, <2>10, <2>14, <2>15 DEF TrailInv
<1> QED
  BY <1>1, <1>2

LEMMA JobsTrails ==
  ASSUME TrailInv, NEW r \in Reqs, Jobs(r)
  PROVE  TrailInv'
<1>0. PresenceTypes /\ PresenceTypes'
  BY JobsKeepTypes DEF TrailInv
<1>1. CASE StaleScan(r)
  <2> DEFINE row == [ShiftIdle EXCEPT !.at = "close", !.todo = StaleActiveShifts]
  <2>1. row.at = "close"
    BY IdleTypes DEF ReqRow
  <2>2. Becomes(r, row) /\ shift' = shift /\ Trails
    BY <1>1 DEF StaleScan, Becomes, Trails
  <2> HIDE DEF row
  <2>3. req'[r].at \notin Watched /\ \A q \in Reqs : q # r => req'[q] = req[q]
    BY <1>0, <2>1, <2>2, OtherSlots, ThisSlot DEF Watched
  <2> QED
    BY <1>0, <2>2, <2>3, SameShifts, CalmStep
<1>2. CASE CloseStale(r)
  <2>1. PICK s \in req[r].todo, age \in {"grace", "late"} :
          /\ At(r, "close") /\ EndShift(s, age) /\ Trails
          /\ Finish(r) \/ req' = [req EXCEPT ![r].todo = @ \ {s}]
    BY <1>2 DEF CloseStale, Trails
  <2>2. req[r] \in ReqRow /\ s \in Which
    BY <1>0 DEF PresenceTypes, ReqRow, Some, Which
  <2>3. \A t \in ShiftIds : Kept(t)
    BY <1>0, <2>1, <2>2, EndedKept
  <2>4. req'[r].at \notin Watched /\ \A q \in Reqs : q # r => req'[q] = req[q]
    <3>1. CASE Finish(r)
      BY <1>0, <3>1, OtherSlots, ThisSlot DEF Watched
    <3>2. CASE req' = [req EXCEPT ![r].todo = @ \ {s}]
      BY <1>0, <2>1, <2>2, <3>2 DEF At, Watched, PresenceTypes, ReqRow
    <3> QED
      BY <2>1, <3>1, <3>2
  <2> QED
    BY <1>0, <2>1, <2>3, <2>4, CalmStep
<1> QED
  BY <1>1, <1>2, PurgeTrails DEF Jobs

LEMMA TrailsBegin == ShiftInit => TrailInv
<1> SUFFICES ASSUME ShiftInit PROVE TrailInv
  OBVIOUS
<1>1. PresenceTypes
  BY IdleTypes DEF ShiftInit, PresenceTypes, Picked
<1>2. trail \in [ShiftIds -> SUBSET Point] /\ acked \in [ShiftIds -> Nat] /\ edited = {}
  BY DEF ShiftInit
<1>3. Upto(0) = <<>> /\ Full(0) = {}
  BY DEF Upto, Full
<1>4. \A s \in ShiftIds : RowOK(s)
  BY <1>2, <1>3 DEF ShiftInit, RowOK, NoShift, Stored
<1>5. \A r \in Reqs : SentOK(r) /\ RepliedOK(r) /\ ReadOK(r)
  BY IdleTypes DEF ShiftInit, SentOK, RepliedOK, ReadOK
<1> QED
  BY <1>1, <1>2, <1>4, <1>5 DEF TrailInv

LEMMA TrailsNext ==
  ASSUME TrailInv, [ShiftNext]_shiftVars
  PROVE  TrailInv'
<1>1. ASSUME NEW r \in Reqs, Evidence(r)
      PROVE  TrailInv'
  <2>1. CASE VerifyEnd(r)
    BY <2>1, FinishTrails DEF VerifyEnd, Trails
  <2> QED
    BY <1>1, <2>1, SendTrails, LoadTrails, AppendTrails, ReplyTrails, VerifyTrails, PointTrails
       DEF Evidence
<1>2. ASSUME NEW r \in Reqs, Abandon(r)
      PROVE  TrailInv'
  BY <1>2, FinishTrails DEF Abandon, Trails
<1>3. CASE UNCHANGED shiftVars
  <2>1. PresenceTypes /\ PresenceTypes' /\ Trails /\ shift' = shift /\ req' = req
    BY <1>3 DEF TrailInv, PresenceTypes, shiftVars, Trails
  <2>2. \A s \in ShiftIds : Kept(s) /\ RowOK(s)'
    BY <2>1, SameShifts, KeptRows
  <2>3. \A r \in Reqs : (SentOK(r) /\ RepliedOK(r) /\ ReadOK(r))'
    BY <2>1, <2>2, KeptSlot DEF SlotGood
  <2> QED
    BY <2>1, <2>2, <2>3 DEF TrailInv, Trails
<1> QED
  BY <1>1, <1>2, <1>3, PresenceTrails, JobsTrails, TimeTrails, EditTrails DEF ShiftNext

\* What a reader may rely on in any state of the presence, evidence and jobs of any
\* number of drivers: the rows, the trails, the batches on their way and the checks fit
\* each other (tracking_service.go).
THEOREM TrailInvariant == ShiftSpec => []TrailInv
BY TrailsBegin, TrailsNext, PTL DEF ShiftSpec

\* The points of a shift nobody edited are numbered without a gap, in the order of the
\* app, none twice, and chain up to the shift's row, whatever overlaps, stops or comes
\* again (AppendPoints).
THEOREM TrailsSound == ShiftSpec => []TrailSound
<1>1. TrailInv => TrailSound
  <2> SUFFICES ASSUME TrailInv, NEW s \in ShiftIds, Stored(s), s \notin edited
               PROVE  /\ Len(shift[s].head) = shift[s].count
                      /\ trail[s] = {[seq |-> i, n |-> shift[s].head[i],
                                      hash |-> SubSeq(shift[s].head, 1, i)] :
                                       i \in 1 .. shift[s].count}
                      /\ \A i \in 1 .. shift[s].count - 1 :
                           shift[s].head[i] < shift[s].head[i + 1]
    BY DEF TrailSound
  <2>1. PICK c \in Nat : c = shift[s].count /\ shift[s].head = Upto(c) /\ trail[s] = Full(c)
    BY DEF TrailInv, RowOK, PresenceTypes, ShiftRow
  <2>2. Len(Upto(c)) = c /\ \A i \in 1 .. c : Upto(c)[i] = i
    BY DEF Upto
  <2>3. \A i \in 1 .. c : SubSeq(Upto(c), 1, i) = Upto(i)
    BY Chained
  <2>4. {[seq |-> i, n |-> Upto(c)[i], hash |-> SubSeq(Upto(c), 1, i)] : i \in 1 .. c} = Full(c)
    BY <2>2, <2>3 DEF Full, Entry
  <2>5. \A i \in 1 .. c - 1 : Upto(c)[i] < Upto(c)[i + 1]
    BY <2>2
  <2> QED
    BY <2>1, <2>2, <2>4, <2>5
<1> QED
  BY <1>1, TrailInvariant, PTL

\* A point that the app was told to discard is stored, for any number of shifts, batches
\* and points (Ingest, whose answer is last_client_seq).
THEOREM DiscardedStored == ShiftSpec => []DiscardedIsStored
<1>1. TrailInv => DiscardedIsStored
  <2> SUFFICES ASSUME TrailInv, NEW s \in ShiftIds, Stored(s), s \notin edited,
                      NEW n \in 1 .. acked[s]
               PROVE  \E p \in trail[s] : p.n = n
    BY DEF DiscardedIsStored
  <2>1. PICK c \in Nat : acked[s] \in Nat /\ acked[s] <= c /\ trail[s] = Full(c)
    BY DEF TrailInv, RowOK, PresenceTypes, ShiftRow
  <2>2. Entry(n) \in trail[s]
    BY <2>1 DEF Full
  <2>3. Entry(n).n = n
    BY DEF Entry
  <2> QED
    BY <2>2, <2>3
<1> QED
  BY <1>1, TrailInvariant, PTL

Verdicts ==
  \A r \in Reqs : At(r, "read") /\ NoPointLeft(r) =>
    IF Valid(req[r].v) THEN ~req[r].v.edited ELSE req[r].s \in edited \/ req[r].v.moved

LEMMA VerdictsRight == TrailInv => Verdicts
<1> SUFFICES ASSUME TrailInv, NEW r \in Reqs, req[r].at = "read", NoPointLeft(r)
             PROVE  IF Valid(req[r].v) THEN ~req[r].v.edited
                    ELSE req[r].s \in edited \/ req[r].v.moved
  BY DEF Verdicts, At
<1>1. PICK s \in ShiftIds, v \in Verdict :
        s = req[r].s /\ v = req[r].v /\ Undisturbed(v, s) /\ Noticed(v, s)
  BY DEF TrailInv, ReadOK, Begun, PresenceTypes, ReqRow
<1>2. v.count \in Nat /\ v.after \in Nat /\ v.found \in Nat
  BY DEF Verdict
<1>3. CASE Valid(v)
  <2>1. SUFFICES ASSUME v.edited PROVE FALSE
    BY <1>1, <1>3
  <2>2. PICK i \in 1 .. v.count : v.valid => v.found = v.after /\ v.after < i
    BY <1>1, <2>1 DEF Noticed
  <2> QED
    BY <1>2, <1>3, <2>2 DEF Valid
<1>4. CASE ~Valid(v)
  <2>1. SUFFICES ASSUME s \notin edited, ~v.moved PROVE FALSE
    BY <1>1, <1>4
  <2>2. /\ Stored(s) /\ v.count = shift[s].count /\ v.head = Upto(v.count)
        /\ v.valid /\ v.found = v.after /\ v.after <= v.count /\ v.prev = Upto(v.after)
    BY <1>1, <2>1 DEF Undisturbed
  <2>3. trail[s] = Full(v.count)
    BY <2>1, <2>2 DEF TrailInv, RowOK
  <2>4. v.after = v.count
    <3>1. SUFFICES ASSUME v.after # v.count PROVE FALSE
      OBVIOUS
    <3>2. v.count \in 1 .. v.count
      BY <1>2, <2>2, <3>1
    <3>3. Entry(v.count) \in trail[s] /\ Entry(v.count).seq = v.count
      BY <2>3, <3>2 DEF Full, Entry
    <3>4. v.count <= v.after
      BY <1>1, <3>3 DEF NoPointLeft
    <3> QED
      BY <1>2, <2>2, <3>1, <3>4
  <2> QED
    BY <1>4, <2>2, <2>4 DEF Valid
<1> QED
  BY <1>1, <1>3, <1>4

VerdictStep ==
  \A r \in Reqs : At(r, "read") /\ ~At(r, "read")' /\ NoPointLeft(r) =>
    IF Valid(req[r].v) THEN ~req[r].v.edited ELSE req[r].s \in edited \/ req[r].v.moved

\* A check of a trail says that it was edited whenever it was before the check began, and
\* never that it was if nobody edited it and nothing was added or purged meanwhile
\* (VerifyShift, ShiftDetail).
THEOREM ChecksAreRight == ShiftSpec => VerdictRight
<1>1. TrailInv => VerdictStep
  BY VerdictsRight DEF Verdicts, VerdictStep
<1> QED
  BY <1>1, TrailInvariant, PTL DEF VerdictRight, VerdictStep

-----------------------------------------------------------------------------
(* Types of Drivers *)

TaskStep == {"idle", "create profile", "store documents", "find user", "save user",
             "save profile", "grant", "load for grant", "store payment", "verify",
             "fail", "settle", "find rating", "create rating"}
UserRow  == [role : Roles, rated : Nat]
Payee    == Drivers \cup {NoDriver}
PayRow   == [status : {"none", "initiated", "successful", "failed"}, driver : Payee]
BankStep == {"none", "open", "paid", "short"}
Books    == [admin : Nat, used : Nat, passed : Nat, grants : [Payments -> Nat]]
Anyone   == Users \cup {NoDriver}
Anything == Payments \cup {NoDriver}
Rates    == Trips \X Roles
Rated    == Rates \cup {<<>>}
TaskRow  == [at : TaskStep, u : Anyone, row : ProfileRow, user : UserRow,
             p : Anything, rate : Rated, days : Nat]

\* Steps that go on for a driver, with a payment, and with a payment that is stored.
ForDriver == {"create profile", "store documents", "find user", "store payment"}
Settling  == {"verify", "fail", "settle", "load for grant"}

\* What a task slot holds at its step.
TaskOK(row, payments) ==
  /\ row \in TaskRow
  /\ row.at \in ForDriver => row.u \in Drivers
  /\ row.at \in Settling \cup {"store payment"} => row.p \in Payments
  /\ row.at \in Settling => payments[row.p].driver \in Drivers
  /\ row.at \in {"find rating", "create rating"} => row.rate \in Rates

PaymentsOK(payments) ==
  /\ payments \in [Payments -> PayRow]
  /\ \A p \in Payments : payments[p].status # "none" => payments[p].driver \in Drivers

DriverTypes ==
  /\ PresenceTypes
  /\ user \in [Users -> UserRow]
  /\ PaymentsOK(payment)
  /\ bank \in [Payments -> BankStep]
  /\ book \in Books
  /\ task \in [Tasks -> TaskRow]
  /\ \A t \in Tasks : TaskOK(task[t], payment)

LEMMA IdleTask ==
  /\ TaskIdle \in TaskRow /\ TaskIdle.at = "idle" /\ TaskIdle.row = NoProfile
  /\ TaskIdle.user = NewUser /\ NewUser \in UserRow /\ TaskIdle.days = 0
  /\ TaskIdle.p = NoDriver
  /\ \A payments : TaskOK(TaskIdle, payments)
<1>1. NewUser \in UserRow
  BY DEF NewUser, UserRow, Roles
<1>2. TaskIdle \in TaskRow
  <2>1. "idle" \in TaskStep /\ NoDriver \in Anyone /\ NoDriver \in Anything /\ <<>> \in Rated
    BY DEF TaskStep, Anyone, Anything, Rated
  <2> QED
    BY <1>1, <2>1, IdleTypes DEF TaskIdle, TaskRow
<1>3. /\ TaskIdle.at = "idle" /\ TaskIdle.row = NoProfile /\ TaskIdle.user = NewUser
      /\ TaskIdle.days = 0 /\ TaskIdle.p = NoDriver
  BY DEF TaskIdle
<1> QED
  BY <1>1, <1>2, <1>3 DEF TaskOK, ForDriver, Settling

\* Only the row of task slot t changes, to row.
TaskBecomes(t, row) == task' = [task EXCEPT ![t] = row]

LEMMA TaskTypes ==
  ASSUME DriverTypes, NEW t \in Tasks
  PROVE  TaskOK(task[t], payment) /\ task[t] \in TaskRow
BY DEF DriverTypes, TaskOK

\* The row of slot t at its next step: same is what TaskGoto leaves alone.
LEMMA TaskMoves ==
  ASSUME DriverTypes, NEW t \in Tasks, NEW step \in TaskStep, TaskGoto(t, step)
  PROVE  \E row \in TaskRow :
           /\ TaskBecomes(t, row) /\ row.at = step
           /\ row.u = task[t].u /\ row.row = task[t].row /\ row.user = task[t].user
           /\ row.p = task[t].p /\ row.rate = task[t].rate /\ row.days = task[t].days
<1> DEFINE new == [task[t] EXCEPT !.at = step]
<1>1. task[t] \in TaskRow
  BY TaskTypes
<1>2. /\ new \in TaskRow /\ new.at = step
      /\ new.u = task[t].u /\ new.row = task[t].row /\ new.user = task[t].user
      /\ new.p = task[t].p /\ new.rate = task[t].rate /\ new.days = task[t].days
  BY <1>1 DEF TaskRow
<1>3. TaskBecomes(t, new)
  BY DEF TaskGoto, TaskBecomes, DriverTypes
<1> QED
  BY <1>2, <1>3

-----------------------------------------------------------------------------
(* Where the rows of profiles come from: presence *)

\* One row has the subscription and the ratings of another.
Copies(a, b) == a.days = b.days /\ a.rated = b.rated

\* The row that request slot q holds is its own, nobody's or one just read.
SlotCopies(q) ==
  \/ Copies(req'[q].row, req[q].row) /\ req'[q].d = req[q].d
  \/ Copies(req'[q].row, NoProfile)
  \/ req'[q].d \in Drivers /\ Copies(req'[q].row, profile[req'[q].d])

\* The row of a driver is the one it was or one that a request slot held for them.
ProfileCopies(d) ==
  \/ Copies(profile'[d], profile[d])
  \/ \E q \in Reqs : req[q].d = d /\ Copies(profile'[d], req[q].row)

PresenceCopies ==
  /\ \A q \in Reqs : SlotCopies(q)
  /\ \A d \in Drivers : ProfileCopies(d)

\* Slot r copies as it should and profiles stay.
LEMMA CopiesOneSlot ==
  ASSUME PresenceTypes, profile' = profile, NEW r \in Reqs, NEW row, Becomes(r, row),
         \/ Copies(row.row, req[r].row) /\ row.d = req[r].d
         \/ Copies(row.row, NoProfile)
         \/ row.d \in Drivers /\ Copies(row.row, profile[row.d])
  PROVE  PresenceCopies
BY DEF PresenceTypes, Becomes, PresenceCopies, SlotCopies, ProfileCopies, Copies

LEMMA CopiesGoto ==
  ASSUME PresenceTypes, NEW r \in Reqs, NEW step \in Step, Goto(r, step),
         \/ profile' = profile
         \/ \E on \in BOOLEAN : SaveProfile(req[r].d, [req[r].row EXCEPT !.online = on])
         \/ SaveProfile(req[r].d, req[r].row)
  PROVE  PresenceCopies
<1>1. req[r] \in ReqRow /\ req[r].row \in ProfileRow
  BY DEF PresenceTypes, ReqRow
<1>2. \A on \in BOOLEAN : Copies([req[r].row EXCEPT !.online = on], req[r].row)
  BY <1>1 DEF Copies, ProfileRow
<1>3. Copies(req[r].row, req[r].row)
  BY DEF Copies
<1>4. ASSUME NEW q \in Reqs PROVE SlotCopies(q)
  <2>1. req'[q].row = req[q].row /\ req'[q].d = req[q].d
    <3>1. [req[r] EXCEPT !.at = step].row = req[r].row /\ [req[r] EXCEPT !.at = step].d = req[r].d
      BY <1>1 DEF ReqRow
    <3> QED
      BY <3>1 DEF Goto, PresenceTypes
  <2> QED
    BY <2>1 DEF SlotCopies, Copies
<1>5. ASSUME NEW d \in Drivers PROVE ProfileCopies(d)
  <2>1. CASE profile'[d] = profile[d]
    BY <2>1 DEF ProfileCopies, Copies
  <2>2. CASE profile'[d] # profile[d]
    <3>1. PICK row : SaveProfile(req[r].d, row) /\ Copies(row, req[r].row)
      BY <1>2, <1>3, <2>2
    <3>2. req[r].d = d /\ profile'[d] = row
      BY <2>2, <3>1 DEF SaveProfile, PresenceTypes
    <3> QED
      BY <3>1, <3>2 DEF ProfileCopies
  <2> QED
    BY <2>1, <2>2
<1> QED
  BY <1>4, <1>5 DEF PresenceCopies

LEMMA CopiesFinish ==
  ASSUME PresenceTypes, NEW r \in Reqs, Finish(r), profile' = profile
  PROVE  PresenceCopies
BY CopiesOneSlot, IdleTypes DEF Finish, Becomes, Copies

LEMMA PresenceRows ==
  ASSUME PresenceTypes, NEW r \in Reqs, Presence(r)
  PROVE  PresenceCopies
<1>1. ASSUME NEW d \in Drivers, NEW step \in Step, NEW on \in BOOLEAN, profile' = profile,
             Becomes(r, [ShiftIdle EXCEPT !.at = step, !.d = d,
                                          !.row = [profile[d] EXCEPT !.online = on]])
      PROVE  PresenceCopies
  <2> DEFINE p == [profile[d] EXCEPT !.online = on]
             row == [ShiftIdle EXCEPT !.at = step, !.d = d, !.row = p]
  <2>1. profile[d] \in ProfileRow
    BY DEF PresenceTypes
  <2>2. Copies(p, profile[d])
    BY <2>1 DEF Copies, ProfileRow
  <2> HIDE DEF p
  <2>3. row.row = p /\ row.d = d
    BY DEF ShiftIdle
  <2>4. Becomes(r, row)
    BY <1>1 DEF p
  <2> HIDE DEF row
  <2> QED
    BY <1>1, <2>2, <2>3, <2>4, CopiesOneSlot
<1>2. CASE GoOnline(r)
  <2>1. PICK d \in Drivers :
          /\ profile' = profile
          /\ Becomes(r, [ShiftIdle EXCEPT !.at = "locate", !.d = d,
                                          !.row = [profile[d] EXCEPT !.online = TRUE]])
    BY <1>2 DEF GoOnline, Becomes
  <2> QED
    BY <1>1, <2>1 DEF Step
<1>3. CASE GoOffline(r)
  <2>1. PICK d \in Drivers :
          /\ profile' = profile
          /\ Becomes(r, [ShiftIdle EXCEPT !.at = "unlocate", !.d = d,
                                          !.row = [profile[d] EXCEPT !.online = FALSE]])
    BY <1>3 DEF GoOffline, Becomes
  <2> QED
    BY <1>1, <2>1 DEF Step
<1>4. CASE PingLocation(r)
  <2>1. PICK d \in Drivers : /\ profile' = profile
                             /\ Becomes(r, [ShiftIdle EXCEPT !.at = "ping", !.d = d])
    BY <1>4 DEF PingLocation, Becomes
  <2>2. [ShiftIdle EXCEPT !.at = "ping", !.d = d].row = NoProfile
    BY DEF ShiftIdle
  <2> QED
    BY <2>1, <2>2, CopiesOneSlot DEF Copies
<1>5. CASE LocateOnline(r) \/ UnlocateOffline(r)
  BY <1>5, CopiesGoto DEF LocateOnline, UnlocateOffline, Step
<1>6. CASE SaveOnline(r) \/ SaveOffline(r) \/ UndoOnline(r)
  BY <1>6, CopiesGoto DEF SaveOnline, SaveOffline, UndoOnline, Step
<1>7. CASE ContinueShift(r)
  <2>1. profile' = profile /\ (Finish(r) \/ Goto(r, "retire"))
    BY <1>7 DEF ContinueShift
  <2> QED
    BY <2>1, CopiesFinish, CopiesGoto DEF Step
<1>8. CASE RetireShifts(r)
  <2> DEFINE row == [req[r] EXCEPT !.at = "open", !.todo = ActiveShifts(req[r].d)]
  <2>1. row.row = req[r].row /\ row.d = req[r].d
    BY DEF PresenceTypes, ReqRow
  <2>2. Becomes(r, row) /\ profile' = profile
    BY <1>8 DEF RetireShifts, Becomes, PresenceTypes
  <2> QED
    BY <2>1, <2>2, CopiesOneSlot DEF Copies
<1>9. CASE OpenShift(r)
  <2>1. profile' = profile /\ (Finish(r) \/ Goto(r, "undo online"))
    BY <1>9 DEF OpenShift
  <2> QED
    BY <2>1, CopiesFinish, CopiesGoto DEF Step
<1>10. CASE UndoLocate(r) \/ LocatePing(r) \/ EndActiveShift(r)
  BY <1>10, CopiesFinish DEF UndoLocate, LocatePing, EndActiveShift
<1>11. CASE FindActiveShift(r)
  <2>1. CASE Finish(r)
    BY <1>11, <2>1, CopiesFinish DEF FindActiveShift
  <2>2. CASE ~Finish(r)
    <3>1. PICK s : req' = [req EXCEPT ![r].at = "end", ![r].s = s]
      BY <1>11, <2>2 DEF FindActiveShift
    <3> DEFINE row == [req[r] EXCEPT !.at = "end", !.s = s]
    <3>2. row.row = req[r].row /\ row.d = req[r].d
      BY DEF PresenceTypes, ReqRow
    <3>3. Becomes(r, row) /\ profile' = profile
      BY <1>11, <3>1 DEF FindActiveShift, Becomes, PresenceTypes
    <3> QED
      BY <3>2, <3>3, CopiesOneSlot DEF Copies
  <2> QED
    BY <2>1, <2>2
<1> QED
  BY <1>2, <1>3, <1>4, <1>5, <1>6, <1>7, <1>8, <1>9, <1>10, <1>11 DEF Presence

LEMMA JobRows ==
  ASSUME PresenceTypes, NEW r \in Reqs, Jobs(r)
  PROVE  PresenceCopies
<1>1. CASE StaleScan(r)
  <2> DEFINE row == [ShiftIdle EXCEPT !.at = "close", !.todo = StaleActiveShifts]
  <2>1. row.row = NoProfile
    BY DEF ShiftIdle
  <2>2. Becomes(r, row) /\ profile' = profile
    BY <1>1 DEF StaleScan, Becomes
  <2> QED
    BY <2>1, <2>2, CopiesOneSlot DEF Copies
<1>2. CASE CloseStale(r)
  <2>1. PICK s \in req[r].todo :
          profile' = profile /\ (Finish(r) \/ req' = [req EXCEPT ![r].todo = @ \ {s}])
    BY <1>2 DEF CloseStale
  <2>2. CASE Finish(r)
    BY <2>1, <2>2, CopiesFinish
  <2>3. CASE req' = [req EXCEPT ![r].todo = @ \ {s}]
    <3> DEFINE row == [req[r] EXCEPT !.todo = @ \ {s}]
    <3>1. row.row = req[r].row /\ row.d = req[r].d
      BY DEF PresenceTypes, ReqRow
    <3>2. Becomes(r, row)
      BY <2>3 DEF Becomes
    <3> QED
      BY <2>1, <3>1, <3>2, CopiesOneSlot DEF Copies
  <2> QED
    BY <2>1, <2>2, <2>3
<1>3. CASE PurgeBefore(r)
  <2>1. req' = [q \in Reqs |-> [req[q] EXCEPT !.v.moved = @ \/ req[q].s \in Gone]]
    BY <1>3 DEF PurgeBefore, Gone
  <2>2. ASSUME NEW q \in Reqs PROVE req'[q].row = req[q].row /\ req'[q].d = req[q].d
    BY <2>1 DEF PresenceTypes, ReqRow
  <2>3. profile' = profile
    BY <1>3 DEF PurgeBefore
  <2> QED
    BY <2>2, <2>3 DEF PresenceCopies, SlotCopies, ProfileCopies, Copies
<1> QED
  BY <1>1, <1>2, <1>3 DEF Jobs

-----------------------------------------------------------------------------
(* Types of Drivers, step by step *)

\* Slot t becomes row and what else changes keeps its type.
LEMMA TypesOneTask ==
  ASSUME DriverTypes, NEW t \in Tasks, NEW row, TaskBecomes(t, row), TaskOK(row, payment'),
         profile' \in [Drivers -> ProfileRow], UNCHANGED <<shift, req>>,
         user' \in [Users -> UserRow], bank' \in [Payments -> BankStep], book' \in Books,
         PaymentsOK(payment'),
         \A p \in Payments : payment[p].driver \in Drivers => payment'[p].driver \in Drivers
  PROVE  DriverTypes'
<1>1. PresenceTypes'
  BY DEF DriverTypes, PresenceTypes
<1>2. task' \in [Tasks -> TaskRow]
  BY DEF DriverTypes, TaskBecomes, TaskOK
<1>3. ASSUME NEW q \in Tasks PROVE TaskOK(task'[q], payment')
  <2>1. CASE q = t
    BY <2>1 DEF TaskBecomes, DriverTypes
  <2>2. CASE q # t
    BY <2>2, TaskTypes DEF TaskOK, TaskBecomes, DriverTypes
  <2> QED
    BY <2>1, <2>2
<1> QED
  BY <1>1, <1>2, <1>3 DEF DriverTypes

\* Only slot t changes.
LEMMA TypesTask ==
  ASSUME DriverTypes, NEW t \in Tasks, NEW row, TaskBecomes(t, row), TaskOK(row, payment),
         UNCHANGED <<profile, shift, req, user, payment, bank, book>>
  PROVE  DriverTypes'
BY TypesOneTask DEF DriverTypes, PresenceTypes

LEMMA TypesTaskFinish ==
  ASSUME DriverTypes, NEW t \in Tasks, TaskFinish(t), UNCHANGED <<shift, req, payment>>,
         profile' \in [Drivers -> ProfileRow], user' \in [Users -> UserRow],
         bank' = bank, book' \in Books
  PROVE  DriverTypes'
BY TypesOneTask, IdleTask DEF DriverTypes, TaskFinish, TaskBecomes

\* A step from another one: what it needs is held already.
LEMMA TypesTaskGoto ==
  ASSUME DriverTypes, NEW t \in Tasks, NEW step \in TaskStep, TaskGoto(t, step),
         step \in ForDriver => task[t].at \in ForDriver,
         step \in Settling => task[t].at \in Settling,
         step \in {"find rating", "create rating"} =>
           task[t].at \in {"find rating", "create rating"},
         step # "store payment",
         UNCHANGED <<shift, req, user, bank, book>>, profile' \in [Drivers -> ProfileRow],
         PaymentsOK(payment'),
         \A p \in Payments : payment'[p].driver = payment[p].driver
  PROVE  DriverTypes'
<1>1. PICK row \in TaskRow :
         /\ TaskBecomes(t, row) /\ row.at = step
         /\ row.u = task[t].u /\ row.p = task[t].p /\ row.rate = task[t].rate
  BY TaskMoves
<1>2. TaskOK(row, payment')
  BY <1>1, TaskTypes DEF TaskOK
<1> QED
  BY <1>1, <1>2, TypesOneTask DEF DriverTypes

LEMMA PayeeTypes ==
  /\ \A d \in Drivers : d \in Anyone /\ d \in Users /\ d \in Payee
  /\ \A u \in Users : u \in Anyone
  /\ \A p \in Payments : p \in Anything
  /\ \A x \in Rates : x \in Rated
BY DEF Users, Anyone, Anything, Payee, Rated

LEMMA ProfileTypes ==
  ASSUME DriverTypes, NEW d \in Drivers
  PROVE  /\ profile[d] \in ProfileRow /\ profile[d].days \in Nat /\ profile[d].rated \in Nat
         /\ \A n \in Nat : [profile[d] EXCEPT !.days = @ + n] \in ProfileRow
         /\ [profile[d] EXCEPT !.rated = @ + 1] \in ProfileRow
         /\ \A status \in {"approved", "rejected"} :
              [profile[d] EXCEPT !.status = status] \in ProfileRow
<1>1. profile[d] \in ProfileRow
  BY DEF DriverTypes, PresenceTypes
<1> QED
  BY <1>1 DEF ProfileRow

LEMMA UserTypes ==
  ASSUME DriverTypes, NEW u \in Users
  PROVE  /\ user[u] \in UserRow /\ user[u].rated \in Nat
         /\ [user[u] EXCEPT !.role = "driver"] \in UserRow
         /\ [user[u] EXCEPT !.rated = @ + 1] \in UserRow
<1>1. user[u] \in UserRow
  BY DEF DriverTypes
<1> QED
  BY <1>1 DEF UserRow, Roles

\* What a rating is submitted with.
Finding(row) == row \in TaskRow /\ row.at = "find rating" /\ row.days = 0 /\ row.p = NoDriver

Submitted(row) ==
  /\ Finding(row) /\ row.rate \in Rates
  /\ row.rate[2] = "passenger" =>
       /\ row.u = TripOf[row.rate[1]].driver /\ row.u \in Drivers
       /\ row.row.rated = profile[row.u].rated + 1
       /\ row.row.days = profile[row.u].days
  /\ row.rate[2] # "passenger" =>
       /\ row.u = TripOf[row.rate[1]].passenger /\ row.u \in Users
       /\ row.user.rated = user[row.u].rated + 1
       /\ row.row = NoProfile

RateOf(about, w)   == [TaskIdle EXCEPT !.at = "find rating", !.rate = about, !.u = w]
RateRow(row, p, a) == [row EXCEPT !.row = p, !.user = a]

LEMMA RateFields ==
  ASSUME NEW about \in Rates, NEW w \in Users, NEW p \in ProfileRow, NEW a \in UserRow,
         NEW new, new = RateRow(RateOf(about, w), p, a)
  PROVE  Finding(new) /\ new.rate = about /\ new.u = w /\ new.row = p /\ new.user = a
<1>1. w \in Anyone /\ about \in Rated /\ "find rating" \in TaskStep
  BY DEF Anyone, Rated, TaskStep
<1> QED
  BY <1>1, IdleTask DEF TaskRow, RateRow, RateOf, Finding

LEMMA SubmittedRow ==
  ASSUME DriverTypes, NEW t \in Tasks, SubmitRating(t)
  PROVE  \E row : TaskBecomes(t, row) /\ Submitted(row)
<1>1. PICK trip \in Trips, role \in Roles :
        TaskBecomes(t, RateRow(RateOf(<<trip, role>>,
            IF role = "passenger" THEN TripOf[trip].driver ELSE TripOf[trip].passenger),
          IF role = "driver" THEN NoProfile
          ELSE [profile[TripOf[trip].driver] EXCEPT !.rated = @ + 1],
          IF role = "passenger" THEN NewUser
          ELSE [user[TripOf[trip].passenger] EXCEPT !.rated = @ + 1]))
  BY DEF SubmitRating, TaskBecomes, RateRow, RateOf
<1>2. TripOf[trip].driver \in Drivers /\ TripOf[trip].passenger \in Users
  BY DriversAssumption
<1>3. PICK rate \in Rates : rate = <<trip, role>> /\ rate[1] = trip /\ rate[2] = role
  <2>1. <<trip, role>> \in Rates /\ <<trip, role>>[1] = trip /\ <<trip, role>>[2] = role
    BY DEF Rates
  <2> QED
    BY <2>1
<1>4. CASE role = "passenger"
  <2> DEFINE d == TripOf[trip].driver
             x == [profile[d] EXCEPT !.rated = @ + 1]
  <2>1. x \in ProfileRow /\ x.rated = profile[d].rated + 1 /\ x.days = profile[d].days
    BY <1>2, ProfileTypes DEF ProfileRow
  <2>2. PICK row : TaskBecomes(t, row) /\ row = RateRow(RateOf(rate, d), x, NewUser)
    BY <1>1, <1>3, <1>4
  <2>3. d \in Users /\ d \in Drivers /\ NewUser \in UserRow
    BY <1>2, PayeeTypes, IdleTask
  <2> HIDE DEF x
  <2>4. Finding(row) /\ row.rate = rate /\ row.u = d /\ row.row = x
    BY <1>3, <2>1, <2>2, <2>3, RateFields
  <2>5. Submitted(row)
    BY <1>3, <1>4, <2>1, <2>3, <2>4 DEF Submitted
  <2> QED
    BY <2>2, <2>5
<1>5. CASE role # "passenger"
  <2> DEFINE u == TripOf[trip].passenger
             y == [user[u] EXCEPT !.rated = @ + 1]
  <2>1. y \in UserRow /\ y.rated = user[u].rated + 1
    BY <1>2, UserTypes DEF UserRow
  <2>2. PICK row : TaskBecomes(t, row) /\ row = RateRow(RateOf(rate, u), NoProfile, y)
    BY <1>1, <1>3, <1>5 DEF Roles
  <2> HIDE DEF y
  <2>3. Finding(row) /\ row.rate = rate /\ row.u = u /\ row.row = NoProfile /\ row.user = y
    BY <1>2, <1>3, <2>1, <2>2, IdleTypes, RateFields
  <2>4. Submitted(row)
    BY <1>2, <1>3, <1>5, <2>1, <2>3 DEF Submitted
  <2> QED
    BY <2>2, <2>4
<1> QED
  BY <1>4, <1>5

LEMMA TaskKeepsTypes ==
  ASSUME DriverTypes, NEW t \in Tasks, Task(t)
  PROVE  DriverTypes'
<1>0. /\ profile \in [Drivers -> ProfileRow] /\ user \in [Users -> UserRow] /\ book \in Books
      /\ PaymentsOK(payment)
  BY DEF DriverTypes, PresenceTypes
<1> USE DEF sideVars
<1>1. CASE Register(t)
  <2>1. PICK d \in Drivers :
          TaskBecomes(t, [TaskIdle EXCEPT !.at = "create profile", !.u = d])
    BY <1>1 DEF Register, TaskBecomes
  <2>2. TaskOK([TaskIdle EXCEPT !.at = "create profile", !.u = d], payment)
    BY <2>1, PayeeTypes, IdleTask DEF TaskOK, ForDriver, Settling, TaskRow, TaskStep
  <2> QED
    BY <1>1, <2>1, <2>2, TypesTask DEF Register
<1>2. CASE CreateProfile(t)
  <2>1. [NoProfile EXCEPT !.status = "pending"] \in ProfileRow
    BY IdleTypes DEF ProfileRow
  <2>2. CASE TaskFinish(t) /\ UNCHANGED profile
    BY <1>0, <1>2, <2>2, TypesTaskFinish DEF CreateProfile, DriverTypes
  <2>3. CASE /\ SaveProfile(task[t].u, [NoProfile EXCEPT !.status = "pending"])
             /\ TaskGoto(t, "store documents")
    <3>1. profile' \in [Drivers -> ProfileRow]
      BY <1>0, <2>1, <2>3 DEF SaveProfile
    <3> QED
      BY <1>0, <1>2, <2>3, <3>1, TypesTaskGoto
         DEF CreateProfile, TaskAt, TaskStep, ForDriver, Settling
  <2> QED
    BY <1>2, <2>2, <2>3 DEF CreateProfile
<1>3. CASE StoreDocuments(t)
  BY <1>0, <1>3, TypesTaskGoto DEF StoreDocuments, TaskAt, TaskStep, ForDriver, Settling
<1>4. CASE FindRegisteredUser(t)
  <2> DEFINE y == [user[task[t].u] EXCEPT !.role = "driver"]
             row == [task[t] EXCEPT !.at = "save user", !.user = y]
  <2>1. task[t] \in TaskRow /\ task[t].u \in Drivers
    BY <1>4, TaskTypes DEF FindRegisteredUser, TaskAt, TaskOK, ForDriver
  <2>2. y \in UserRow
    BY <2>1, PayeeTypes, UserTypes
  <2>3. TaskBecomes(t, row)
    BY <1>4 DEF FindRegisteredUser, TaskBecomes, DriverTypes
  <2> HIDE DEF y
  <2>4. TaskOK(row, payment)
    BY <2>1, <2>2 DEF TaskOK, TaskRow, TaskStep, ForDriver, Settling
  <2> QED
    BY <1>4, <2>3, <2>4, TypesTask DEF FindRegisteredUser
<1>5. CASE SaveTaskUser(t)
  <2>1. task[t].user \in UserRow
    BY TaskTypes DEF TaskRow
  <2>2. user' \in [Users -> UserRow]
    BY <1>0, <1>5, <2>1 DEF SaveTaskUser, SaveUser
  <2> QED
    BY <1>0, <1>5, <2>2, TypesTaskFinish DEF SaveTaskUser, DriverTypes
<1>6. CASE VerifyDriver(t)
  <2>1. PICK d \in Drivers, status \in {"approved", "rejected"} :
          TaskBecomes(t, [TaskIdle EXCEPT !.at = "save profile", !.u = d,
                            !.row = [profile[d] EXCEPT !.status = status]])
    BY <1>6 DEF VerifyDriver, TaskBecomes
  <2> DEFINE x == [profile[d] EXCEPT !.status = status]
             row == [TaskIdle EXCEPT !.at = "save profile", !.u = d, !.row = x]
  <2>2. x \in ProfileRow
    BY ProfileTypes
  <2> HIDE DEF x
  <2>3. TaskOK(row, payment)
    BY <2>2, PayeeTypes, IdleTask DEF TaskOK, ForDriver, Settling, TaskRow, TaskStep
  <2> QED
    BY <1>6, <2>1, <2>3, TypesTask DEF VerifyDriver, x
<1>7. CASE SaveTaskProfile(t)
  <2>1. task[t].row \in ProfileRow
    BY TaskTypes DEF TaskRow
  <2>2. profile' \in [Drivers -> ProfileRow]
    BY <1>0, <1>7, <2>1 DEF SaveTaskProfile, SaveProfile
  <2> QED
    BY <1>0, <1>7, <2>2, TypesTaskFinish DEF SaveTaskProfile, DriverTypes
<1>8. CASE GrantDays(t)
  <2>1. PICK d \in Drivers, n \in 1 .. MaxDays - book.admin :
          TaskBecomes(t, [TaskIdle EXCEPT !.at = "grant", !.u = d, !.days = n,
                                          !.row = [profile[d] EXCEPT !.days = @ + n]])
    BY <1>8 DEF GrantDays, TaskBecomes
  <2> DEFINE x == [profile[d] EXCEPT !.days = @ + n]
             row == [TaskIdle EXCEPT !.at = "grant", !.u = d, !.days = n, !.row = x]
  <2>2. n \in Nat
    BY <1>0, DriversAssumption DEF Books
  <2>3. x \in ProfileRow
    BY <2>2, ProfileTypes
  <2> HIDE DEF x
  <2>4. TaskOK(row, payment)
    BY <2>2, <2>3, PayeeTypes, IdleTask DEF TaskOK, ForDriver, Settling, TaskRow, TaskStep
  <2> QED
    BY <1>8, <2>1, <2>4, TypesTask DEF GrantDays, x
<1>9. CASE Checkout(t)
  <2>1. PICK d \in Drivers, p \in Payments :
          /\ bank' = [bank EXCEPT ![p] = "open"]
          /\ TaskBecomes(t, [TaskIdle EXCEPT !.at = "store payment", !.u = d, !.p = p])
    BY <1>9 DEF Checkout, TaskBecomes
  <2> DEFINE row == [TaskIdle EXCEPT !.at = "store payment", !.u = d, !.p = p]
  <2>2. TaskOK(row, payment)
    BY PayeeTypes, IdleTask DEF TaskOK, ForDriver, Settling, TaskRow, TaskStep
  <2>3. bank' \in [Payments -> BankStep]
    BY <2>1 DEF DriverTypes, BankStep
  <2> QED
    BY <1>0, <1>9, <2>1, <2>2, <2>3, TypesOneTask DEF Checkout
<1>10. CASE StorePayment(t)
  <2>1. task[t].u \in Drivers /\ task[t].p \in Payments
    BY <1>10, TaskTypes DEF StorePayment, TaskAt, TaskOK, ForDriver
  <2> DEFINE new == [status |-> "initiated", driver |-> task[t].u]
  <2>2. new \in PayRow /\ new.driver \in Drivers
    BY <2>1, PayeeTypes DEF PayRow
  <2>3. payment' = [payment EXCEPT ![task[t].p] = new]
    BY <1>10 DEF StorePayment
  <2> HIDE DEF new
  <2>4. /\ PaymentsOK(payment')
        /\ \A p \in Payments : payment[p].driver \in Drivers => payment'[p].driver \in Drivers
    BY <1>0, <2>1, <2>2, <2>3 DEF PaymentsOK
  <2> QED
    BY <1>0, <1>10, <2>4, TypesOneTask, IdleTask
       DEF StorePayment, TaskFinish, TaskBecomes, DriverTypes
<1>11. CASE \E p \in Payments : HandleWebhook(t, p)
  <2>1. PICK p \in Payments : HandleWebhook(t, p)
    BY <1>11
  <2> DEFINE row == [TaskIdle EXCEPT !.at = "verify", !.p = p]
  <2>2. payment[p].driver \in Drivers
    BY <1>0, <2>1 DEF HandleWebhook, PaymentsOK
  <2>3. TaskOK(row, payment)
    BY <2>2, PayeeTypes, IdleTask DEF TaskOK, ForDriver, Settling, TaskRow, TaskStep
  <2>4. TaskBecomes(t, row)
    BY <2>1 DEF HandleWebhook, TaskBecomes
  <2> QED
    BY <2>1, <2>3, <2>4, TypesTask DEF HandleWebhook
<1>12. CASE VerifyTransaction(t)
  <2>1. PICK step \in {"settle", "fail"} : TaskGoto(t, step)
    BY <1>12 DEF VerifyTransaction
  <2> QED
    BY <1>0, <1>12, <2>1, TypesTaskGoto
       DEF VerifyTransaction, TaskAt, TaskStep, ForDriver, Settling
<1>13. CASE SavePayment(t)
  <2>1. PICK status \in {"failed", "successful"} :
          /\ payment' = [payment EXCEPT ![task[t].p].status = status]
          /\ TaskFinish(t) \/ TaskGoto(t, "load for grant")
    BY <1>13 DEF SavePayment
  <2>2. task[t].at \in Settling /\ task[t].p \in Payments
    BY <1>13, TaskTypes DEF SavePayment, TaskAt, Settling, TaskOK
  <2> DEFINE new == [payment[task[t].p] EXCEPT !.status = status]
  <2>3. payment[task[t].p] \in PayRow
    BY <1>0, <2>2 DEF PaymentsOK
  <2>4. new \in PayRow /\ new.driver = payment[task[t].p].driver
    BY <2>3 DEF PayRow
  <2>5. payment' = [payment EXCEPT ![task[t].p] = new]
    BY <2>1
  <2> HIDE DEF new
  <2>6. payment[task[t].p].driver \in Drivers
    BY <2>2, TaskTypes DEF TaskOK
  <2>7. PaymentsOK(payment') /\ \A p \in Payments : payment'[p].driver = payment[p].driver
    BY <1>0, <2>2, <2>4, <2>5, <2>6 DEF PaymentsOK
  <2>8. CASE TaskFinish(t)
    BY <1>0, <1>13, <2>7, <2>8, TypesOneTask, IdleTask
       DEF SavePayment, TaskFinish, TaskBecomes, DriverTypes
  <2>9. CASE TaskGoto(t, "load for grant")
    BY <1>0, <1>13, <2>2, <2>7, <2>9, TypesTaskGoto DEF SavePayment, TaskStep, ForDriver, Settling
  <2> QED
    BY <2>1, <2>8, <2>9
<1>14. CASE LoadForGrant(t)
  <2> DEFINE d == payment[task[t].p].driver
             x == [profile[d] EXCEPT !.days = @ + CycleDays]
             row == [task[t] EXCEPT !.at = "grant", !.u = d, !.days = CycleDays, !.row = x]
  <2>1. d \in Drivers /\ task[t] \in TaskRow
    BY <1>14, TaskTypes DEF LoadForGrant, TaskAt, TaskOK, Settling
  <2>2. x \in ProfileRow
    BY <2>1, ProfileTypes, DriversAssumption
  <2>3. TaskBecomes(t, row)
    BY <1>14 DEF LoadForGrant, TaskBecomes, DriverTypes
  <2> HIDE DEF x, d
  <2>4. TaskOK(row, payment)
    BY <2>1, <2>2, PayeeTypes, DriversAssumption DEF TaskOK, TaskRow, TaskStep, ForDriver, Settling
  <2> QED
    BY <1>14, <2>3, <2>4, TypesTask DEF LoadForGrant
<1>15. CASE SaveGrant(t)
  <2>1. task[t].row \in ProfileRow /\ task[t].days \in Nat
    BY TaskTypes DEF TaskRow
  <2>2. profile' \in [Drivers -> ProfileRow]
    BY <1>0, <1>15, <2>1 DEF SaveGrant, SaveProfile
  <2>3. book' \in Books
    BY <1>0, <1>15, <2>1 DEF SaveGrant, Books
  <2> QED
    BY <1>0, <1>15, <2>2, <2>3, TypesTaskFinish DEF SaveGrant, DriverTypes
<1>16. CASE VerifyUnanswered(t) \/ TaskAbandon(t)
  BY <1>0, <1>16, TypesTaskFinish DEF VerifyUnanswered, TaskAbandon, DriverTypes
<1>17. CASE SubmitRating(t)
  <2>1. PICK row : TaskBecomes(t, row) /\ Submitted(row)
    BY <1>17, SubmittedRow
  <2>2. TaskOK(row, payment)
    BY <2>1 DEF Submitted, Finding, TaskOK, ForDriver, Settling
  <2> QED
    BY <1>17, <2>1, <2>2, TypesTask DEF SubmitRating
<1>18. CASE FindRating(t)
  <2>1. CASE TaskFinish(t)
    BY <1>0, <1>18, <2>1, TypesTaskFinish DEF FindRating, DriverTypes
  <2>2. CASE TaskGoto(t, "create rating")
    BY <1>0, <1>18, <2>2, TypesTaskGoto DEF FindRating, TaskAt, TaskStep, ForDriver, Settling
  <2> QED
    BY <1>18, <2>1, <2>2 DEF FindRating
<1>19. CASE CreateRating(t)
  <2>1. CASE TaskFinish(t)
    BY <1>0, <1>19, <2>1, TypesTaskFinish DEF CreateRating, DriverTypes
  <2>2. CASE ~TaskFinish(t)
    <3>1. PICK step \in {"save profile", "save user"} : TaskGoto(t, step)
      BY <1>19, <2>2 DEF CreateRating
    <3> QED
      BY <1>0, <1>19, <3>1, TypesTaskGoto DEF CreateRating, TaskStep, ForDriver, Settling
  <2> QED
    BY <2>1, <2>2
<1> QED
  BY <1>1, <1>2, <1>3, <1>4, <1>5, <1>6, <1>7, <1>8, <1>9, <1>10, <1>11, <1>12, <1>13,
     <1>14, <1>15, <1>16, <1>17, <1>18, <1>19 DEF Task, Webhook

\* A day passes: only what is left of subscriptions changes.
LEMMA ElapsedRow ==
  ASSUME NEW row \in ProfileRow
  PROVE  /\ Elapse(row) \in ProfileRow /\ Elapse(row).rated = row.rated
         /\ Elapse(row).days = IF row.days = 0 THEN 0 ELSE row.days - 1
<1> DEFINE n == IF row.days = 0 THEN 0 ELSE row.days - 1
<1>1. row.days \in Nat
  BY DEF ProfileRow
<1>2. n \in Nat
  BY <1>1
<1>3. Elapse(row) = [row EXCEPT !.days = n]
  BY DEF Elapse
<1> HIDE DEF n
<1>4. Elapse(row) \in ProfileRow /\ Elapse(row).rated = row.rated /\ Elapse(row).days = n
  BY <1>2, <1>3 DEF ProfileRow
<1> QED
  BY <1>4 DEF n

LEMMA ElapsedSlots ==
  ASSUME DriverTypes, DayPasses
  PROVE  /\ \A d \in Drivers : profile'[d] = Elapse(profile[d])
         /\ \A r \in Reqs : /\ req'[r] \in ReqRow /\ req'[r].at = req[r].at
                            /\ req'[r].d = req[r].d /\ req'[r].row = Elapse(req[r].row)
         /\ \A t \in Tasks :
              /\ task'[t] \in TaskRow /\ task'[t].at = task[t].at /\ task'[t].u = task[t].u
              /\ task'[t].row = Elapse(task[t].row) /\ task'[t].user = task[t].user
              /\ task'[t].p = task[t].p /\ task'[t].rate = task[t].rate
              /\ task'[t].days = task[t].days
<1>1. \A d \in Drivers : profile'[d] = Elapse(profile[d])
  BY DEF DayPasses
<1>2. ASSUME NEW r \in Reqs
      PROVE  /\ req'[r] \in ReqRow /\ req'[r].at = req[r].at
             /\ req'[r].d = req[r].d /\ req'[r].row = Elapse(req[r].row)
  <2>1. req[r] \in ReqRow
    BY DEF DriverTypes, PresenceTypes
  <2>2. Elapse(req[r].row) \in ProfileRow
    BY <2>1, ElapsedRow DEF ReqRow
  <2>3. req'[r] = [req[r] EXCEPT !.row = Elapse(req[r].row)]
    BY DEF DayPasses
  <2> QED
    BY <2>1, <2>2, <2>3 DEF ReqRow
<1>3. ASSUME NEW t \in Tasks
      PROVE  /\ task'[t] \in TaskRow /\ task'[t].at = task[t].at /\ task'[t].u = task[t].u
             /\ task'[t].row = Elapse(task[t].row) /\ task'[t].user = task[t].user
             /\ task'[t].p = task[t].p /\ task'[t].rate = task[t].rate
             /\ task'[t].days = task[t].days
  <2>1. task[t] \in TaskRow
    BY DEF DriverTypes
  <2>2. Elapse(task[t].row) \in ProfileRow
    BY <2>1, ElapsedRow DEF TaskRow
  <2>3. task'[t] = [task[t] EXCEPT !.row = Elapse(task[t].row)]
    BY DEF DayPasses
  <2> QED
    BY <2>1, <2>2, <2>3 DEF TaskRow
<1> QED
  BY <1>1, <1>2, <1>3

\* How many days were used on one day.
Riding == {d \in Drivers : profile[d].days > 0}

LEMMA DayTypes ==
  ASSUME DriverTypes, DayPasses, IsFiniteSet(Riding)
  PROVE  DriverTypes'
<1>1. profile' \in [Drivers -> ProfileRow]
  <2>1. \A d \in Drivers : Elapse(profile[d]) \in ProfileRow
    BY ElapsedRow, ProfileTypes
  <2> QED
    BY <2>1 DEF DayPasses
<1>2. req' \in [Reqs -> ReqRow] /\ task' \in [Tasks -> TaskRow]
  <2> DEFINE f(r) == [req[r] EXCEPT !.row = Elapse(@)]
             g(t) == [task[t] EXCEPT !.row = Elapse(@)]
  <2>1. req' = [r \in Reqs |-> f(r)] /\ task' = [t \in Tasks |-> g(t)]
    BY DEF DayPasses
  <2> HIDE DEF f, g
  <2> QED
    BY <2>1, ElapsedSlots
<1>3. PresenceTypes'
  BY <1>1, <1>2, ElapsedSlots DEF DriverTypes, PresenceTypes, DayPasses, sideVars
<1>4. \A t \in Tasks : TaskOK(task'[t], payment')
  BY ElapsedSlots, TaskTypes DEF TaskOK, DayPasses
<1>5. book' \in Books
  <2> DEFINE n == Cardinality(Riding)
             next == [book EXCEPT !.passed = @ + 1]
  <2>1. n \in Nat
    BY FS_CardinalityType
  <2>2. book' = [next EXCEPT !.used = book.used + n]
    BY DEF DayPasses, Riding
  <2> HIDE DEF n
  <2>3. next \in Books /\ book.used \in Nat
    BY DEF DriverTypes, Books
  <2> HIDE DEF next
  <2> QED
    BY <2>1, <2>2, <2>3 DEF Books
<1> QED
  BY <1>2, <1>3, <1>4, <1>5 DEF DriverTypes, DayPasses

\* Whoever rides is one of finitely many: one row is saved at a time.
LEMMA RidingFinite ==
  ASSUME DriverTypes, IsFiniteSet(Riding), profile' = profile \/ \E d, row : SaveProfile(d, row)
  PROVE  IsFiniteSet(Riding)'
<1>1. PICK d : \A e \in Drivers : e # d => profile'[e] = profile[e]
  <2>1. CASE profile' = profile
    BY <2>1
  <2>2. ASSUME NEW d, NEW row, profile' = [profile EXCEPT ![d] = row]
        PROVE  \A e \in Drivers : e # d => profile'[e] = profile[e]
    BY <2>2 DEF DriverTypes, PresenceTypes
  <2> QED
    BY <2>1, <2>2 DEF SaveProfile
<1>2. Riding' \in SUBSET (Riding \cup {d})
  BY <1>1 DEF Riding
<1>3. IsFiniteSet(Riding \cup {d})
  BY FS_AddElement
<1> QED
  BY <1>2, <1>3, FS_Subset

LEMMA TaskSavesOne ==
  ASSUME NEW t \in Tasks, Task(t)
  PROVE  profile' = profile \/ \E d, row : SaveProfile(d, row)
BY DEF Task, Webhook, Register, CreateProfile, StoreDocuments, FindRegisteredUser, SaveTaskUser,
       VerifyDriver, SaveTaskProfile, GrantDays, LoadForGrant, SaveGrant, Checkout, StorePayment,
       HandleWebhook, VerifyTransaction, VerifyUnanswered, SavePayment, SubmitRating,
       FindRating, CreateRating, TaskAbandon, sideVars

LEMMA PresenceSavesOne ==
  ASSUME NEW r \in Reqs, Presence(r) \/ Jobs(r)
  PROVE  profile' = profile \/ \E d, row : SaveProfile(d, row)
BY DEF Presence, Jobs, GoOnline, LocateOnline, SaveOnline, ContinueShift, RetireShifts, OpenShift,
       UndoOnline, UndoLocate, GoOffline, UnlocateOffline, SaveOffline, FindActiveShift,
       EndActiveShift, PingLocation, LocatePing, StaleScan, CloseStale, PurgeBefore

DriverTyped == DriverTypes /\ IsFiniteSet(Riding)

LEMMA DriverInitTypes == DriverInit => DriverTyped
<1> SUFFICES ASSUME DriverInit PROVE DriverTyped
  OBVIOUS
<1>1. PresenceTypes
  BY IdleTypes DEF DriverInit, PresenceTypes, Picked
<1>2. Riding = {}
  BY DEF DriverInit, Riding, NoProfile
<1>3. book \in Books
  BY DEF DriverInit, Books
<1>4. PaymentsOK(payment)
  <2>1. [status |-> "none", driver |-> NoDriver] \in PayRow
    BY DEF PayRow, Payee
  <2> QED
    BY <2>1 DEF DriverInit, PaymentsOK
<1>5. bank \in [Payments -> BankStep] /\ user \in [Users -> UserRow]
  BY IdleTask DEF DriverInit, BankStep
<1>6. task \in [Tasks -> TaskRow] /\ \A t \in Tasks : TaskOK(task[t], payment)
  BY IdleTask DEF DriverInit
<1> QED
  BY <1>1, <1>2, <1>3, <1>4, <1>5, <1>6, FS_EmptySet DEF DriverTyped, DriverTypes

\* Types survive every step.
LEMMA DriverNextTypes == DriverTyped /\ [DriverNext]_driverVars => DriverTyped'
<1> SUFFICES ASSUME DriverTyped, [DriverNext]_driverVars PROVE DriverTyped'
  OBVIOUS
<1>0. DriverTypes /\ IsFiniteSet(Riding) /\ PresenceTypes
  BY DEF DriverTyped, DriverTypes
<1>1. ASSUME NEW t \in Tasks, Task(t) PROVE DriverTyped'
  BY <1>0, <1>1, TaskKeepsTypes, TaskSavesOne, RidingFinite DEF DriverTyped
<1>2. ASSUME NEW p \in Payments, Pay(p) PROVE DriverTyped'
  <2>1. bank' \in [Payments -> BankStep]
    BY <1>0, <1>2 DEF DriverTypes, Pay, BankStep
  <2>2. UNCHANGED <<profile, shift, req, user, payment, task, book>>
    BY <1>2 DEF Pay, sideVars
  <2> QED
    BY <1>0, <2>1, <2>2, RidingFinite DEF DriverTyped, DriverTypes, PresenceTypes
<1>3. CASE DayPasses
  <2>1. Riding' \in SUBSET Riding
    <3>1. ASSUME NEW d \in Drivers, profile'[d].days > 0 PROVE profile[d].days > 0
      <4>1. profile'[d] = Elapse(profile[d]) /\ profile[d] \in ProfileRow /\ profile[d].days \in Nat
        BY <1>0, <1>3, ElapsedSlots, ProfileTypes
      <4>2. profile'[d].days = IF profile[d].days = 0 THEN 0 ELSE profile[d].days - 1
        BY <4>1, ElapsedRow
      <4> QED
        BY <3>1, <4>1, <4>2
    <3> QED
      BY <3>1 DEF Riding
  <2> QED
    BY <1>0, <1>3, <2>1, DayTypes, FS_Subset DEF DriverTyped
<1>4. ASSUME NEW r \in Reqs, Presence(r) \/ Jobs(r),
             UNCHANGED <<user, docs, rating, payment, bank, task, book>>
      PROVE  DriverTyped'
  BY <1>0, <1>4, PresenceKeepsTypes, JobsKeepTypes, PresenceSavesOne, RidingFinite
     DEF DriverTyped, DriverTypes
<1>5. CASE UNCHANGED driverVars
  BY <1>0, <1>5 DEF driverVars, DriverTyped, DriverTypes, PresenceTypes, Riding
<1> QED
  BY <1>1, <1>2, <1>3, <1>4, <1>5 DEF DriverNext

-----------------------------------------------------------------------------
(* Ratings *)

\* How many ratings there are of a driver, and of a passenger.
OfDriver(x, d)    == Cardinality({y \in x : TripOf[y[1]].driver = d /\ y[2] = "passenger"})
OfPassenger(x, u) == Cardinality({y \in x : TripOf[y[1]].passenger = u /\ y[2] = "driver"})

\* Steps that save a profile's mean, save a user's, and go on with a rating.
Saving     == {"save profile", "grant"}
SavingUser == {"save user"}
Rating     == {"find rating", "create rating"}

LEMMA StepsApart ==
  /\ Saving \cap SavingUser = {} /\ Saving \cap Rating = {} /\ SavingUser \cap Rating = {}
  /\ Saving \cup SavingUser \cup Rating \subseteq TaskStep
BY DEF Saving, SavingUser, Rating, TaskStep

\* A mean that a task is about to save counts what is stored, and one that it took up
\* with a rating counts that rating as well.
TaskCounts(row, x) ==
  /\ row.at \in Saving => row.row.rated <= OfDriver(x, row.u)
  /\ row.at \in SavingUser => row.user.rated <= OfPassenger(x, row.u)
  /\ row.at \in Rating =>
       /\ row.rate[2] = "passenger" =>
            row.u = TripOf[row.rate[1]].driver /\ row.row.rated <= OfDriver(x, row.u) + 1
       /\ row.rate[2] # "passenger" =>
            row.u = TripOf[row.rate[1]].passenger /\ row.user.rated <= OfPassenger(x, row.u) + 1

RateInv ==
  /\ IsFiniteSet(rating)
  /\ \A d \in Drivers : profile[d].rated <= OfDriver(rating, d)
  /\ \A u \in Users : user[u].rated <= OfPassenger(rating, u)
  /\ \A r \in Reqs : req[r].row.rated <= OfDriver(rating, req[r].d)
  /\ \A t \in Tasks : TaskCounts(task[t], rating)

LEMMA RatesAreNumbers ==
  ASSUME NEW x, IsFiniteSet(x)
  PROVE  \A u : OfDriver(x, u) \in Nat /\ OfPassenger(x, u) \in Nat
<1> SUFFICES ASSUME NEW u PROVE OfDriver(x, u) \in Nat /\ OfPassenger(x, u) \in Nat
  OBVIOUS
<1>1. /\ {y \in x : TripOf[y[1]].driver = u /\ y[2] = "passenger"} \in SUBSET x
      /\ {y \in x : TripOf[y[1]].passenger = u /\ y[2] = "driver"} \in SUBSET x
  OBVIOUS
<1> QED
  BY <1>1, FS_Subset, FS_CardinalityType DEF OfDriver, OfPassenger

\* No number of ratings of x exceeds the one of z.
Within(x, z) ==
  /\ IsFiniteSet(x) /\ IsFiniteSet(z)
  /\ \A u : OfDriver(x, u) <= OfDriver(z, u) /\ OfPassenger(x, u) <= OfPassenger(z, u)

LEMMA WithinItself ==
  ASSUME NEW x, IsFiniteSet(x)
  PROVE  Within(x, x)
BY RatesAreNumbers DEF Within

LEMMA RatesGrow ==
  ASSUME NEW x, IsFiniteSet(x), NEW y, y \notin x
  PROVE  /\ Within(x, x \cup {y})
         /\ y[2] = "passenger" =>
              OfDriver(x \cup {y}, TripOf[y[1]].driver) = OfDriver(x, TripOf[y[1]].driver) + 1
         /\ y[2] = "driver" =>
              OfPassenger(x \cup {y}, TripOf[y[1]].passenger)
                = OfPassenger(x, TripOf[y[1]].passenger) + 1
<1> DEFINE z == x \cup {y}
           D(w, u) == {v \in w : TripOf[v[1]].driver = u /\ v[2] = "passenger"}
           P(w, u) == {v \in w : TripOf[v[1]].passenger = u /\ v[2] = "driver"}
<1>1. IsFiniteSet(z)
  BY FS_AddElement
<1>2. ASSUME NEW u PROVE OfDriver(x, u) <= OfDriver(z, u) /\ OfPassenger(x, u) <= OfPassenger(z, u)
  <2>1. D(z, u) \in SUBSET z /\ P(z, u) \in SUBSET z
    OBVIOUS
  <2>2. IsFiniteSet(D(z, u)) /\ IsFiniteSet(P(z, u))
    BY <1>1, <2>1, FS_Subset
  <2>3. D(x, u) \in SUBSET D(z, u) /\ P(x, u) \in SUBSET P(z, u)
    OBVIOUS
  <2>4. /\ Cardinality(D(x, u)) <= Cardinality(D(z, u))
        /\ Cardinality(P(x, u)) <= Cardinality(P(z, u))
    BY <2>2, <2>3, FS_Subset
  <2> QED
    BY <2>4 DEF OfDriver, OfPassenger
<1>3. ASSUME y[2] = "passenger"
      PROVE  OfDriver(z, TripOf[y[1]].driver) = OfDriver(x, TripOf[y[1]].driver) + 1
  <2> DEFINE d == TripOf[y[1]].driver
  <2>1. D(z, d) = D(x, d) \cup {y} /\ y \notin D(x, d) /\ D(x, d) \in SUBSET x
    BY <1>3
  <2>2. Cardinality(D(z, d)) = Cardinality(D(x, d)) + 1
    BY <2>1, FS_Subset, FS_AddElement
  <2> QED
    BY <2>2 DEF OfDriver
<1>4. ASSUME y[2] = "driver"
      PROVE  OfPassenger(z, TripOf[y[1]].passenger) = OfPassenger(x, TripOf[y[1]].passenger) + 1
  <2> DEFINE u == TripOf[y[1]].passenger
  <2>1. P(z, u) = P(x, u) \cup {y} /\ y \notin P(x, u) /\ P(x, u) \in SUBSET x
    BY <1>4
  <2>2. Cardinality(P(z, u)) = Cardinality(P(x, u)) + 1
    BY <2>1, FS_Subset, FS_AddElement
  <2> QED
    BY <2>2 DEF OfPassenger
<1> QED
  BY <1>1, <1>2, <1>3, <1>4 DEF Within

LEMMA CountsGrow ==
  ASSUME NEW row \in TaskRow, NEW x, NEW z, Within(x, z), TaskCounts(row, x)
  PROVE  TaskCounts(row, z)
<1>1. row.row.rated \in Nat /\ row.user.rated \in Nat
  BY DEF TaskRow, ProfileRow, UserRow
<1>2. OfDriver(x, row.u) \in Nat /\ OfDriver(z, row.u) \in Nat /\ OfPassenger(x, row.u) \in Nat
      /\ OfPassenger(z, row.u) \in Nat /\ OfDriver(x, row.u) <= OfDriver(z, row.u)
      /\ OfPassenger(x, row.u) <= OfPassenger(z, row.u)
  BY RatesAreNumbers DEF Within
<1> QED
  BY <1>1, <1>2 DEF TaskCounts

LEMMA IdleCounts ==
  ASSUME NEW x
  PROVE  TaskCounts(TaskIdle, x)
BY IdleTask DEF TaskCounts, Saving, SavingUser, Rating

\* What is written counts no more than what is stored, and slot t becomes row.
LEMMA RatesOneTask ==
  ASSUME DriverTypes, RateInv, NEW t \in Tasks, NEW row, TaskBecomes(t, row),
         Within(rating, rating'), TaskCounts(row, rating'), req' = req,
         \A d \in Drivers : profile'[d].rated = profile[d].rated
                              \/ profile'[d].rated <= OfDriver(rating', d),
         \A u \in Users : user'[u].rated = user[u].rated
                            \/ user'[u].rated <= OfPassenger(rating', u)
  PROVE  RateInv'
<1>1. IsFiniteSet(rating')
  BY DEF Within
<1>2. /\ \A u : OfDriver(rating, u) \in Nat /\ OfPassenger(rating, u) \in Nat
      /\ \A u : OfDriver(rating', u) \in Nat /\ OfPassenger(rating', u) \in Nat
  BY RatesAreNumbers DEF Within
<1>3. ASSUME NEW d \in Drivers PROVE profile'[d].rated <= OfDriver(rating', d)
  <2>1. profile[d].rated \in Nat /\ profile[d].rated <= OfDriver(rating, d)
    BY ProfileTypes DEF RateInv
  <2>2. OfDriver(rating, d) <= OfDriver(rating', d)
    BY DEF Within
  <2> QED
    BY <1>2, <2>1, <2>2
<1>4. ASSUME NEW u \in Users PROVE user'[u].rated <= OfPassenger(rating', u)
  <2>1. user[u].rated \in Nat /\ user[u].rated <= OfPassenger(rating, u)
    BY UserTypes DEF RateInv
  <2>2. OfPassenger(rating, u) <= OfPassenger(rating', u)
    BY DEF Within
  <2> QED
    BY <1>2, <2>1, <2>2
<1>5. ASSUME NEW r \in Reqs PROVE req'[r].row.rated <= OfDriver(rating', req'[r].d)
  <2>1. req[r].row.rated \in Nat
    BY DEF DriverTypes, PresenceTypes, ReqRow, ProfileRow
  <2> QED
    BY <1>2, <2>1 DEF RateInv, Within
<1>6. ASSUME NEW q \in Tasks PROVE TaskCounts(task'[q], rating')
  <2>1. CASE q = t
    BY <2>1 DEF TaskBecomes, DriverTypes
  <2>2. CASE q # t
    <3>1. task'[q] = task[q] /\ task[q] \in TaskRow /\ TaskCounts(task[q], rating)
      BY <2>2 DEF TaskBecomes, DriverTypes, RateInv
    <3> QED
      BY <3>1, CountsGrow
  <2> QED
    BY <2>1, <2>2
<1> QED
  BY <1>1, <1>3, <1>4, <1>5, <1>6 DEF RateInv

LEMMA RatesTask ==
  ASSUME DriverTypes, RateInv, NEW t \in Tasks, NEW row, TaskBecomes(t, row),
         TaskCounts(row, rating), UNCHANGED <<profile, req, user, rating>>
  PROVE  RateInv'
BY RatesOneTask, WithinItself DEF RateInv

LEMMA RatesFinish ==
  ASSUME DriverTypes, RateInv, NEW t \in Tasks, TaskFinish(t),
         UNCHANGED <<profile, req, user, rating>>
  PROVE  RateInv'
BY RatesTask, IdleCounts DEF TaskFinish, TaskBecomes

\* A step with which nothing is written that counts ratings.
LEMMA RatesGoto ==
  ASSUME DriverTypes, RateInv, NEW t \in Tasks,
         NEW step \in TaskStep \ (Saving \cup SavingUser), TaskGoto(t, step),
         step \in Rating => task[t].at \in Rating,
         UNCHANGED <<req, user, rating>>,
         \A d \in Drivers : profile'[d].rated = profile[d].rated \/ profile'[d].rated = 0
  PROVE  RateInv'
<1>1. PICK row \in TaskRow :
         /\ TaskBecomes(t, row) /\ row.at = step
         /\ row.u = task[t].u /\ row.row = task[t].row /\ row.user = task[t].user
         /\ row.rate = task[t].rate
  BY TaskMoves
<1>2. TaskCounts(task[t], rating)
  BY DEF RateInv
<1>3. TaskCounts(row, rating)
  BY <1>1, <1>2 DEF TaskCounts
<1>4. Within(rating, rating)
  BY WithinItself DEF RateInv
<1>5. ASSUME NEW d \in Drivers
      PROVE  profile'[d].rated = profile[d].rated \/ profile'[d].rated <= OfDriver(rating, d)
  <2>1. OfDriver(rating, d) \in Nat
    BY <1>4, RatesAreNumbers DEF Within
  <2> QED
    BY <2>1
<1> QED
  BY <1>1, <1>3, <1>4, <1>5, RatesOneTask

\* A task that begins or goes on with nothing that counts ratings.
LEMMA RatesElsewhere ==
  ASSUME DriverTypes, RateInv, NEW t \in Tasks, NEW row, TaskBecomes(t, row),
         row.at \notin Saving \cup SavingUser \cup Rating,
         UNCHANGED <<profile, req, user, rating>>
  PROVE  RateInv'
BY RatesTask DEF TaskCounts

\* A task that is about to save the row it just read, with the ratings it has there.
LEMMA RatesSaving ==
  ASSUME DriverTypes, RateInv, NEW t \in Tasks, NEW row, TaskBecomes(t, row),
         row.at \in Saving, row.u \in Drivers, row.row.rated = profile[row.u].rated,
         UNCHANGED <<profile, req, user, rating>>
  PROVE  RateInv'
<1>1. row.at \notin SavingUser \cup Rating
  BY DEF Saving, SavingUser, Rating
<1>2. row.row.rated <= OfDriver(rating, row.u)
  BY DEF RateInv
<1>3. TaskCounts(row, rating)
  BY <1>1, <1>2 DEF TaskCounts
<1> QED
  BY <1>3, RatesTask

\* A task saves its row of the profile and ends.
LEMMA RatesSaved ==
  ASSUME DriverTypes, RateInv, NEW t \in Tasks, TaskFinish(t), task[t].at \in Saving,
         SaveProfile(task[t].u, task[t].row), UNCHANGED <<req, user, rating>>
  PROVE  RateInv'
<1>1. task[t].row.rated <= OfDriver(rating, task[t].u)
  BY DEF RateInv, TaskCounts
<1>2. ASSUME NEW d \in Drivers
      PROVE  profile'[d].rated = profile[d].rated \/ profile'[d].rated <= OfDriver(rating, d)
  BY <1>1 DEF SaveProfile, DriverTypes, PresenceTypes
<1>3. Within(rating, rating)
  BY WithinItself DEF RateInv
<1> QED
  BY <1>2, <1>3, IdleCounts, RatesOneTask DEF TaskFinish, TaskBecomes

LEMMA RatesSubmitted ==
  ASSUME DriverTypes, RateInv, NEW t \in Tasks, SubmitRating(t)
  PROVE  RateInv'
<1>1. PICK row : TaskBecomes(t, row) /\ Submitted(row)
  BY SubmittedRow
<1>2. row.at \in Rating /\ row.at \notin Saving \cup SavingUser
  BY <1>1 DEF Submitted, Finding, Saving, SavingUser, Rating
<1>3. ASSUME row.rate[2] = "passenger"
      PROVE  /\ row.u = TripOf[row.rate[1]].driver
             /\ row.row.rated <= OfDriver(rating, row.u) + 1
  <2>1. /\ row.u = TripOf[row.rate[1]].driver /\ row.u \in Drivers
        /\ row.row.rated = profile[row.u].rated + 1
    BY <1>1, <1>3 DEF Submitted
  <2>2. profile[row.u].rated \in Nat /\ profile[row.u].rated <= OfDriver(rating, row.u)
    BY <2>1, ProfileTypes DEF RateInv
  <2>3. OfDriver(rating, row.u) \in Nat
    BY RatesAreNumbers DEF RateInv
  <2> QED
    BY <2>1, <2>2, <2>3
<1>4. ASSUME row.rate[2] # "passenger"
      PROVE  /\ row.u = TripOf[row.rate[1]].passenger
             /\ row.user.rated <= OfPassenger(rating, row.u) + 1
  <2>1. /\ row.u = TripOf[row.rate[1]].passenger /\ row.u \in Users
        /\ row.user.rated = user[row.u].rated + 1
    BY <1>1, <1>4 DEF Submitted
  <2>2. user[row.u].rated \in Nat /\ user[row.u].rated <= OfPassenger(rating, row.u)
    BY <2>1, UserTypes DEF RateInv
  <2>3. OfPassenger(rating, row.u) \in Nat
    BY RatesAreNumbers DEF RateInv
  <2> QED
    BY <2>1, <2>2, <2>3
<1>5. TaskCounts(row, rating)
  BY <1>2, <1>3, <1>4 DEF TaskCounts
<1> QED
  BY <1>1, <1>5, RatesTask DEF SubmitRating, sideVars

LEMMA RatesCreated ==
  ASSUME DriverTypes, RateInv, NEW t \in Tasks, CreateRating(t)
  PROVE  RateInv'
<1> DEFINE y == task[t].rate
<1>1. CASE y \in rating
  BY <1>1, RatesFinish DEF CreateRating, sideVars
<1>2. CASE y \notin rating
  <2>1. /\ rating' = rating \cup {y} /\ UNCHANGED <<profile, req, user>>
        /\ TaskGoto(t, IF y[2] = "passenger" THEN "save profile" ELSE "save user")
    BY <1>2 DEF CreateRating, sideVars
  <2>2. task[t].at \in Rating /\ y[2] \in Roles
    <3>1. task[t].at \in {"find rating", "create rating"}
      BY DEF CreateRating, TaskAt
    <3>2. y \in Rates
      BY <3>1, TaskTypes DEF TaskOK
    <3> QED
      BY <3>1, <3>2 DEF Rating, Rates
  <2>3. TaskCounts(task[t], rating) /\ IsFiniteSet(rating)
    BY DEF RateInv
  <2>4. Within(rating, rating')
    BY <1>2, <2>1, <2>3, RatesGrow
  <2>5. task[t].row.rated \in Nat /\ task[t].user.rated \in Nat
    BY TaskTypes DEF TaskRow, ProfileRow, UserRow
  <2>6. /\ y[2] = "passenger" =>
             OfDriver(rating', TripOf[y[1]].driver) = OfDriver(rating, TripOf[y[1]].driver) + 1
        /\ y[2] = "driver" =>
             OfPassenger(rating', TripOf[y[1]].passenger)
               = OfPassenger(rating, TripOf[y[1]].passenger) + 1
    BY <1>2, <2>1, <2>3, RatesGrow
  <2>7. CASE y[2] = "passenger"
    <3>1. PICK step \in Saving : step \in TaskStep /\ TaskGoto(t, step)
      BY <2>1, <2>7 DEF Saving, TaskStep
    <3>2. PICK row : /\ TaskBecomes(t, row) /\ row.at = step
                     /\ row.u = task[t].u /\ row.row = task[t].row
      BY <3>1, TaskMoves
    <3>3. row.at \notin SavingUser \cup Rating
      BY <3>1, <3>2, StepsApart
    <3>4. row.u = TripOf[y[1]].driver /\ row.row.rated <= OfDriver(rating, row.u) + 1
      BY <2>2, <2>3, <2>7, <3>2 DEF TaskCounts
    <3>5. OfDriver(rating', row.u) = OfDriver(rating, row.u) + 1
      BY <2>7, <2>6, <3>4
    <3>6. TaskCounts(row, rating')
      BY <3>3, <3>4, <3>5 DEF TaskCounts
    <3> QED
      BY <2>1, <2>4, <3>2, <3>6, RatesOneTask
  <2>8. CASE y[2] # "passenger"
    <3>1. PICK step \in SavingUser : step \in TaskStep /\ TaskGoto(t, step)
      BY <2>1, <2>8 DEF SavingUser, TaskStep
    <3>2. PICK row : /\ TaskBecomes(t, row) /\ row.at = step
                     /\ row.u = task[t].u /\ row.user = task[t].user
      BY <3>1, TaskMoves
    <3>3. row.at \notin Saving \cup Rating
      BY <3>1, <3>2, StepsApart
    <3>4. row.u = TripOf[y[1]].passenger /\ row.user.rated <= OfPassenger(rating, row.u) + 1
      BY <2>2, <2>3, <2>8, <3>2 DEF TaskCounts
    <3>5. OfPassenger(rating', row.u) = OfPassenger(rating, row.u) + 1
      BY <2>2, <2>8, <2>6, <3>4 DEF Roles
    <3>6. TaskCounts(row, rating')
      BY <3>3, <3>4, <3>5 DEF TaskCounts
    <3> QED
      BY <2>1, <2>4, <3>2, <3>6, RatesOneTask
  <2> QED
    BY <2>7, <2>8
<1> QED
  BY <1>1, <1>2

LEMMA RatesTaskStep ==
  ASSUME DriverTypes, RateInv, NEW t \in Tasks, Task(t)
  PROVE  RateInv'
<1> USE DEF sideVars
<1>1. CASE Register(t)
  <2>1. PICK d : TaskBecomes(t, [TaskIdle EXCEPT !.at = "create profile", !.u = d])
    BY <1>1 DEF Register, TaskBecomes
  <2>2. [TaskIdle EXCEPT !.at = "create profile", !.u = d].at = "create profile"
    BY DEF TaskIdle
  <2> QED
    BY <1>1, <2>1, <2>2, RatesElsewhere DEF Register, Saving, SavingUser, Rating
<1>2. CASE CreateProfile(t)
  <2>1. CASE TaskFinish(t) /\ UNCHANGED profile
    BY <1>2, <2>1, RatesFinish DEF CreateProfile
  <2>2. CASE /\ SaveProfile(task[t].u, [NoProfile EXCEPT !.status = "pending"])
             /\ TaskGoto(t, "store documents")
    <3>1. [NoProfile EXCEPT !.status = "pending"].rated = 0
      BY DEF NoProfile
    <3>2. ASSUME NEW d \in Drivers PROVE profile'[d].rated = profile[d].rated \/ profile'[d].rated = 0
      BY <2>2, <3>1 DEF SaveProfile, DriverTypes, PresenceTypes
    <3>3. PICK step \in TaskStep : /\ TaskGoto(t, step)
                                   /\ step \notin Saving \cup SavingUser \cup Rating
      BY <2>2 DEF TaskStep, Saving, SavingUser, Rating
    <3> QED
      BY <1>2, <3>2, <3>3, RatesGoto DEF CreateProfile
  <2> QED
    BY <1>2, <2>1, <2>2 DEF CreateProfile
<1>3. CASE StoreDocuments(t) \/ VerifyTransaction(t)
  <2>1. PICK step \in TaskStep : /\ TaskGoto(t, step)
                                 /\ step \notin Saving \cup SavingUser \cup Rating
    BY <1>3 DEF StoreDocuments, VerifyTransaction, TaskStep, Saving, SavingUser, Rating
  <2> QED
    BY <1>3, <2>1, RatesGoto DEF StoreDocuments, VerifyTransaction
<1>4. CASE FindRegisteredUser(t)
  <2> DEFINE y == [user[task[t].u] EXCEPT !.role = "driver"]
             row == [task[t] EXCEPT !.at = "save user", !.user = y]
  <2>1. task[t] \in TaskRow /\ task[t].u \in Users
    BY <1>4, TaskTypes, PayeeTypes DEF FindRegisteredUser, TaskAt, TaskOK, ForDriver
  <2>2. y.rated = user[task[t].u].rated
    BY <2>1, UserTypes DEF UserRow
  <2>3. TaskBecomes(t, row)
    BY <1>4 DEF FindRegisteredUser, TaskBecomes, DriverTypes
  <2> HIDE DEF y
  <2>4. row.at = "save user" /\ row.u = task[t].u /\ row.user = y
    BY <2>1 DEF TaskRow
  <2>5. row.at \in SavingUser /\ row.at \notin Saving \cup Rating
    BY <2>4 DEF SavingUser, Saving, Rating
  <2> HIDE DEF row
  <2>6. TaskCounts(row, rating)
    BY <2>1, <2>2, <2>4, <2>5 DEF TaskCounts, RateInv
  <2> QED
    BY <1>4, <2>3, <2>6, RatesTask DEF FindRegisteredUser
<1>5. CASE SaveTaskUser(t)
  <2>1. task[t].at \in SavingUser
    BY <1>5 DEF SaveTaskUser, TaskAt, SavingUser
  <2>2. task[t].user.rated <= OfPassenger(rating, task[t].u)
    BY <2>1 DEF RateInv, TaskCounts
  <2>3. ASSUME NEW u \in Users
        PROVE  user'[u].rated = user[u].rated \/ user'[u].rated <= OfPassenger(rating, u)
    BY <1>5, <2>2 DEF SaveTaskUser, SaveUser, DriverTypes
  <2>4. Within(rating, rating) /\ TaskBecomes(t, TaskIdle)
    BY <1>5, WithinItself DEF RateInv, SaveTaskUser, TaskFinish, TaskBecomes
  <2>5. UNCHANGED <<profile, req, rating>>
    BY <1>5 DEF SaveTaskUser
  <2> QED
    BY <2>3, <2>4, <2>5, IdleCounts, RatesOneTask
<1>6. CASE VerifyDriver(t)
  <2>1. PICK d \in Drivers, status \in {"approved", "rejected"} :
          TaskBecomes(t, [TaskIdle EXCEPT !.at = "save profile", !.u = d,
                            !.row = [profile[d] EXCEPT !.status = status]])
    BY <1>6 DEF VerifyDriver, TaskBecomes
  <2> DEFINE x == [profile[d] EXCEPT !.status = status]
             row == [TaskIdle EXCEPT !.at = "save profile", !.u = d, !.row = x]
  <2>2. x.rated = profile[d].rated
    BY ProfileTypes DEF ProfileRow
  <2>3. TaskBecomes(t, row)
    BY <2>1
  <2> HIDE DEF x
  <2>4. row.at = "save profile" /\ row.u = d /\ row.row = x
    BY DEF TaskIdle
  <2>5. row.at \in Saving
    BY <2>4 DEF Saving
  <2> HIDE DEF row
  <2>6. UNCHANGED <<profile, req, user, rating>>
    BY <1>6 DEF VerifyDriver
  <2> QED
    BY <2>2, <2>3, <2>4, <2>5, <2>6, RatesSaving
<1>7. CASE SaveTaskProfile(t) \/ SaveGrant(t)
  <2>1. task[t].at \in Saving
    BY <1>7 DEF SaveTaskProfile, SaveGrant, TaskAt, Saving
  <2> QED
    BY <1>7, <2>1, RatesSaved DEF SaveTaskProfile, SaveGrant
<1>8. CASE GrantDays(t)
  <2>1. PICK d \in Drivers, n \in 1 .. MaxDays - book.admin :
          TaskBecomes(t, [TaskIdle EXCEPT !.at = "grant", !.u = d, !.days = n,
                                          !.row = [profile[d] EXCEPT !.days = @ + n]])
    BY <1>8 DEF GrantDays, TaskBecomes
  <2> DEFINE x == [profile[d] EXCEPT !.days = @ + n]
             row == [TaskIdle EXCEPT !.at = "grant", !.u = d, !.days = n, !.row = x]
  <2>2. x.rated = profile[d].rated
    BY ProfileTypes DEF ProfileRow
  <2>3. TaskBecomes(t, row)
    BY <2>1
  <2> HIDE DEF x
  <2>4. row.at = "grant" /\ row.u = d /\ row.row = x
    BY DEF TaskIdle
  <2>5. row.at \in Saving
    BY <2>4 DEF Saving
  <2> HIDE DEF row
  <2>6. UNCHANGED <<profile, req, user, rating>>
    BY <1>8 DEF GrantDays
  <2> QED
    BY <2>2, <2>3, <2>4, <2>5, <2>6, RatesSaving
<1>9. CASE Checkout(t)
  <2>1. PICK d, p : TaskBecomes(t, [TaskIdle EXCEPT !.at = "store payment", !.u = d, !.p = p])
    BY <1>9 DEF Checkout, TaskBecomes
  <2>2. [TaskIdle EXCEPT !.at = "store payment", !.u = d, !.p = p].at = "store payment"
    BY DEF TaskIdle
  <2> QED
    BY <1>9, <2>1, <2>2, RatesElsewhere DEF Checkout, Saving, SavingUser, Rating
<1>10. CASE StorePayment(t) \/ VerifyUnanswered(t) \/ TaskAbandon(t)
  BY <1>10, RatesFinish DEF StorePayment, VerifyUnanswered, TaskAbandon
<1>11. CASE \E p \in Payments : HandleWebhook(t, p)
  <2>1. PICK p \in Payments : HandleWebhook(t, p)
    BY <1>11
  <2>2. [TaskIdle EXCEPT !.at = "verify", !.p = p].at = "verify"
    BY DEF TaskIdle
  <2>3. TaskBecomes(t, [TaskIdle EXCEPT !.at = "verify", !.p = p])
    BY <2>1 DEF HandleWebhook, TaskBecomes
  <2> QED
    BY <2>1, <2>2, <2>3, RatesElsewhere DEF HandleWebhook, Saving, SavingUser, Rating
<1>12. CASE SavePayment(t)
  <2>1. CASE TaskFinish(t)
    BY <1>12, <2>1, RatesFinish DEF SavePayment
  <2>2. CASE TaskGoto(t, "load for grant")
    <3>1. PICK step \in TaskStep : /\ TaskGoto(t, step)
                                   /\ step \notin Saving \cup SavingUser \cup Rating
      BY <2>2 DEF TaskStep, Saving, SavingUser, Rating
    <3> QED
      BY <1>12, <3>1, RatesGoto DEF SavePayment
  <2> QED
    BY <1>12, <2>1, <2>2 DEF SavePayment
<1>13. CASE LoadForGrant(t)
  <2> DEFINE d == payment[task[t].p].driver
             x == [profile[d] EXCEPT !.days = @ + CycleDays]
             row == [task[t] EXCEPT !.at = "grant", !.u = d, !.days = CycleDays, !.row = x]
  <2>1. d \in Drivers /\ task[t] \in TaskRow
    BY <1>13, TaskTypes DEF LoadForGrant, TaskAt, TaskOK, Settling
  <2>2. x.rated = profile[d].rated
    BY <2>1, ProfileTypes DEF ProfileRow
  <2>3. TaskBecomes(t, row)
    BY <1>13 DEF LoadForGrant, TaskBecomes, DriverTypes
  <2> HIDE DEF x, d
  <2>4. row.at = "grant" /\ row.u = d /\ row.row = x
    BY <2>1 DEF TaskRow
  <2>5. row.at \in Saving
    BY <2>4 DEF Saving
  <2> HIDE DEF row
  <2>6. UNCHANGED <<profile, req, user, rating>>
    BY <1>13 DEF LoadForGrant
  <2> QED
    BY <2>1, <2>2, <2>3, <2>4, <2>5, <2>6, RatesSaving
<1>14. CASE SubmitRating(t)
  BY <1>14, RatesSubmitted
<1>15. CASE FindRating(t)
  <2>1. CASE TaskFinish(t)
    BY <1>15, <2>1, RatesFinish DEF FindRating
  <2>2. CASE TaskGoto(t, "create rating")
    <3>1. PICK step \in Rating : TaskGoto(t, step)
      BY <2>2 DEF Rating
    <3>2. step \in TaskStep \ (Saving \cup SavingUser) /\ task[t].at \in Rating
      <4>1. task[t].at \in Rating
        BY <1>15 DEF FindRating, TaskAt, Rating
      <4> QED
        BY <4>1, StepsApart
    <3> QED
      BY <1>15, <3>1, <3>2, RatesGoto DEF FindRating
  <2> QED
    BY <1>15, <2>1, <2>2 DEF FindRating
<1>16. CASE CreateRating(t)
  BY <1>16, RatesCreated
<1> QED
  BY <1>1, <1>2, <1>3, <1>4, <1>5, <1>6, <1>7, <1>8, <1>9, <1>10, <1>11, <1>12, <1>13,
     <1>14, <1>15, <1>16 DEF Task, Webhook

LEMMA RatesInit == DriverInit => RateInv
<1> SUFFICES ASSUME DriverInit PROVE RateInv
  OBVIOUS
<1>1. rating = {} /\ IsFiniteSet(rating)
  BY FS_EmptySet DEF DriverInit
<1>2. \A u : OfDriver(rating, u) \in Nat /\ OfPassenger(rating, u) \in Nat
  BY <1>1, RatesAreNumbers
<1>3. NoProfile.rated = 0 /\ NewUser.rated = 0 /\ ShiftIdle.row = NoProfile
  BY DEF NoProfile, NewUser, ShiftIdle
<1>4. \A t \in Tasks : TaskCounts(task[t], rating)
  BY IdleCounts DEF DriverInit
<1>5. /\ \A d \in Drivers : profile[d].rated = 0
      /\ \A u \in Users : user[u].rated = 0
      /\ \A r \in Reqs : req[r].row.rated = 0
  BY <1>3 DEF DriverInit
<1> QED
  BY <1>1, <1>2, <1>4, <1>5 DEF RateInv

LEMMA RatesNext == DriverTyped /\ RateInv /\ [DriverNext]_driverVars => RateInv'
<1> SUFFICES ASSUME DriverTyped, RateInv, [DriverNext]_driverVars PROVE RateInv'
  OBVIOUS
<1>0. DriverTypes /\ PresenceTypes
  BY DEF DriverTyped, DriverTypes
<1>1. ASSUME NEW t \in Tasks, Task(t) PROVE RateInv'
  BY <1>0, <1>1, RatesTaskStep
<1>2. ASSUME NEW p \in Payments, Pay(p) PROVE RateInv'
  BY <1>2 DEF Pay, sideVars, RateInv
<1>3. CASE DayPasses
  <2>1. \A d \in Drivers : profile'[d].rated = profile[d].rated
    BY <1>0, <1>3, ElapsedSlots, ElapsedRow, ProfileTypes
  <2>2. ASSUME NEW r \in Reqs PROVE req'[r].row.rated = req[r].row.rated /\ req'[r].d = req[r].d
    <3>1. req[r].row \in ProfileRow
      BY <1>0 DEF PresenceTypes, ReqRow
    <3> QED
      BY <1>0, <1>3, <3>1, ElapsedSlots, ElapsedRow
  <2>3. ASSUME NEW t \in Tasks PROVE TaskCounts(task'[t], rating)
    <3>1. task[t].row \in ProfileRow /\ TaskCounts(task[t], rating)
      BY <1>0, TaskTypes DEF TaskRow, RateInv
    <3>2. /\ task'[t].row.rated = task[t].row.rated /\ task'[t].user = task[t].user
          /\ task'[t].at = task[t].at /\ task'[t].u = task[t].u /\ task'[t].rate = task[t].rate
      BY <1>0, <1>3, <3>1, ElapsedSlots, ElapsedRow
    <3> QED
      BY <3>1, <3>2 DEF TaskCounts
  <2> QED
    BY <1>3, <2>1, <2>2, <2>3 DEF RateInv, DayPasses, sideVars
<1>4. ASSUME NEW r \in Reqs, Presence(r) \/ Jobs(r),
             UNCHANGED <<user, docs, rating, payment, bank, task, book>>
      PROVE  RateInv'
  <2>1. PresenceCopies
    BY <1>0, <1>4, PresenceRows, JobRows
  <2>2. \A u : OfDriver(rating, u) \in Nat
    BY RatesAreNumbers DEF RateInv
  <2>3. NoProfile.rated = 0
    BY DEF NoProfile
  <2>4. ASSUME NEW d \in Drivers PROVE profile'[d].rated <= OfDriver(rating, d)
    BY <2>1 DEF PresenceCopies, ProfileCopies, Copies, RateInv
  <2>5. ASSUME NEW q \in Reqs PROVE req'[q].row.rated <= OfDriver(rating, req'[q].d)
    <3>1. CASE Copies(req'[q].row, NoProfile)
      <4>1. OfDriver(rating, req'[q].d) \in Nat
        BY <2>2
      <4> QED
        BY <2>3, <3>1, <4>1 DEF Copies
    <3>2. CASE ~Copies(req'[q].row, NoProfile)
      BY <2>1, <3>2 DEF PresenceCopies, SlotCopies, Copies, RateInv
    <3> QED
      BY <3>1, <3>2
  <2> QED
    BY <1>4, <2>4, <2>5 DEF RateInv
<1>5. CASE UNCHANGED driverVars
  BY <1>5 DEF driverVars, RateInv
<1> QED
  BY <1>1, <1>2, <1>3, <1>4, <1>5 DEF DriverNext

\* However many requests save a profile or a user as they read it, a mean never counts a
\* rating that is not stored and none twice (SubmitRating, FindByTripAndRater).
THEOREM RatingsCounted == DriverSpec => []RatedOnce
<1>1. RateInv => RatedOnce
  BY DEF RateInv, RatedOnce, OfDriver, OfPassenger
<1>2. DriverInit => DriverTyped /\ RateInv
  BY DriverInitTypes, RatesInit
<1>3. DriverTyped /\ RateInv /\ [DriverNext]_driverVars => DriverTyped' /\ RateInv'
  BY DriverNextTypes, RatesNext
<1> QED
  BY <1>1, <1>2, <1>3, PTL DEF DriverSpec

-----------------------------------------------------------------------------
(* Payments: webhooks do not overlap *)

\* At most one slot handles webhooks.
OneWebhook ==
  \A t, q \in Tasks : "webhook" \in TaskServes[t] /\ "webhook" \in TaskServes[q] => t = q

Storing   == {"store payment"}
Verifying == {"verify", "fail"}
Crediting == {"settle"}
Loading   == {"load for grant"}
Granting  == {"grant"}

\* The steps that handle a webhook, the last of them with what was paid.
Credits(row) == row.at \in Loading \/ (row.at \in Granting /\ row.p # NoDriver)
Handles(row) == row.at \in Verifying \cup Crediting \/ Credits(row)

\* What slot t knows of its payment: it is not stored yet; or it is, and nothing was
\* granted for it; it was paid in full; and it is settled.
TaskPays(t, row, payments, accounts, grants) ==
  /\ row.at \in Storing =>
       row.p \in Payments /\ accounts[row.p] # "none" /\ payments[row.p].status = "none"
  /\ Handles(row) =>
       /\ "webhook" \in TaskServes[t] /\ row.p \in Payments
       /\ payments[row.p].status # "none" /\ grants[row.p] = 0
  /\ row.at \in Crediting \/ Credits(row) => accounts[row.p] = "paid"
  /\ Credits(row) => payments[row.p].status = "successful"
  /\ Credits(row) /\ row.at \in Granting => row.days = CycleDays

GrantsOK(payments, accounts, grants) ==
  \A p \in Payments :
    /\ accounts[p] = "none" => payments[p].status = "none"
    /\ payments[p].status \in {"none", "initiated"} => grants[p] = 0
    /\ grants[p] > 0 => accounts[p] = "paid"

PayInv ==
  /\ GrantsOK(payment, bank, book.grants)
  /\ \A t \in Tasks : TaskPays(t, task[t], payment, bank, book.grants)
  /\ \A t, q \in Tasks :
       task[t].at \in Storing /\ task[q].at \in Storing /\ task[t].p = task[q].p => t = q

LEMMA PaySteps ==
  /\ Storing \cup Verifying \cup Crediting \cup Loading \cup Granting \subseteq TaskStep
  /\ \A x \in {Verifying, Crediting, Loading, Granting} : Storing \cap x = {}
  /\ \A x \in {Crediting, Loading, Granting} : Verifying \cap x = {}
  /\ \A x \in {Loading, Granting} : Crediting \cap x = {}
  /\ Loading \cap Granting = {}
  /\ Settling = Verifying \cup Crediting \cup Loading
BY DEF Storing, Verifying, Crediting, Loading, Granting, TaskStep, Settling

\* A step that has nothing to do with a payment.
Idles(row) == row.at \notin Storing /\ ~Handles(row)

LEMMA IdlePays == Idles(TaskIdle)
BY IdleTask DEF Idles, Handles, Credits, Storing, Verifying, Crediting, Loading, Granting

LEMMA IdlesPay ==
  ASSUME NEW row, Idles(row), NEW t, NEW a, NEW b, NEW c
  PROVE  TaskPays(t, row, a, b, c)
BY DEF Idles, Handles, TaskPays

\* Only slot t changes, and neither a payment nor a grant.
LEMMA PaysTask ==
  ASSUME DriverTypes, PayInv, NEW t \in Tasks, NEW row, TaskBecomes(t, row),
         TaskPays(t, row, payment, bank, book.grants), row.at \notin Storing,
         payment' = payment, bank' = bank, book'.grants = book.grants
  PROVE  PayInv'
<1>1. \A q \in Tasks : task'[q] = IF q = t THEN row ELSE task[q]
  BY DEF TaskBecomes, DriverTypes
<1>2. \A q \in Tasks : TaskPays(q, task'[q], payment', bank', book'.grants)
  BY <1>1 DEF PayInv
<1>3. \A q, s \in Tasks :
        task'[q].at \in Storing /\ task'[s].at \in Storing /\ task'[q].p = task'[s].p => q = s
  BY <1>1 DEF PayInv
<1> QED
  BY <1>2, <1>3 DEF PayInv

\* A slot begins or ends something that has nothing to do with a payment.
LEMMA PaysElsewhere ==
  ASSUME DriverTypes, PayInv, NEW t \in Tasks, NEW row, TaskBecomes(t, row), Idles(row),
         payment' = payment, bank' = bank, book'.grants = book.grants
  PROVE  PayInv'
<1>1. TaskPays(t, row, payment, bank, book.grants) /\ row.at \notin Storing
  BY IdlesPay DEF Idles
<1> QED
  BY <1>1, PaysTask

LEMMA PaysFinish ==
  ASSUME DriverTypes, PayInv, NEW t \in Tasks, TaskFinish(t),
         payment' = payment, bank' = bank, book'.grants = book.grants
  PROVE  PayInv'
BY IdlePays, PaysElsewhere DEF TaskFinish, TaskBecomes

LEMMA PaysGotoElsewhere ==
  ASSUME DriverTypes, PayInv, NEW t \in Tasks, NEW step \in TaskStep, TaskGoto(t, step),
         step \notin Storing \cup Verifying \cup Crediting \cup Loading \cup Granting,
         payment' = payment, bank' = bank, book'.grants = book.grants
  PROVE  PayInv'
<1>1. PICK row \in TaskRow : TaskBecomes(t, row) /\ row.at = step
  BY TaskMoves
<1>2. Idles(row)
  BY <1>1 DEF Idles, Handles, Credits
<1> QED
  BY <1>1, <1>2, PaysElsewhere

\* A slot knows what it knew when nothing changes of its payment.
LEMMA OthersPay ==
  ASSUME NEW q, NEW row, NEW a, NEW b, NEW c, NEW a2, NEW b2, NEW c2,
         TaskPays(q, row, a, b, c),
         (row.at \in Storing \/ Handles(row)) =>
           a2[row.p] = a[row.p] /\ b2[row.p] = b[row.p] /\ c2[row.p] = c[row.p]
  PROVE  TaskPays(q, row, a2, b2, c2)
BY DEF TaskPays, Handles

\* No other slot stores or handles the payment that slot t handles.
LEMMA PaymentIsAlone ==
  ASSUME OneWebhook, PayInv, NEW t \in Tasks, NEW q \in Tasks, q # t,
         Handles(task[t]) \/ task[t].at \in Storing,
         task[q].at \in Storing \/ Handles(task[q])
  PROVE  task[q].p # task[t].p
<1>1. TaskPays(t, task[t], payment, bank, book.grants)
      /\ TaskPays(q, task[q], payment, bank, book.grants)
  BY DEF PayInv
<1>2. CASE Handles(task[t]) /\ Handles(task[q])
  BY <1>1, <1>2 DEF TaskPays, OneWebhook
<1>3. CASE task[t].at \in Storing /\ task[q].at \in Storing
  BY <1>3 DEF PayInv
<1>4. CASE Handles(task[t]) /\ task[q].at \in Storing
  BY <1>1, <1>4 DEF TaskPays
<1>5. CASE task[t].at \in Storing /\ Handles(task[q])
  BY <1>1, <1>5 DEF TaskPays
<1> QED
  BY <1>2, <1>3, <1>4, <1>5

\* Slot t takes a step with its own payment, which stays right.
LEMMA PaysItsOwn ==
  ASSUME OneWebhook, DriverTypes, PayInv, NEW t \in Tasks, NEW row, TaskBecomes(t, row),
         Handles(task[t]) \/ task[t].at \in Storing,
         row.at \notin Storing, TaskPays(t, row, payment', bank', book'.grants),
         bank' = bank, GrantsOK(payment', bank', book'.grants),
         \A s \in Payments : s # task[t].p => /\ payment'[s] = payment[s]
                                              /\ book'.grants[s] = book.grants[s]
  PROVE  PayInv'
<1>1. \A q \in Tasks : task'[q] = IF q = t THEN row ELSE task[q]
  BY DEF TaskBecomes, DriverTypes
<1>2. ASSUME NEW q \in Tasks PROVE TaskPays(q, task'[q], payment', bank', book'.grants)
  <2>1. CASE q = t
    BY <1>1, <2>1
  <2>2. CASE q # t
    <3>1. task'[q] = task[q] /\ TaskPays(q, task[q], payment, bank, book.grants)
      BY <1>1, <2>2 DEF PayInv
    <3>2. (task[q].at \in Storing \/ Handles(task[q])) =>
            /\ payment'[task[q].p] = payment[task[q].p] /\ bank'[task[q].p] = bank[task[q].p]
            /\ book'.grants[task[q].p] = book.grants[task[q].p]
      BY <2>2, <3>1, PaymentIsAlone DEF TaskPays
    <3>3. TaskPays(q, task[q], payment', bank', book'.grants)
      BY <3>1, <3>2, OthersPay
    <3> QED
      BY <3>1, <3>3
  <2> QED
    BY <2>1, <2>2
<1>3. \A q, s \in Tasks :
        task'[q].at \in Storing /\ task'[s].at \in Storing /\ task'[q].p = task'[s].p => q = s
  BY <1>1 DEF PayInv
<1> QED
  BY <1>2, <1>3 DEF PayInv

LEMMA PaysCheckout ==
  ASSUME DriverTypes, PayInv, NEW t \in Tasks, Checkout(t)
  PROVE  PayInv'
<1>1. PICK d \in Drivers, p \in Payments :
        /\ bank[p] = "none" /\ bank' = [bank EXCEPT ![p] = "open"]
        /\ TaskBecomes(t, [TaskIdle EXCEPT !.at = "store payment", !.u = d, !.p = p])
  BY DEF Checkout, TaskBecomes
<1>2. payment' = payment /\ book' = book
  BY DEF Checkout
<1> DEFINE row == [TaskIdle EXCEPT !.at = "store payment", !.u = d, !.p = p]
<1>3. row.at \in Storing /\ row.p = p /\ ~Handles(row)
  BY DEF TaskIdle, Storing, Handles, Credits, Verifying, Crediting, Loading, Granting
<1>4. TaskBecomes(t, row)
  BY <1>1
<1> HIDE DEF row
<1>5. \A q \in Tasks : task'[q] = IF q = t THEN row ELSE task[q]
  BY <1>4 DEF TaskBecomes, DriverTypes
<1>6. payment[p].status = "none" /\ bank'[p] = "open" /\ \A s \in Payments : s # p => bank'[s] = bank[s]
  BY <1>1 DEF PayInv, GrantsOK, DriverTypes
<1>7. ASSUME NEW q \in Tasks
      PROVE  /\ TaskPays(q, task[q], payment, bank, book.grants)
             /\ task[q].at \in Storing \/ Handles(task[q]) => task[q].p # p
  BY <1>1, <1>6 DEF PayInv, TaskPays
<1>8. ASSUME NEW q \in Tasks PROVE TaskPays(q, task'[q], payment', bank', book'.grants)
  <2>1. CASE q = t
    BY <1>2, <1>3, <1>5, <1>6, <2>1 DEF TaskPays, Handles
  <2>2. CASE q # t
    <3>1. (task[q].at \in Storing \/ Handles(task[q])) =>
            /\ payment'[task[q].p] = payment[task[q].p] /\ bank'[task[q].p] = bank[task[q].p]
            /\ book'.grants[task[q].p] = book.grants[task[q].p]
      BY <1>2, <1>6, <1>7 DEF TaskPays
    <3>2. TaskPays(q, task[q], payment', bank', book'.grants)
      BY <1>7, <3>1, OthersPay
    <3> QED
      BY <1>5, <2>2, <3>2
  <2> QED
    BY <2>1, <2>2
<1>9. \A q, s \in Tasks :
        task'[q].at \in Storing /\ task'[s].at \in Storing /\ task'[q].p = task'[s].p => q = s
  BY <1>3, <1>5, <1>7 DEF PayInv
<1>10. GrantsOK(payment', bank', book'.grants)
  <2>1. book.grants[p] > 0 => bank[p] = "paid"
    BY DEF PayInv, GrantsOK
  <2>2. ASSUME NEW s \in Payments
        PROVE  /\ bank'[s] = "none" => payment[s].status = "none"
               /\ payment[s].status \in {"none", "initiated"} => book.grants[s] = 0
               /\ book.grants[s] > 0 => bank'[s] = "paid"
    BY <1>1, <1>6, <2>1 DEF PayInv, GrantsOK
  <2> QED
    BY <1>2, <2>2 DEF GrantsOK
<1> QED
  BY <1>8, <1>9, <1>10 DEF PayInv

LEMMA PaysPay ==
  ASSUME DriverTypes, PayInv, NEW p \in Payments, Pay(p)
  PROVE  PayInv'
<1>1. PICK how \in {"paid", "short"} : bank[p] = "open" /\ bank' = [bank EXCEPT ![p] = how]
  BY DEF Pay
<1>2. UNCHANGED <<payment, task, book>>
  BY DEF Pay
<1>3. bank'[p] = how /\ \A s \in Payments : s # p => bank'[s] = bank[s]
  BY <1>1 DEF DriverTypes
<1>4. ASSUME NEW t \in Tasks PROVE TaskPays(t, task[t], payment, bank', book.grants)
  BY <1>1, <1>3 DEF PayInv, TaskPays, Handles
<1>5. GrantsOK(payment, bank', book.grants)
  BY <1>1, <1>3 DEF PayInv, GrantsOK
<1> QED
  BY <1>2, <1>4, <1>5 DEF PayInv

LEMMA PaysStored ==
  ASSUME OneWebhook, DriverTypes, PayInv, NEW t \in Tasks, StorePayment(t)
  PROVE  PayInv'
<1>1. task[t].at \in Storing
  BY DEF StorePayment, TaskAt, Storing
<1>2. /\ task[t].p \in Payments /\ bank[task[t].p] # "none" /\ payment[task[t].p].status = "none"
      /\ book.grants[task[t].p] = 0
  BY <1>1 DEF PayInv, TaskPays, GrantsOK
<1>3. /\ payment' = [payment EXCEPT ![task[t].p] = [status |-> "initiated", driver |-> task[t].u]]
      /\ TaskBecomes(t, TaskIdle) /\ bank' = bank /\ book' = book
  BY DEF StorePayment, TaskFinish, TaskBecomes
<1>4. /\ payment'[task[t].p].status = "initiated"
      /\ \A s \in Payments : s # task[t].p => payment'[s] = payment[s]
  BY <1>2, <1>3 DEF DriverTypes, PaymentsOK
<1>5. GrantsOK(payment', bank', book'.grants)
  BY <1>2, <1>3, <1>4 DEF PayInv, GrantsOK
<1> QED
  BY <1>1, <1>3, <1>4, <1>5, IdlePays, IdlesPay, PaysItsOwn DEF Idles

LEMMA PaysSaved ==
  ASSUME OneWebhook, DriverTypes, PayInv, NEW t \in Tasks, SavePayment(t)
  PROVE  PayInv'
<1>1. task[t].at \in Verifying \cup Crediting
  BY DEF SavePayment, TaskAt, Verifying, Crediting
<1>2. /\ Handles(task[t]) /\ "webhook" \in TaskServes[t] /\ task[t].p \in Payments
      /\ payment[task[t].p].status # "none" /\ book.grants[task[t].p] = 0
  BY <1>1 DEF PayInv, TaskPays, Handles
<1>3. bank' = bank /\ book' = book
  BY DEF SavePayment
<1>4. ASSUME NEW status \in {"failed", "successful"},
             payment' = [payment EXCEPT ![task[t].p].status = status]
      PROVE  /\ payment'[task[t].p].status = status
             /\ \A s \in Payments : s # task[t].p => payment'[s] = payment[s]
             /\ GrantsOK(payment', bank', book'.grants)
  <2> DEFINE new == [payment[task[t].p] EXCEPT !.status = status]
  <2>1. payment \in [Payments -> PayRow] /\ payment[task[t].p] \in PayRow
    BY <1>2 DEF DriverTypes, PaymentsOK
  <2>2. new.status = status
    BY <2>1 DEF PayRow
  <2>3. payment' = [payment EXCEPT ![task[t].p] = new]
    BY <1>4
  <2> HIDE DEF new
  <2>4. /\ payment'[task[t].p].status = status
        /\ \A s \in Payments : s # task[t].p => payment'[s] = payment[s]
    BY <1>2, <2>1, <2>2, <2>3
  <2>5. bank[task[t].p] # "none"
    BY <1>2 DEF PayInv, GrantsOK
  <2>6. GrantsOK(payment', bank', book'.grants)
    BY <1>2, <1>3, <2>4, <2>5 DEF PayInv, GrantsOK
  <2> QED
    BY <2>4, <2>6
<1>5. CASE task[t].at = "fail" /\ TaskFinish(t) /\ payment' = [payment EXCEPT ![task[t].p].status = "failed"]
  <2>1. TaskBecomes(t, TaskIdle)
    BY <1>5 DEF TaskFinish, TaskBecomes
  <2>2. \A s \in Payments : s # task[t].p => payment'[s] = payment[s]
    BY <1>4, <1>5
  <2>3. GrantsOK(payment', bank', book'.grants)
    BY <1>4, <1>5
  <2> QED
    BY <1>2, <1>3, <2>1, <2>2, <2>3, IdlePays, IdlesPay, PaysItsOwn DEF Idles
<1>6. CASE /\ task[t].at = "settle" /\ TaskGoto(t, "load for grant")
           /\ payment' = [payment EXCEPT ![task[t].p].status = "successful"]
  <2>1. PICK step \in Loading : step \in TaskStep /\ TaskGoto(t, step)
    BY <1>6 DEF Loading, TaskStep
  <2>2. PICK row : TaskBecomes(t, row) /\ row.at = step /\ row.p = task[t].p
    BY <2>1, TaskMoves
  <2>3. row.at \in Loading /\ row.at \notin Storing \cup Granting \cup Verifying \cup Crediting
    BY <2>1, <2>2, PaySteps
  <2>4. bank[task[t].p] = "paid"
    BY <1>6 DEF PayInv, TaskPays, Crediting
  <2>5. /\ payment'[task[t].p].status = "successful"
        /\ \A s \in Payments : s # task[t].p => payment'[s] = payment[s]
        /\ GrantsOK(payment', bank', book'.grants)
    BY <1>4, <1>6
  <2>6. TaskPays(t, row, payment', bank', book'.grants)
    BY <1>2, <1>3, <2>2, <2>3, <2>4, <2>5 DEF TaskPays, Handles, Credits
  <2> QED
    BY <1>2, <1>3, <2>2, <2>3, <2>5, <2>6, PaysItsOwn
<1> QED
  BY <1>5, <1>6 DEF SavePayment, TaskAt

LEMMA PaysGranted ==
  ASSUME OneWebhook, DriverTypes, PayInv, NEW t \in Tasks, SaveGrant(t)
  PROVE  PayInv'
<1>1. /\ TaskFinish(t) /\ TaskBecomes(t, TaskIdle) /\ payment' = payment /\ bank' = bank
      /\ task[t].at \in Granting
  BY DEF SaveGrant, TaskAt, Granting, TaskFinish, TaskBecomes
<1>2. CASE task[t].p = NoDriver
  <2>1. book' = [book EXCEPT !.admin = @ + task[t].days]
    BY <1>2 DEF SaveGrant
  <2>2. book'.grants = book.grants
    BY <2>1 DEF DriverTypes, Books
  <2> QED
    BY <1>1, <2>2, PaysFinish
<1>3. CASE task[t].p # NoDriver
  <2>1. book' = [book EXCEPT !.grants[task[t].p] = @ + 1]
    BY <1>3 DEF SaveGrant
  <2>2. Handles(task[t]) /\ Credits(task[t])
    BY <1>1, <1>3 DEF Handles, Credits
  <2>3. /\ task[t].p \in Payments /\ bank[task[t].p] = "paid"
        /\ payment[task[t].p].status = "successful"
    BY <2>2 DEF PayInv, TaskPays
  <2>4. book'.grants = [book.grants EXCEPT ![task[t].p] = @ + 1] /\ book.grants \in [Payments -> Nat]
    BY <2>1 DEF DriverTypes, Books
  <2>5. \A s \in Payments : s # task[t].p => book'.grants[s] = book.grants[s]
    BY <2>4
  <2>6. GrantsOK(payment', bank', book'.grants)
    BY <1>1, <2>3, <2>5 DEF PayInv, GrantsOK
  <2> QED
    BY <1>1, <2>2, <2>5, <2>6, IdlePays, IdlesPay, PaysItsOwn DEF Idles
<1> QED
  BY <1>2, <1>3

LEMMA PaysTaskStep ==
  ASSUME OneWebhook, DriverTypes, PayInv, NEW t \in Tasks, Task(t)
  PROVE  PayInv'
<1> USE DEF sideVars
<1>1. ASSUME NEW row, TaskBecomes(t, row), row.at \in {"create profile", "save profile"},
             payment' = payment, bank' = bank, book' = book
      PROVE  PayInv'
  <2>1. Idles(row)
    BY <1>1 DEF Idles, Handles, Credits, Storing, Verifying, Crediting, Loading, Granting
  <2> QED
    BY <1>1, <2>1, PaysElsewhere
<1>2. CASE Register(t)
  <2>1. PICK d : TaskBecomes(t, [TaskIdle EXCEPT !.at = "create profile", !.u = d])
    BY <1>2 DEF Register, TaskBecomes
  <2>2. [TaskIdle EXCEPT !.at = "create profile", !.u = d].at = "create profile"
    BY DEF TaskIdle
  <2> QED
    BY <1>1, <1>2, <2>1, <2>2 DEF Register
<1>3. CASE CreateProfile(t)
  <2>1. CASE TaskFinish(t)
    BY <1>3, <2>1, PaysFinish DEF CreateProfile
  <2>2. CASE ~TaskFinish(t)
    <3>1. PICK step \in TaskStep :
            /\ TaskGoto(t, step)
            /\ step \notin Storing \cup Verifying \cup Crediting \cup Loading \cup Granting
      BY <1>3, <2>2
         DEF CreateProfile, TaskStep, Storing, Verifying, Crediting, Loading, Granting
    <3> QED
      BY <1>3, <3>1, PaysGotoElsewhere DEF CreateProfile
  <2> QED
    BY <2>1, <2>2
<1>4. CASE StoreDocuments(t)
  <2>1. PICK step \in TaskStep :
          /\ TaskGoto(t, step)
          /\ step \notin Storing \cup Verifying \cup Crediting \cup Loading \cup Granting
    BY <1>4 DEF StoreDocuments, TaskStep, Storing, Verifying, Crediting, Loading, Granting
  <2> QED
    BY <1>4, <2>1, PaysGotoElsewhere DEF StoreDocuments
<1>5. CASE FindRegisteredUser(t)
  <2> DEFINE row == [task[t] EXCEPT !.at = "save user",
                                    !.user = [user[task[t].u] EXCEPT !.role = "driver"]]
  <2>1. TaskBecomes(t, row)
    BY <1>5 DEF FindRegisteredUser, TaskBecomes, DriverTypes
  <2>2. row.at = "save user"
    BY TaskTypes DEF TaskRow
  <2> HIDE DEF row
  <2>3. Idles(row)
    BY <2>2 DEF Idles, Handles, Credits, Storing, Verifying, Crediting, Loading, Granting
  <2> QED
    BY <1>5, <2>1, <2>3, PaysElsewhere DEF FindRegisteredUser
<1>6. CASE \/ SaveTaskUser(t) \/ SaveTaskProfile(t) \/ VerifyUnanswered(t) \/ TaskAbandon(t)
  BY <1>6, PaysFinish DEF SaveTaskUser, SaveTaskProfile, VerifyUnanswered, TaskAbandon
<1>7. CASE VerifyDriver(t)
  <2>1. PICK d, x : TaskBecomes(t, [TaskIdle EXCEPT !.at = "save profile", !.u = d, !.row = x])
    BY <1>7 DEF VerifyDriver, TaskBecomes
  <2>2. [TaskIdle EXCEPT !.at = "save profile", !.u = d, !.row = x].at = "save profile"
    BY DEF TaskIdle
  <2> QED
    BY <1>1, <1>7, <2>1, <2>2 DEF VerifyDriver
<1>8. CASE GrantDays(t)
  <2>1. PICK d, n, x :
          TaskBecomes(t, [TaskIdle EXCEPT !.at = "grant", !.u = d, !.days = n, !.row = x])
    BY <1>8 DEF GrantDays, TaskBecomes
  <2> DEFINE row == [TaskIdle EXCEPT !.at = "grant", !.u = d, !.days = n, !.row = x]
  <2>2. row.at = "grant" /\ row.p = NoDriver
    BY DEF TaskIdle
  <2>3. TaskBecomes(t, row)
    BY <2>1
  <2> HIDE DEF row
  <2>4. Idles(row)
    BY <2>2 DEF Idles, Handles, Credits, Storing, Verifying, Crediting, Loading, Granting
  <2> QED
    BY <1>8, <2>3, <2>4, PaysElsewhere DEF GrantDays
<1>9. CASE Checkout(t)
  BY <1>9, PaysCheckout
<1>10. CASE StorePayment(t)
  BY <1>10, PaysStored
<1>11. CASE \E p \in Payments : HandleWebhook(t, p)
  <2>1. PICK p \in Payments : HandleWebhook(t, p)
    BY <1>11
  <2> DEFINE row == [TaskIdle EXCEPT !.at = "verify", !.p = p]
  <2>2. row.at = "verify" /\ row.p = p
    BY DEF TaskIdle
  <2>3. TaskBecomes(t, row)
    BY <2>1 DEF HandleWebhook, TaskBecomes
  <2> HIDE DEF row
  <2>4. row.at \in Verifying
    BY <2>2 DEF Verifying
  <2>5. row.at \notin Storing \cup Crediting \cup Loading \cup Granting
    BY <2>4, PaySteps
  <2>6. "webhook" \in TaskServes[t] /\ payment[p].status = "initiated"
    BY <2>1 DEF HandleWebhook, TaskStart
  <2>7. TaskPays(t, row, payment, bank, book.grants)
    BY <2>2, <2>4, <2>5, <2>6 DEF TaskPays, Handles, Credits, PayInv, GrantsOK
  <2> QED
    BY <2>1, <2>3, <2>5, <2>7, PaysTask DEF HandleWebhook
<1>12. CASE VerifyTransaction(t)
  <2>1. task[t].at \in Verifying
    BY <1>12 DEF VerifyTransaction, TaskAt, Verifying
  <2>2. /\ "webhook" \in TaskServes[t] /\ task[t].p \in Payments
        /\ payment[task[t].p].status # "none" /\ book.grants[task[t].p] = 0
    BY <2>1 DEF PayInv, TaskPays, Handles
  <2>3. PICK step \in Verifying \cup Crediting :
          TaskGoto(t, step) /\ (step \in Crediting => bank[task[t].p] = "paid")
    BY <1>12 DEF VerifyTransaction, Verifying, Crediting
  <2>4. step \in TaskStep
    BY <2>3, PaySteps
  <2>5. PICK row : TaskBecomes(t, row) /\ row.at = step /\ row.p = task[t].p
    BY <2>3, <2>4, TaskMoves
  <2>6. row.at \notin Storing \cup Loading \cup Granting
    BY <2>3, <2>5, PaySteps
  <2>7. TaskPays(t, row, payment, bank, book.grants)
    BY <2>2, <2>3, <2>5, <2>6 DEF TaskPays, Handles, Credits
  <2> QED
    BY <1>12, <2>5, <2>6, <2>7, PaysTask DEF VerifyTransaction
<1>13. CASE SavePayment(t)
  BY <1>13, PaysSaved
<1>14. CASE LoadForGrant(t)
  <2> DEFINE d == payment[task[t].p].driver
             x == [profile[d] EXCEPT !.days = @ + CycleDays]
             row == [task[t] EXCEPT !.at = "grant", !.u = d, !.days = CycleDays, !.row = x]
  <2>1. TaskBecomes(t, row)
    BY <1>14 DEF LoadForGrant, TaskBecomes, DriverTypes
  <2> HIDE DEF x, d
  <2>2. row.at = "grant" /\ row.p = task[t].p /\ row.days = CycleDays
    BY TaskTypes DEF TaskRow
  <2> HIDE DEF row
  <2>3. row.at \in Granting /\ task[t].at \in Loading
    BY <1>14, <2>2 DEF Granting, LoadForGrant, TaskAt, Loading
  <2>4. row.at \notin Storing \cup Verifying \cup Crediting \cup Loading
    BY <2>3, PaySteps
  <2>5. Handles(task[t]) /\ Credits(task[t])
    BY <2>3 DEF Handles, Credits
  <2>6. TaskPays(t, row, payment, bank, book.grants)
    BY <2>2, <2>3, <2>4, <2>5 DEF TaskPays, Handles, Credits, PayInv
  <2> QED
    BY <1>14, <2>1, <2>4, <2>6, PaysTask DEF LoadForGrant
<1>15. CASE SaveGrant(t)
  BY <1>15, PaysGranted
<1>16. CASE SubmitRating(t)
  <2>1. PICK row : TaskBecomes(t, row) /\ Submitted(row)
    BY <1>16, SubmittedRow
  <2>2. Idles(row)
    BY <2>1 DEF Submitted, Finding, Idles, Handles, Credits,
                Storing, Verifying, Crediting, Loading, Granting
  <2> QED
    BY <1>16, <2>1, <2>2, PaysElsewhere DEF SubmitRating
<1>17. CASE FindRating(t) \/ CreateRating(t)
  <2>1. CASE TaskFinish(t)
    BY <1>17, <2>1, PaysFinish DEF FindRating, CreateRating
  <2>2. CASE ~TaskFinish(t)
    <3>1. PICK step \in TaskStep :
            /\ TaskGoto(t, step)
            /\ step \notin Storing \cup Verifying \cup Crediting \cup Loading \cup Granting
      BY <1>17, <2>2 DEF FindRating, CreateRating, TaskStep,
                         Storing, Verifying, Crediting, Loading, Granting
    <3> QED
      BY <1>17, <3>1, PaysGotoElsewhere DEF FindRating, CreateRating
  <2> QED
    BY <2>1, <2>2
<1> QED
  BY <1>2, <1>3, <1>4, <1>5, <1>6, <1>7, <1>8, <1>9, <1>10, <1>11, <1>12, <1>13,
     <1>14, <1>15, <1>16, <1>17 DEF Task, Webhook

LEMMA PaysInit == DriverInit => PayInv
<1> SUFFICES ASSUME DriverInit PROVE PayInv
  OBVIOUS
<1>1. GrantsOK(payment, bank, book.grants)
  BY DEF DriverInit, GrantsOK
<1>2. \A t \in Tasks : task[t] = TaskIdle
  BY DEF DriverInit
<1> QED
  BY <1>1, <1>2, IdlePays, IdlesPay DEF PayInv, Idles

LEMMA PaysNext ==
  ASSUME OneWebhook
  PROVE  DriverTyped /\ PayInv /\ [DriverNext]_driverVars => PayInv'
<1> SUFFICES ASSUME DriverTyped, PayInv, [DriverNext]_driverVars PROVE PayInv'
  OBVIOUS
<1>0. DriverTypes
  BY DEF DriverTyped
<1>1. ASSUME NEW t \in Tasks, Task(t) PROVE PayInv'
  BY <1>0, <1>1, PaysTaskStep
<1>2. ASSUME NEW p \in Payments, Pay(p) PROVE PayInv'
  BY <1>0, <1>2, PaysPay
<1>3. CASE DayPasses
  <2>1. \A t \in Tasks : /\ task'[t].at = task[t].at /\ task'[t].p = task[t].p
                         /\ task'[t].days = task[t].days
    BY <1>0, <1>3, ElapsedSlots
  <2>2. payment' = payment /\ bank' = bank /\ book'.grants = book.grants
    <3> DEFINE n == Cardinality({d \in Drivers : profile[d].days > 0})
    <3>1. book' = [book EXCEPT !.passed = @ + 1, !.used = @ + n]
      BY <1>3 DEF DayPasses
    <3> HIDE DEF n
    <3> QED
      BY <1>0, <1>3, <3>1 DEF DriverTypes, Books, DayPasses
  <2> QED
    BY <2>1, <2>2 DEF PayInv, TaskPays, Handles, Credits
<1>4. CASE UNCHANGED <<user, docs, rating, payment, bank, task, book>>
  BY <1>4 DEF PayInv
<1>5. CASE UNCHANGED driverVars
  BY <1>5 DEF driverVars, PayInv
<1> QED
  BY <1>1, <1>2, <1>3, <1>4, <1>5 DEF DriverNext

-----------------------------------------------------------------------------
(* Access *)

Granted(b) == {p \in Payments : b.grants[p] > 0}

\* The days an admin granted and those of the payments that were granted.
Allowed(b) == b.admin + CycleDays * Cardinality(Granted(b))

\* A task that is about to grant days has them in its row already.
TaskRides(row, b) ==
  /\ row.at \notin Granting => row.row.days + b.used <= Allowed(b)
  /\ row.at \in Granting => row.row.days + b.used <= Allowed(b) + row.days

AccessInv ==
  /\ IsFiniteSet(Granted(book))
  /\ IsFiniteSet({p \in Payments : bank[p] = "paid"})
  /\ book.used <= Allowed(book)
  /\ \A d \in Drivers : profile[d].days + book.used <= Allowed(book)
  /\ \A r \in Reqs : req[r].row.days + book.used <= Allowed(book)
  /\ \A t \in Tasks : TaskRides(task[t], book)

LEMMA AllowedIsNumber ==
  ASSUME NEW b \in Books, IsFiniteSet(Granted(b))
  PROVE  Allowed(b) \in Nat /\ b.used \in Nat /\ b.admin \in Nat
<1>1. Cardinality(Granted(b)) \in Nat
  BY FS_CardinalityType
<1>2. PICK n \in Nat : n = Cardinality(Granted(b))
  BY <1>1
<1>3. CycleDays * n \in Nat
  BY DriversAssumption
<1>4. b.used \in Nat /\ b.admin \in Nat
  BY DEF Books
<1> QED
  BY <1>2, <1>3, <1>4 DEF Allowed

LEMMA AllowedByAdmin ==
  ASSUME NEW b \in Books, IsFiniteSet(Granted(b)), NEW n \in Nat, NEW c,
         c = [b EXCEPT !.admin = @ + n]
  PROVE  c.used = b.used /\ Allowed(c) = Allowed(b) + n /\ IsFiniteSet(Granted(c))
<1>1. c.used = b.used /\ c.grants = b.grants /\ c.admin = b.admin + n
  BY DEF Books
<1>2. Granted(c) = Granted(b)
  BY <1>1 DEF Granted
<1>3. PICK m \in Nat : m = Cardinality(Granted(b))
  BY FS_CardinalityType
<1>4. CycleDays * m \in Nat /\ b.admin \in Nat
  BY DriversAssumption DEF Books
<1> QED
  BY <1>1, <1>2, <1>3, <1>4 DEF Allowed

LEMMA AllowedByPayment ==
  ASSUME NEW b \in Books, IsFiniteSet(Granted(b)), NEW p \in Payments, b.grants[p] = 0,
         NEW c, c = [b EXCEPT !.grants[p] = @ + 1]
  PROVE  c.used = b.used /\ Allowed(c) = Allowed(b) + CycleDays /\ IsFiniteSet(Granted(c))
<1>1. c.used = b.used /\ c.admin = b.admin /\ c.grants = [b.grants EXCEPT ![p] = @ + 1]
      /\ b.grants \in [Payments -> Nat]
  BY DEF Books
<1>2. Granted(c) = Granted(b) \cup {p} /\ p \notin Granted(b)
  BY <1>1 DEF Granted
<1>3. PICK m \in Nat : m = Cardinality(Granted(b))
  BY FS_CardinalityType
<1>4. Cardinality(Granted(c)) = m + 1 /\ IsFiniteSet(Granted(c))
  BY <1>2, <1>3, FS_AddElement
<1>5. CycleDays * (m + 1) = CycleDays * m + CycleDays /\ CycleDays * m \in Nat /\ b.admin \in Nat
  BY DriversAssumption DEF Books
<1> QED
  BY <1>1, <1>3, <1>4, <1>5, DriversAssumption DEF Allowed

\* Slot t becomes row; what is allowed does not shrink and nothing is used.
LEMMA AccessOneTask ==
  ASSUME DriverTypes, AccessInv, NEW t \in Tasks, NEW row, TaskBecomes(t, row),
         book' \in Books, book'.used = book.used, Allowed(book) <= Allowed(book'),
         IsFiniteSet(Granted(book')), IsFiniteSet({p \in Payments : bank'[p] = "paid"}),
         req' = req, TaskRides(row, book'),
         \A d \in Drivers : \/ profile'[d] = profile[d]
                            \/ profile'[d].days + book'.used <= Allowed(book')
  PROVE  AccessInv'
<1>1. /\ Allowed(book) \in Nat /\ Allowed(book') \in Nat
      /\ book.used \in Nat /\ book'.used \in Nat
  BY AllowedIsNumber DEF AccessInv, DriverTypes
<1>2. ASSUME NEW d \in Drivers PROVE profile'[d].days + book'.used <= Allowed(book')
  <2>1. profile[d].days \in Nat /\ profile[d].days + book.used <= Allowed(book)
    BY ProfileTypes DEF AccessInv
  <2> QED
    BY <1>1, <2>1
<1>3. ASSUME NEW r \in Reqs PROVE req'[r].row.days + book'.used <= Allowed(book')
  <2>1. req[r].row.days \in Nat
    BY DEF DriverTypes, PresenceTypes, ReqRow, ProfileRow
  <2> QED
    BY <1>1, <2>1 DEF AccessInv
<1>4. ASSUME NEW q \in Tasks PROVE TaskRides(task'[q], book')
  <2>1. CASE q = t
    BY <2>1 DEF TaskBecomes, DriverTypes
  <2>2. CASE q # t
    <3>1. task'[q] = task[q] /\ TaskRides(task[q], book)
      BY <2>2 DEF TaskBecomes, DriverTypes, AccessInv
    <3>2. task[q].row.days \in Nat /\ task[q].days \in Nat
      BY TaskTypes DEF TaskRow, ProfileRow
    <3> QED
      BY <1>1, <3>1, <3>2 DEF TaskRides
  <2> QED
    BY <2>1, <2>2
<1>5. book'.used <= Allowed(book')
  BY <1>1 DEF AccessInv
<1> QED
  BY <1>2, <1>3, <1>4, <1>5 DEF AccessInv

LEMMA AccessTask ==
  ASSUME DriverTypes, AccessInv, NEW t \in Tasks, NEW row, TaskBecomes(t, row),
         TaskRides(row, book), UNCHANGED <<profile, req, bank, book>>
  PROVE  AccessInv'
<1>1. Allowed(book) \in Nat
  BY AllowedIsNumber DEF AccessInv, DriverTypes
<1> QED
  BY <1>1, AccessOneTask DEF AccessInv, DriverTypes

\* A row that a task begins with: nobody's, or the one of a driver.
LEMMA AccessBegins ==
  ASSUME DriverTypes, AccessInv, NEW t \in Tasks, NEW row, TaskBecomes(t, row),
         row.at \notin Granting,
         row.row.days = 0 \/ \E d \in Drivers : row.row.days = profile[d].days,
         UNCHANGED <<profile, req, bank, book>>
  PROVE  AccessInv'
<1>1. Allowed(book) \in Nat /\ book.used \in Nat
  BY AllowedIsNumber DEF AccessInv, DriverTypes
<1>2. row.row.days + book.used <= Allowed(book)
  BY <1>1 DEF AccessInv
<1> QED
  BY <1>2, AccessTask DEF TaskRides

LEMMA IdleRides == ASSUME AccessInv, DriverTypes PROVE TaskRides(TaskIdle, book)
<1>1. TaskIdle.row.days = 0 /\ TaskIdle.at \notin Granting
  BY IdleTask DEF NoProfile, Granting
<1>2. Allowed(book) \in Nat /\ book.used \in Nat
  BY AllowedIsNumber DEF AccessInv, DriverTypes
<1> QED
  BY <1>1, <1>2 DEF TaskRides, AccessInv

LEMMA AccessFinish ==
  ASSUME DriverTypes, AccessInv, NEW t \in Tasks, TaskFinish(t),
         UNCHANGED <<profile, req, bank, book>>
  PROVE  AccessInv'
BY IdleRides, AccessTask DEF TaskFinish, TaskBecomes

\* A step that grants nothing, before or after.
LEMMA AccessGoto ==
  ASSUME DriverTypes, AccessInv, NEW t \in Tasks, NEW step \in TaskStep \ Granting,
         TaskGoto(t, step), task[t].at \notin Granting,
         UNCHANGED <<req, bank, book>>,
         \A d \in Drivers : profile'[d] = profile[d] \/ profile'[d].days = 0
  PROVE  AccessInv'
<1>1. PICK row : TaskBecomes(t, row) /\ row.at = step /\ row.row = task[t].row
  BY TaskMoves
<1>2. TaskRides(row, book)
  BY <1>1 DEF AccessInv, TaskRides
<1>3. Allowed(book) \in Nat /\ book.used \in Nat /\ book.used <= Allowed(book)
  BY AllowedIsNumber DEF AccessInv, DriverTypes
<1>4. ASSUME NEW d \in Drivers
      PROVE  profile'[d] = profile[d] \/ profile'[d].days + book.used <= Allowed(book)
  BY <1>3
<1> QED
  BY <1>1, <1>2, <1>3, <1>4, AccessOneTask DEF AccessInv, DriverTypes

\* A task saves a row that grants nothing, and ends.
LEMMA AccessSaved ==
  ASSUME DriverTypes, AccessInv, NEW t \in Tasks, SaveTaskProfile(t)
  PROVE  AccessInv'
<1>1. task[t].at \notin Granting
  BY DEF SaveTaskProfile, TaskAt, Granting
<1>2. task[t].row.days + book.used <= Allowed(book)
  BY <1>1 DEF AccessInv, TaskRides
<1>3. /\ SaveProfile(task[t].u, task[t].row) /\ TaskBecomes(t, TaskIdle)
      /\ UNCHANGED <<req, bank, book>>
  BY DEF SaveTaskProfile, TaskFinish, TaskBecomes
<1>4. ASSUME NEW d \in Drivers
      PROVE  profile'[d] = profile[d] \/ profile'[d].days + book.used <= Allowed(book)
  BY <1>2, <1>3 DEF SaveProfile, DriverTypes, PresenceTypes
<1>5. Allowed(book) \in Nat
  BY AllowedIsNumber DEF AccessInv, DriverTypes
<1> QED
  BY <1>3, <1>4, <1>5, IdleRides, AccessOneTask DEF AccessInv, DriverTypes

\* The days of a row that is saved are in the books from now on.
LEMMA AccessGranted ==
  ASSUME DriverTypes, PayInv, AccessInv, NEW t \in Tasks, SaveGrant(t)
  PROVE  AccessInv'
<1>1. /\ SaveProfile(task[t].u, task[t].row) /\ TaskBecomes(t, TaskIdle)
      /\ req' = req /\ bank' = bank /\ task[t].at \in Granting
  BY DEF SaveGrant, TaskFinish, TaskBecomes, TaskAt, Granting, sideVars
<1>2. task[t].row.days + book.used <= Allowed(book) + task[t].days
  BY <1>1 DEF AccessInv, TaskRides
<1>3. task[t].days \in Nat /\ task[t].row.days \in Nat /\ book \in Books
  BY TaskTypes DEF TaskRow, ProfileRow, DriverTypes
<1>4. Allowed(book) \in Nat /\ book.used \in Nat
  BY AllowedIsNumber DEF AccessInv, DriverTypes
<1>5. /\ book'.used = book.used /\ Allowed(book') = Allowed(book) + task[t].days
      /\ IsFiniteSet(Granted(book')) /\ book' \in Books
  <2>1. CASE task[t].p = NoDriver
    <3>1. book' = [book EXCEPT !.admin = @ + task[t].days]
      BY <2>1 DEF SaveGrant
    <3>2. book' \in Books
      BY <1>3, <3>1 DEF Books
    <3> QED
      BY <1>3, <3>1, <3>2, AllowedByAdmin DEF AccessInv
  <2>2. CASE task[t].p # NoDriver
    <3>1. book' = [book EXCEPT !.grants[task[t].p] = @ + 1]
      BY <2>2 DEF SaveGrant
    <3>2. Handles(task[t]) /\ Credits(task[t])
      BY <1>1, <2>2 DEF Handles, Credits
    <3>3. task[t].p \in Payments /\ book.grants[task[t].p] = 0 /\ task[t].days = CycleDays
      BY <1>1, <3>2 DEF PayInv, TaskPays
    <3>4. book' \in Books
      BY <1>3, <3>1 DEF Books
    <3> QED
      BY <1>3, <3>1, <3>3, <3>4, AllowedByPayment DEF AccessInv
  <2> QED
    BY <2>1, <2>2
<1>6. ASSUME NEW d \in Drivers
      PROVE  profile'[d] = profile[d] \/ profile'[d].days + book'.used <= Allowed(book')
  BY <1>1, <1>2, <1>5 DEF SaveProfile, DriverTypes, PresenceTypes
<1>7. TaskRides(TaskIdle, book')
  <2>1. TaskIdle.row.days = 0 /\ TaskIdle.at \notin Granting
    BY IdleTask DEF NoProfile, Granting
  <2>2. book.used <= Allowed(book)
    BY DEF AccessInv
  <2> QED
    BY <1>3, <1>4, <1>5, <2>1, <2>2 DEF TaskRides
<1>8. Allowed(book) <= Allowed(book')
  BY <1>3, <1>4, <1>5
<1> QED
  BY <1>1, <1>5, <1>6, <1>7, <1>8, AccessOneTask DEF AccessInv

\* A task takes up days to grant.
LEMMA AccessGrants ==
  ASSUME DriverTypes, AccessInv, NEW t \in Tasks, NEW row \in TaskRow, TaskBecomes(t, row),
         row.at \in Granting, NEW d \in Drivers, row.row.days = profile[d].days + row.days,
         UNCHANGED <<profile, req, bank, book>>
  PROVE  AccessInv'
<1>1. Allowed(book) \in Nat /\ book.used \in Nat
  BY AllowedIsNumber DEF AccessInv, DriverTypes
<1>2. profile[d].days \in Nat /\ row.days \in Nat /\ profile[d].days + book.used <= Allowed(book)
  BY ProfileTypes DEF AccessInv, TaskRow
<1>3. TaskRides(row, book)
  BY <1>1, <1>2 DEF TaskRides
<1> QED
  BY <1>3, AccessTask

LEMMA AccessTaskStep ==
  ASSUME DriverTypes, PayInv, AccessInv, NEW t \in Tasks, Task(t)
  PROVE  AccessInv'
<1> USE DEF sideVars
<1>1. CASE Register(t)
  <2>1. PICK d : TaskBecomes(t, [TaskIdle EXCEPT !.at = "create profile", !.u = d])
    BY <1>1 DEF Register, TaskBecomes
  <2> DEFINE row == [TaskIdle EXCEPT !.at = "create profile", !.u = d]
  <2>2. row.at = "create profile" /\ row.row = NoProfile
    BY DEF TaskIdle
  <2>3. TaskBecomes(t, row)
    BY <2>1
  <2> HIDE DEF row
  <2>4. row.at \notin Granting /\ row.row.days = 0
    <3>1. row.at \notin Granting
      BY <2>2 DEF Granting
    <3>2. NoProfile.days = 0
      BY DEF NoProfile
    <3> QED
      BY <2>2, <3>1, <3>2
  <2> QED
    BY <1>1, <2>3, <2>4, AccessBegins DEF Register
<1>2. CASE CreateProfile(t)
  <2>1. CASE TaskFinish(t) /\ UNCHANGED profile
    BY <1>2, <2>1, AccessFinish DEF CreateProfile
  <2>2. CASE /\ SaveProfile(task[t].u, [NoProfile EXCEPT !.status = "pending"])
             /\ TaskGoto(t, "store documents")
    <3>1. [NoProfile EXCEPT !.status = "pending"].days = 0
      BY DEF NoProfile
    <3>2. ASSUME NEW d \in Drivers PROVE profile'[d] = profile[d] \/ profile'[d].days = 0
      BY <2>2, <3>1 DEF SaveProfile, DriverTypes, PresenceTypes
    <3>3. PICK step \in TaskStep : TaskGoto(t, step) /\ step \notin Granting
      BY <2>2 DEF TaskStep, Granting
    <3>4. task[t].at \notin Granting
      BY <1>2 DEF CreateProfile, TaskAt, Granting
    <3> QED
      BY <1>2, <3>2, <3>3, <3>4, AccessGoto DEF CreateProfile
  <2> QED
    BY <1>2, <2>1, <2>2 DEF CreateProfile
<1>3. CASE StoreDocuments(t) \/ VerifyTransaction(t)
  <2>1. PICK step \in TaskStep : TaskGoto(t, step) /\ step \notin Granting
    BY <1>3 DEF StoreDocuments, VerifyTransaction, TaskStep, Granting
  <2>2. task[t].at \notin Granting
    BY <1>3 DEF StoreDocuments, VerifyTransaction, TaskAt, Granting
  <2> QED
    BY <1>3, <2>1, <2>2, AccessGoto DEF StoreDocuments, VerifyTransaction
<1>4. CASE FindRegisteredUser(t)
  <2> DEFINE row == [task[t] EXCEPT !.at = "save user",
                                    !.user = [user[task[t].u] EXCEPT !.role = "driver"]]
  <2>1. TaskBecomes(t, row)
    BY <1>4 DEF FindRegisteredUser, TaskBecomes, DriverTypes
  <2>2. row.at = "save user" /\ row.row = task[t].row
    BY TaskTypes DEF TaskRow
  <2> HIDE DEF row
  <2>3. row.at \notin Granting /\ task[t].at \notin Granting
    BY <1>4, <2>2 DEF FindRegisteredUser, TaskAt, Granting
  <2>4. TaskRides(row, book)
    BY <2>2, <2>3 DEF TaskRides, AccessInv
  <2> QED
    BY <1>4, <2>1, <2>4, AccessTask DEF FindRegisteredUser
<1>5. CASE SaveTaskUser(t) \/ StorePayment(t) \/ VerifyUnanswered(t) \/ TaskAbandon(t)
  BY <1>5, AccessFinish DEF SaveTaskUser, StorePayment, VerifyUnanswered, TaskAbandon
<1>6. CASE VerifyDriver(t)
  <2>1. PICK d \in Drivers, status \in {"approved", "rejected"} :
          TaskBecomes(t, [TaskIdle EXCEPT !.at = "save profile", !.u = d,
                            !.row = [profile[d] EXCEPT !.status = status]])
    BY <1>6 DEF VerifyDriver, TaskBecomes
  <2> DEFINE x == [profile[d] EXCEPT !.status = status]
             row == [TaskIdle EXCEPT !.at = "save profile", !.u = d, !.row = x]
  <2>2. x.days = profile[d].days
    BY ProfileTypes DEF ProfileRow
  <2>3. TaskBecomes(t, row)
    BY <2>1
  <2> HIDE DEF x
  <2>4. row.at = "save profile" /\ row.row = x
    BY DEF TaskIdle
  <2> HIDE DEF row
  <2>5. row.at \notin Granting
    BY <2>4 DEF Granting
  <2>6. row.row.days = profile[d].days
    BY <2>2, <2>4
  <2> QED
    BY <1>6, <2>3, <2>5, <2>6, AccessBegins DEF VerifyDriver
<1>7. CASE SaveTaskProfile(t)
  BY <1>7, AccessSaved
<1>8. CASE GrantDays(t)
  <2>1. PICK d \in Drivers, n \in 1 .. MaxDays - book.admin :
          TaskBecomes(t, [TaskIdle EXCEPT !.at = "grant", !.u = d, !.days = n,
                                          !.row = [profile[d] EXCEPT !.days = @ + n]])
    BY <1>8 DEF GrantDays, TaskBecomes
  <2> DEFINE x == [profile[d] EXCEPT !.days = @ + n]
             row == [TaskIdle EXCEPT !.at = "grant", !.u = d, !.days = n, !.row = x]
  <2>2. n \in Nat
    BY DriversAssumption DEF DriverTypes, Books
  <2>3. x \in ProfileRow /\ x.days = profile[d].days + n
    BY <2>2, ProfileTypes DEF ProfileRow
  <2>4. TaskBecomes(t, row)
    BY <2>1
  <2> HIDE DEF x
  <2>5. row \in TaskRow /\ row.at \in Granting /\ row.row = x /\ row.days = n
    BY <2>2, <2>3, PayeeTypes, IdleTask DEF TaskRow, TaskStep, Granting
  <2> HIDE DEF row
  <2>6. row.row.days = profile[d].days + row.days
    BY <2>3, <2>5
  <2>7. UNCHANGED <<profile, req, bank, book>>
    BY <1>8 DEF GrantDays
  <2> QED
    BY <2>4, <2>5, <2>6, <2>7, AccessGrants
<1>9. CASE Checkout(t)
  <2>1. PICK d \in Drivers, p \in Payments :
          /\ bank[p] = "none" /\ bank' = [bank EXCEPT ![p] = "open"]
          /\ TaskBecomes(t, [TaskIdle EXCEPT !.at = "store payment", !.u = d, !.p = p])
    BY <1>9 DEF Checkout, TaskBecomes
  <2> DEFINE row == [TaskIdle EXCEPT !.at = "store payment", !.u = d, !.p = p]
  <2>2. row.at = "store payment" /\ row.row = NoProfile
    BY DEF TaskIdle
  <2>3. TaskBecomes(t, row)
    BY <2>1
  <2> HIDE DEF row
  <2>4. row.at \notin Granting /\ row.row.days = 0
    <3>1. row.at \notin Granting
      BY <2>2 DEF Granting
    <3>2. NoProfile.days = 0
      BY DEF NoProfile
    <3> QED
      BY <2>2, <3>1, <3>2
  <2>5. {s \in Payments : bank'[s] = "paid"} = {s \in Payments : bank[s] = "paid"}
    BY <2>1 DEF DriverTypes
  <2>6. Allowed(book) \in Nat /\ book.used \in Nat /\ book \in Books
    BY AllowedIsNumber DEF AccessInv, DriverTypes
  <2>7. TaskRides(row, book)
    BY <2>4, <2>6 DEF TaskRides, AccessInv
  <2>8. IsFiniteSet({s \in Payments : bank'[s] = "paid"}) /\ IsFiniteSet(Granted(book))
    BY <2>5 DEF AccessInv
  <2>9. UNCHANGED <<profile, req, book>>
    BY <1>9 DEF Checkout
  <2> QED
    BY <2>3, <2>6, <2>7, <2>8, <2>9, AccessOneTask
<1>10. CASE \E p \in Payments : HandleWebhook(t, p)
  <2>1. PICK p \in Payments : HandleWebhook(t, p)
    BY <1>10
  <2> DEFINE row == [TaskIdle EXCEPT !.at = "verify", !.p = p]
  <2>2. row.at = "verify" /\ row.row = NoProfile
    BY DEF TaskIdle
  <2>3. TaskBecomes(t, row)
    BY <2>1 DEF HandleWebhook, TaskBecomes
  <2> HIDE DEF row
  <2>4. row.at \notin Granting /\ row.row.days = 0
    <3>1. row.at \notin Granting
      BY <2>2 DEF Granting
    <3>2. NoProfile.days = 0
      BY DEF NoProfile
    <3> QED
      BY <2>2, <3>1, <3>2
  <2> QED
    BY <2>1, <2>3, <2>4, AccessBegins DEF HandleWebhook
<1>11. CASE SavePayment(t)
  <2>1. CASE TaskFinish(t)
    BY <1>11, <2>1, AccessFinish DEF SavePayment
  <2>2. CASE ~TaskFinish(t)
    <3>1. PICK step \in TaskStep : TaskGoto(t, step) /\ step \notin Granting
      BY <1>11, <2>2 DEF SavePayment, TaskStep, Granting
    <3>2. task[t].at \notin Granting
      BY <1>11 DEF SavePayment, TaskAt, Granting
    <3> QED
      BY <1>11, <3>1, <3>2, AccessGoto DEF SavePayment
  <2> QED
    BY <2>1, <2>2
<1>12. CASE LoadForGrant(t)
  <2> DEFINE d == payment[task[t].p].driver
             x == [profile[d] EXCEPT !.days = @ + CycleDays]
             row == [task[t] EXCEPT !.at = "grant", !.u = d, !.days = CycleDays, !.row = x]
  <2>1. d \in Drivers /\ task[t] \in TaskRow /\ CycleDays \in Nat
    BY <1>12, TaskTypes, DriversAssumption DEF LoadForGrant, TaskAt, TaskOK, Settling
  <2>2. x \in ProfileRow /\ x.days = profile[d].days + CycleDays
    BY <2>1, ProfileTypes DEF ProfileRow
  <2>3. TaskBecomes(t, row)
    BY <1>12 DEF LoadForGrant, TaskBecomes, DriverTypes
  <2> HIDE DEF x, d
  <2>4. row \in TaskRow /\ row.at \in Granting /\ row.row = x /\ row.days = CycleDays
    BY <2>1, <2>2, PayeeTypes DEF TaskRow, TaskStep, Granting
  <2> HIDE DEF row
  <2>5. row.row.days = profile[d].days + row.days
    BY <2>2, <2>4
  <2>6. UNCHANGED <<profile, req, bank, book>>
    BY <1>12 DEF LoadForGrant
  <2> QED
    BY <2>1, <2>3, <2>4, <2>5, <2>6, AccessGrants
<1>13. CASE SaveGrant(t)
  BY <1>13, AccessGranted
<1>14. CASE SubmitRating(t)
  <2>1. PICK row : TaskBecomes(t, row) /\ Submitted(row)
    BY <1>14, SubmittedRow
  <2>2. row.at \notin Granting
    BY <2>1 DEF Submitted, Finding, Granting
  <2>3. row.row.days = 0 \/ \E d \in Drivers : row.row.days = profile[d].days
    BY <2>1 DEF Submitted, NoProfile
  <2> QED
    BY <1>14, <2>1, <2>2, <2>3, AccessBegins DEF SubmitRating
<1>15. CASE FindRating(t) \/ CreateRating(t)
  <2>1. CASE TaskFinish(t)
    BY <1>15, <2>1, AccessFinish DEF FindRating, CreateRating
  <2>2. CASE ~TaskFinish(t)
    <3>1. PICK step \in TaskStep : TaskGoto(t, step) /\ step \notin Granting
      BY <1>15, <2>2 DEF FindRating, CreateRating, TaskStep, Granting
    <3>2. task[t].at \notin Granting
      BY <1>15 DEF FindRating, CreateRating, TaskAt, Granting
    <3> QED
      BY <1>15, <3>1, <3>2, AccessGoto DEF FindRating, CreateRating
  <2> QED
    BY <2>1, <2>2
<1> QED
  BY <1>1, <1>2, <1>3, <1>4, <1>5, <1>6, <1>7, <1>8, <1>9, <1>10, <1>11, <1>12, <1>13,
     <1>14, <1>15 DEF Task, Webhook

LEMMA AccessInit == DriverInit => AccessInv
<1> SUFFICES ASSUME DriverInit PROVE AccessInv
  OBVIOUS
<1>1. book.admin = 0 /\ book.used = 0 /\ \A p \in Payments : book.grants[p] = 0
  BY DEF DriverInit
<1>2. Granted(book) = {} /\ {p \in Payments : bank[p] = "paid"} = {}
  BY <1>1 DEF Granted, DriverInit
<1>3. IsFiniteSet({}) /\ Cardinality({}) = 0
  BY FS_EmptySet
<1>4. Allowed(book) = 0
  BY <1>1, <1>2, <1>3, DriversAssumption DEF Allowed
<1>5. NoProfile.days = 0 /\ ShiftIdle.row = NoProfile /\ TaskIdle.row = NoProfile
  BY DEF NoProfile, ShiftIdle, TaskIdle
<1>6. TaskIdle.at \notin Granting
  BY DEF TaskIdle, Granting
<1>7. \A t \in Tasks : TaskRides(task[t], book)
  BY <1>1, <1>4, <1>5, <1>6 DEF DriverInit, TaskRides
<1>8. /\ \A d \in Drivers : profile[d].days = 0
      /\ \A r \in Reqs : req[r].row.days = 0
  BY <1>5 DEF DriverInit
<1> QED
  BY <1>1, <1>2, <1>3, <1>4, <1>7, <1>8 DEF AccessInv

\* There is one driver, whose used days are the ones in the books.
OneDriver == \E d : Drivers = {d}

\* What a day takes from a row and adds to the days used.
LEMMA DayTakes ==
  ASSUME NEW row \in ProfileRow, NEW rides \in {0, 1}, NEW used \in Nat, NEW allowed \in Nat,
         row.days + used <= allowed, used + rides <= allowed
  PROVE  Elapse(row).days + (used + rides) <= allowed
<1>1. row.days \in Nat /\ Elapse(row).days = IF row.days = 0 THEN 0 ELSE row.days - 1
  BY ElapsedRow DEF ProfileRow
<1> QED
  BY <1>1

LEMMA AccessDay ==
  ASSUME OneDriver, DriverTypes, AccessInv, DayPasses
  PROVE  AccessInv'
<1> DEFINE n == Cardinality(Riding)
<1>1. PICK d : Drivers = {d}
  BY DEF OneDriver
<1>2. n \in {0, 1} /\ (n = 1 => profile[d].days > 0)
  <2>1. CASE profile[d].days > 0
    <3>1. Riding = {d}
      BY <1>1, <2>1 DEF Riding
    <3> QED
      BY <2>1, <3>1, FS_Singleton
  <2>2. CASE ~(profile[d].days > 0)
    <3>1. Riding = {}
      BY <1>1, <2>2 DEF Riding
    <3> QED
      BY <3>1, FS_EmptySet
  <2> QED
    BY <2>1, <2>2
<1>3. book' = [book EXCEPT !.passed = @ + 1, !.used = @ + n]
  BY DEF DayPasses, Riding
<1> HIDE DEF n
<1>4. Allowed(book) \in Nat /\ book.used \in Nat
  BY AllowedIsNumber DEF AccessInv, DriverTypes
<1>5. book'.used = book.used + n /\ book'.admin = book.admin /\ book'.grants = book.grants
  BY <1>3 DEF DriverTypes, Books
<1>6. Granted(book') = Granted(book) /\ Allowed(book') = Allowed(book)
  BY <1>5 DEF Granted, Allowed
<1>7. book.used + n <= Allowed(book)
  <2>1. profile[d].days \in Nat /\ profile[d].days + book.used <= Allowed(book)
    BY <1>1, ProfileTypes DEF AccessInv
  <2>2. book.used <= Allowed(book)
    BY DEF AccessInv
  <2> QED
    BY <1>2, <1>4, <2>1, <2>2
<1>8. ASSUME NEW e \in Drivers PROVE profile'[e].days + (book.used + n) <= Allowed(book)
  <2>1. profile[e] \in ProfileRow /\ profile[e].days + book.used <= Allowed(book)
    BY ProfileTypes DEF AccessInv
  <2>2. Elapse(profile[e]).days + (book.used + n) <= Allowed(book)
    BY <1>2, <1>4, <1>7, <2>1, DayTakes
  <2>3. profile'[e] = Elapse(profile[e])
    BY ElapsedSlots
  <2> QED
    BY <2>2, <2>3
<1>9. ASSUME NEW r \in Reqs PROVE req'[r].row.days + (book.used + n) <= Allowed(book)
  <2>1. req[r].row \in ProfileRow /\ req[r].row.days + book.used <= Allowed(book)
    BY DEF AccessInv, DriverTypes, PresenceTypes, ReqRow
  <2>2. Elapse(req[r].row).days + (book.used + n) <= Allowed(book)
    BY <1>2, <1>4, <1>7, <2>1, DayTakes
  <2>3. req'[r].row = Elapse(req[r].row)
    BY ElapsedSlots
  <2> QED
    BY <2>2, <2>3
<1>10. ASSUME NEW t \in Tasks PROVE TaskRides(task'[t], book')
  <2>1. task[t].row \in ProfileRow /\ task[t].days \in Nat /\ TaskRides(task[t], book)
    BY TaskTypes DEF AccessInv, TaskRow
  <2>2. /\ task'[t].row = Elapse(task[t].row) /\ task'[t].at = task[t].at
        /\ task'[t].days = task[t].days
    BY ElapsedSlots
  <2>3. CASE task[t].at \notin Granting
    <3>1. Elapse(task[t].row).days + (book.used + n) <= Allowed(book)
      BY <1>2, <1>4, <1>7, <2>1, <2>3, DayTakes DEF TaskRides
    <3> QED
      BY <1>5, <1>6, <2>2, <2>3, <3>1 DEF TaskRides
  <2>4. CASE task[t].at \in Granting
    <3>1. PICK allowed \in Nat : allowed = Allowed(book) + task[t].days
      BY <1>4, <2>1
    <3>2. task[t].row.days + book.used <= allowed /\ book.used + n <= allowed
      BY <1>2, <1>4, <1>7, <2>1, <2>4, <3>1 DEF TaskRides
    <3>3. Elapse(task[t].row).days + (book.used + n) <= allowed
      BY <1>2, <1>4, <2>1, <3>2, DayTakes
    <3> QED
      BY <1>5, <1>6, <2>2, <2>4, <3>1, <3>3 DEF TaskRides
  <2> QED
    BY <2>3, <2>4
<1>11. bank' = bank
  BY DEF DayPasses
<1> QED
  BY <1>5, <1>6, <1>7, <1>8, <1>9, <1>10, <1>11 DEF AccessInv

LEMMA AccessNext ==
  ASSUME OneDriver
  PROVE  DriverTyped /\ PayInv /\ AccessInv /\ [DriverNext]_driverVars => AccessInv'
<1> SUFFICES ASSUME DriverTyped, PayInv, AccessInv, [DriverNext]_driverVars PROVE AccessInv'
  OBVIOUS
<1>0. DriverTypes /\ PresenceTypes
  BY DEF DriverTyped, DriverTypes
<1>1. ASSUME NEW t \in Tasks, Task(t) PROVE AccessInv'
  BY <1>0, <1>1, AccessTaskStep
<1>2. ASSUME NEW p \in Payments, Pay(p) PROVE AccessInv'
  <2>1. {s \in Payments : bank'[s] = "paid"}
          \in SUBSET ({s \in Payments : bank[s] = "paid"} \cup {p})
    BY <1>0, <1>2 DEF Pay, DriverTypes
  <2>2. IsFiniteSet({s \in Payments : bank'[s] = "paid"})
    BY <2>1, FS_AddElement, FS_Subset DEF AccessInv
  <2>3. UNCHANGED <<profile, req, task, book>>
    BY <1>2 DEF Pay, sideVars
  <2> QED
    BY <2>2, <2>3 DEF AccessInv
<1>3. CASE DayPasses
  BY <1>0, <1>3, AccessDay
<1>4. ASSUME NEW r \in Reqs, Presence(r) \/ Jobs(r),
             UNCHANGED <<user, docs, rating, payment, bank, task, book>>
      PROVE  AccessInv'
  <2>1. PresenceCopies
    BY <1>0, <1>4, PresenceRows, JobRows
  <2>2. Allowed(book) \in Nat /\ book.used \in Nat /\ book.used <= Allowed(book)
    BY <1>0, AllowedIsNumber DEF AccessInv, DriverTypes
  <2>3. NoProfile.days = 0
    BY DEF NoProfile
  <2>4. ASSUME NEW d \in Drivers PROVE profile'[d].days + book.used <= Allowed(book)
    BY <2>1 DEF PresenceCopies, ProfileCopies, Copies, AccessInv
  <2>5. ASSUME NEW q \in Reqs PROVE req'[q].row.days + book.used <= Allowed(book)
    <3>1. CASE Copies(req'[q].row, NoProfile)
      BY <2>2, <2>3, <3>1 DEF Copies
    <3>2. CASE ~Copies(req'[q].row, NoProfile)
      BY <2>1, <3>2 DEF PresenceCopies, SlotCopies, Copies, AccessInv
    <3> QED
      BY <3>1, <3>2
  <2> QED
    BY <1>4, <2>4, <2>5 DEF AccessInv
<1>5. CASE UNCHANGED driverVars
  BY <1>5 DEF driverVars, AccessInv
<1> QED
  BY <1>1, <1>2, <1>3, <1>4, <1>5 DEF DriverNext

LEMMA TimesSum ==
  ASSUME NEW c \in Nat, NEW m \in Nat, NEW k \in Nat
  PROVE  c * (m + k) = c * m + c * k
  OBVIOUS

LEMMA TimesNat == ASSUME NEW c \in Nat, NEW m \in Nat PROVE c * m \in Nat
  OBVIOUS

LEMMA AccessPaid == DriverTyped /\ PayInv /\ AccessInv => AccessIsPaid
<1> SUFFICES ASSUME DriverTyped, PayInv, AccessInv PROVE AccessIsPaid
  OBVIOUS
<1> DEFINE paid == {p \in Payments : bank[p] = "paid"}
<1>1. Granted(book) \in SUBSET paid
  BY DEF Granted, PayInv, GrantsOK
<1>2. IsFiniteSet(paid) /\ IsFiniteSet(Granted(book))
  BY DEF AccessInv
<1>3. PICK m \in Nat, n \in Nat : m = Cardinality(Granted(book)) /\ n = Cardinality(paid) /\ m <= n
  BY <1>1, <1>2, FS_Subset, FS_CardinalityType
<1>4. CycleDays * m <= CycleDays * n /\ CycleDays * m \in Nat /\ CycleDays * n \in Nat
  <2> DEFINE k == n - m
  <2>1. k \in Nat /\ n = m + k
    BY <1>3
  <2> HIDE DEF k
  <2>2. CycleDays * (m + k) = CycleDays * m + CycleDays * k
    BY <2>1, <1>3, TimesSum, DriversAssumption
  <2>3. CycleDays * m \in Nat /\ CycleDays * k \in Nat
    BY <2>1, TimesNat, DriversAssumption
  <2> QED
    BY <2>1, <2>2, <2>3
<1>5. book.admin \in Nat /\ book.used \in Nat
  BY DEF DriverTyped, DriverTypes, Books
<1>6. Allowed(book) <= book.admin + CycleDays * n
  BY <1>3, <1>4, <1>5 DEF Allowed
<1>7. Allowed(book) \in Nat
  BY <1>2, AllowedIsNumber DEF DriverTyped, DriverTypes
<1>8. ASSUME NEW d \in Drivers
      PROVE  profile[d].days + book.used <= book.admin + CycleDays * n
  <2>1. profile[d].days \in Nat /\ profile[d].days + book.used <= Allowed(book)
    BY ProfileTypes DEF DriverTyped, AccessInv
  <2> QED
    BY <1>4, <1>5, <1>6, <1>7, <2>1
<1> QED
  BY <1>3, <1>8 DEF AccessIsPaid

\* Where webhooks do not overlap, the days that a driver has and has used were all paid
\* for or granted by an admin, whoever else saves the profile meanwhile (HandleWebhook,
\* ActivateSubscription); of one driver, for the books do not tell drivers apart.
THEOREM AccessIsEarned == OneWebhook /\ OneDriver /\ DriverSpec => []AccessIsPaid
<1> SUFFICES ASSUME OneWebhook, OneDriver PROVE DriverSpec => []AccessIsPaid
  OBVIOUS
<1>1. DriverInit => DriverTyped /\ PayInv /\ AccessInv
  BY DriverInitTypes, PaysInit, AccessInit
<1>2. DriverTyped /\ PayInv /\ AccessInv /\ [DriverNext]_driverVars
        => DriverTyped' /\ PayInv' /\ AccessInv'
  BY DriverNextTypes, PaysNext, AccessNext
<1> QED
  BY <1>1, <1>2, AccessPaid, PTL DEF DriverSpec
=============================================================================
