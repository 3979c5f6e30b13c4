-------------------------- MODULE GuestRoomsProofs --------------------------
(* Proofs about GuestRooms for every set of rooms and guests and every       *)
(* capacity. The inductive invariant says of every room name that is out     *)
(* there, in the SFU, in a token or in a request, that the call it belongs to *)
(* has been activated under it: what is deleted is always an older name.     *)
EXTENDS GuestRooms, TLAPS

(* activateCall has handed this name out. *)
HandedOut(n) ==
  \/ n[2] < room[n[1]].generation
  \/ /\ n[2] = room[n[1]].generation
     /\ room[n[1]].status = "gone" \/ room[n[1]].call \in {"reserved", "present", "lapsed"}

NamesAreHandedOut ==
  /\ \A n \in sfu : HandedOut(n)
  /\ \A g \in Guest : token[g] # None => HandedOut(token[g])
  /\ \A g \in Guest : request[g].phase # "none" => HandedOut(request[g].name)

(* Only a name the call has left behind is queued for deletion. *)
RevokedIsOver ==
  \A n \in revoking :
    \/ n[2] < room[n[1]].generation
    \/ n[2] = room[n[1]].generation /\ room[n[1]].status = "gone"

(* Names are rotated by the poll alone. *)
TargetsAreCurrent == \A n \in poll.targets : n[2] = room[n[1]].generation

(* A room with a call passes its two minutes only if a poll was lost. *)
OverIsMissed ==
  \A r \in Room :
    room[r].lease = "over" /\ room[r].call \notin {"none", "idle"} => r \in missed

LapsedCanRotate ==
  \A r \in Room : room[r].call = "lapsed" => room[r].generation < MaxGenerations

UnusedIsBlank == \A r \in Room : room[r].status = "unused" => room[r].call = "none"

IInv ==
  /\ GuestTypeOK
  /\ NamesAreHandedOut
  /\ RevokedIsOver
  /\ TargetsAreCurrent
  /\ OverIsMissed
  /\ LapsedCanRotate
  /\ UnusedIsBlank
-----------------------------------------------------------------------------
LEMMA InitIInv == Init => IInv
<1> SUFFICES ASSUME Init PROVE IInv
  OBVIOUS
<1> USE DEF Init
<1>1. room \in [Room -> Row] /\ \A r \in Room : room[r] = NoRow("unused", 1)
  <2>1. 1 \in 1..MaxGenerations
    BY GuestRoomsAssumption
  <2>3. NoRow("unused", 1) \in Row
    BY <2>1 DEF Row, NoRow
  <2> QED
    BY <2>3
<1>2. NoRequest \in Request /\ NoRequest.phase = "none"
  BY DEF NoRequest, Request
<1>3. NoPoll \in Poll /\ NoPoll.targets = {} /\ NoPoll.occupied = {}
  BY DEF NoPoll, Poll
<1>4. GuestTypeOK
  BY <1>1, <1>2, <1>3, GuestRoomsAssumption DEF GuestTypeOK, NoRow
<1>5. NamesAreHandedOut /\ RevokedIsOver /\ TargetsAreCurrent
  BY <1>2, <1>3 DEF NamesAreHandedOut, RevokedIsOver, TargetsAreCurrent
<1>6. OverIsMissed /\ LapsedCanRotate /\ UnusedIsBlank
  BY <1>1 DEF OverIsMissed, LapsedCanRotate, UnusedIsBlank, NoRow
<1> QED
  BY <1>4, <1>5, <1>6 DEF IInv

(* A step that leaves the rows alone: it may take names away, or bring names  *)
(* that were handed out.                                                     *)
LEMMA RowsKeptStep ==
  ASSUME IInv, room' = room, GuestTypeOK',
         revoking' \subseteq revoking,
         \A n \in sfu' : HandedOut(n),
         \A g \in Guest : token'[g] # None => HandedOut(token'[g]),
         \A g \in Guest : request'[g].phase # "none" => HandedOut(request'[g].name),
         \A n \in poll'.targets : n[2] = room[n[1]].generation,
         missed \subseteq missed'
  PROVE  IInv'
<1>1. \A n : HandedOut(n)' <=> HandedOut(n)
  BY DEF HandedOut
<1>2. NamesAreHandedOut'
  BY <1>1 DEF NamesAreHandedOut, HandedOut
<1>3. RevokedIsOver' /\ TargetsAreCurrent' /\ OverIsMissed' /\ LapsedCanRotate' /\ UnusedIsBlank'
  BY DEF IInv, RevokedIsOver, TargetsAreCurrent, OverIsMissed, LapsedCanRotate, UnusedIsBlank
<1> QED
  BY <1>2, <1>3 DEF IInv

(* A step that changes rows without taking a call back, deleting a room or    *)
(* rotating a name.                                                          *)
LEMMA RowStep ==
  ASSUME IInv, NEW r \in Room, NEW row \in Row,
         room' = [room EXCEPT ![r] = row],
         UNCHANGED <<revoking, sfuVars, token, pollVars, failureVars>>,
         request' \in [Guest -> Request],
         \A g \in Guest : request'[g].phase # "none" =>
            /\ request'[g].name \in Name
            /\ request'[g] = request[g] \/ HandedOut(request[g].name)',
         row.generation = room[r].generation,
         room[r].status # "gone", row.status # "gone",
         room[r].call \in {"reserved", "present", "lapsed"} =>
            row.call \in {"reserved", "present", "lapsed"},
         row.lease # "live" => row.status = "open",
         row.due => row.status = "draft",
         row.lease = "over" /\ row.call \notin {"none", "idle"} => r \in missed,
         row.call = "lapsed" => row.generation < MaxGenerations,
         row.status # "unused"
  PROVE  IInv'
<1>1. /\ \A q \in Room : room'[q] = IF q = r THEN row ELSE room[q]
      /\ room' \in [Room -> Row]
  BY DEF IInv, GuestTypeOK
<1>2. GuestTypeOK'
  BY <1>1 DEF IInv, GuestTypeOK, sfuVars, pollVars, failureVars
<1>3. \A n \in Name : HandedOut(n) => HandedOut(n)'
  BY <1>1 DEF HandedOut, Name
<1>4. NamesAreHandedOut'
  <2>1. sfu \subseteq Name /\ \A g \in Guest : token[g] # None => token[g] \in Name
    BY DEF IInv, GuestTypeOK
  <2>2. \A n \in sfu' : HandedOut(n)'
    BY <1>3, <2>1 DEF IInv, NamesAreHandedOut, sfuVars
  <2>3. ASSUME NEW g \in Guest, (token[g] # None)'
        PROVE  HandedOut(token[g])'
    <3>1. token' = token /\ token[g] \in Name /\ HandedOut(token[g])
      BY <2>1, <2>3 DEF IInv, NamesAreHandedOut
    <3>2. \A n \in Name : n = token[g] => HandedOut(n)'
      BY <1>3, <3>1
    <3> QED
      BY <3>1, <3>2 DEF HandedOut
  <2>4. ASSUME NEW g \in Guest, (request[g].phase # "none")'
        PROVE  HandedOut(request[g].name)'
    <3>1. CASE request'[g] = request[g]
      <4>1. request[g].name \in Name /\ HandedOut(request[g].name)
        BY <2>4, <3>1 DEF IInv, NamesAreHandedOut, GuestTypeOK
      <4>2. \A n \in Name : n = request[g].name => HandedOut(n)'
        BY <1>3, <4>1
      <4> QED
        BY <3>1, <4>1, <4>2 DEF HandedOut
    <3> QED
      BY <2>4, <3>1
  <2> QED
    BY <2>2, <2>3, <2>4 DEF NamesAreHandedOut
<1>5. RevokedIsOver' /\ TargetsAreCurrent'
  BY <1>1 DEF IInv, GuestTypeOK, RevokedIsOver, TargetsAreCurrent, Name, pollVars, Poll
<1>6. OverIsMissed' /\ LapsedCanRotate' /\ UnusedIsBlank'
  BY <1>1 DEF IInv, OverIsMissed, LapsedCanRotate, UnusedIsBlank, pollVars
<1> QED
  BY <1>2, <1>4, <1>5, <1>6 DEF IInv

-----------------------------------------------------------------------------
(* Deleting expired rows. The call of a deleted row has left its name behind. *)
LEMMA DeleteStep ==
  ASSUME IInv, NEW rows \in [Room -> Row], NEW gone \in SUBSET Room, NEW queue \in SUBSET Name,
         Delete(rows, gone, queue),
         UNCHANGED <<sfuVars, requestVars, failureVars>>,
         poll' \in Poll, poll'.occupied \subseteq poll'.targets,
         \A n \in poll'.targets : n[2] = rows[n[1]].generation,
         missed' \subseteq Room,
         \A r \in Room \ gone :
            /\ rows[r].lease # "live" => rows[r].status = "open"
            /\ rows[r].due => rows[r].status = "draft"
            /\ rows[r].lease = "over" /\ rows[r].call \notin {"none", "idle"} => r \in missed'
            /\ rows[r].call = "lapsed" => rows[r].generation < MaxGenerations
            /\ rows[r].status = "unused" => rows[r].call = "none",
         \A n \in Name : HandedOut(n) =>
            \/ n[2] < rows[n[1]].generation
            \/ /\ n[2] = rows[n[1]].generation
               /\ \/ rows[n[1]].status = "gone"
                  \/ rows[n[1]].call \in {"reserved", "present", "lapsed"},
         \A n \in queue :
            \/ n[2] < rows[n[1]].generation
            \/ n[2] = rows[n[1]].generation /\ rows[n[1]].status = "gone"
  PROVE  IInv'
<1>1. /\ room' \in [Room -> Row]
      /\ \A r \in Room : room'[r] = IF r \in gone THEN NoRow("gone", rows[r].generation) ELSE rows[r]
  BY DEF Delete, Row, NoRow
<1>2. revoking' = queue \cup {<<r, rows[r].generation>> : r \in {q \in gone : rows[q].call # "none"}}
  BY DEF Delete
<1>3. revoking' \subseteq Name
  BY <1>2 DEF Name, Row
<1>4. GuestTypeOK'
  <2>1. \A r \in Room :
          /\ room'[r].lease # "live" => room'[r].status = "open"
          /\ room'[r].due => room'[r].status = "draft"
    BY <1>1 DEF NoRow
  <2> QED
    BY <1>1, <1>3, <2>1 DEF IInv, GuestTypeOK, sfuVars, requestVars, failureVars
<1>5. \A n \in Name : HandedOut(n) => HandedOut(n)'
  BY <1>1 DEF HandedOut, Name, NoRow
<1>6. NamesAreHandedOut'
  <2>1. \A n \in sfu' : HandedOut(n)'
    BY <1>5 DEF IInv, GuestTypeOK, NamesAreHandedOut, sfuVars
  <2>2. ASSUME NEW g \in Guest, (token[g] # None)'
        PROVE  HandedOut(token[g])'
    <3>1. token' = token /\ token[g] \in Name /\ HandedOut(token[g])
      BY <2>2 DEF IInv, GuestTypeOK, NamesAreHandedOut, requestVars
    <3>2. \A n \in Name : n = token[g] => HandedOut(n)'
      BY <1>5, <3>1
    <3> QED
      BY <3>1, <3>2 DEF HandedOut
  <2>3. ASSUME NEW g \in Guest, (request[g].phase # "none")'
        PROVE  HandedOut(request[g].name)'
    <3>1. /\ request' = request /\ request[g].name \in Name
          /\ HandedOut(request[g].name)
      BY <2>3 DEF IInv, GuestTypeOK, NamesAreHandedOut, requestVars
    <3>2. \A n \in Name : n = request[g].name => HandedOut(n)'
      BY <1>5, <3>1
    <3> QED
      BY <3>1, <3>2 DEF HandedOut
  <2> QED
    BY <2>1, <2>2, <2>3 DEF NamesAreHandedOut
<1>7. RevokedIsOver'
  <2> SUFFICES ASSUME NEW n \in revoking'
               PROVE  \/ n[2] < room'[n[1]].generation
                      \/ n[2] = room'[n[1]].generation /\ room'[n[1]].status = "gone"
    BY DEF RevokedIsOver
  <2>1. CASE n \in queue
    BY <1>1, <2>1 DEF NoRow, Name
  <2>2. CASE n \notin queue
    BY <1>1, <1>2, <2>2 DEF NoRow
  <2> QED
    BY <2>1, <2>2
<1>8. TargetsAreCurrent'
  <2>1. \A r \in Room : room'[r].generation = rows[r].generation
    BY <1>1 DEF NoRow
  <2>2. poll'.targets \subseteq Name
    BY DEF Poll
  <2> QED
    BY <2>1, <2>2 DEF TargetsAreCurrent, Name
<1>9. OverIsMissed' /\ LapsedCanRotate' /\ UnusedIsBlank'
  BY <1>1 DEF OverIsMissed, LapsedCanRotate, UnusedIsBlank, NoRow
<1> QED
  BY <1>4, <1>6, <1>7, <1>8, <1>9 DEF IInv

(* Deletions that follow no answer of the SFU: rows as they are, or one more. *)
LEMMA CleanUpStep ==
  ASSUME IInv, NEW rows \in [Room -> Row], NEW gone \in SUBSET Room,
         Delete(rows, gone, revoking),
         UNCHANGED <<sfuVars, requestVars, pollVars, failureVars>>,
         \A r \in Room :
            \/ rows[r] = room[r]
            \/ /\ room[r].status = "unused" /\ rows[r].status # "unused"
               /\ rows[r].generation = room[r].generation
               /\ rows[r].lease = "live" /\ ~rows[r].due /\ rows[r].call \in {"none", "idle"}
  PROVE  IInv'
<1>1. \A n \in Name : HandedOut(n) =>
         \/ n[2] < rows[n[1]].generation
         \/ /\ n[2] = rows[n[1]].generation
            /\ rows[n[1]].status = "gone" \/ rows[n[1]].call \in {"reserved", "present", "lapsed"}
  BY DEF IInv, UnusedIsBlank, HandedOut, Name
<1>2. revoking \subseteq Name
  BY DEF IInv, GuestTypeOK
<1>3. \A n \in revoking :
         \/ n[2] < rows[n[1]].generation
         \/ n[2] = rows[n[1]].generation /\ rows[n[1]].status = "gone"
  BY <1>2 DEF IInv, RevokedIsOver, Name
<1>4. /\ poll' = poll /\ missed' = missed
      /\ poll \in Poll /\ poll.occupied \subseteq poll.targets /\ missed \subseteq Room
  BY DEF IInv, GuestTypeOK, pollVars
<1>5. \A n \in poll.targets : n[2] = rows[n[1]].generation
  BY <1>4 DEF IInv, TargetsAreCurrent, Poll, Name
<1>6. \A r \in Room :
         /\ rows[r].lease # "live" => rows[r].status = "open"
         /\ rows[r].due => rows[r].status = "draft"
         /\ rows[r].lease = "over" /\ rows[r].call \notin {"none", "idle"} => r \in missed
         /\ rows[r].call = "lapsed" => rows[r].generation < MaxGenerations
         /\ rows[r].status = "unused" => rows[r].call = "none"
  BY DEF IInv, GuestTypeOK, OverIsMissed, LapsedCanRotate, UnusedIsBlank
<1> QED
  BY <1>1, <1>2, <1>3, <1>4, <1>5, <1>6, DeleteStep

LEMMA CreateStep ==
  ASSUME IInv, NEW r \in Room, NEW status \in {"draft", "open"}, NEW call \in {"none", "idle"},
         Create(r, status, call)
  PROVE  IInv'
<1> DEFINE rows == [room EXCEPT ![r] = [@ EXCEPT !.status = status, !.call = call]]
<1>1. room \in [Room -> Row]
  BY DEF IInv, GuestTypeOK
<1>2. /\ rows \in [Room -> Row]
      /\ \A q \in Room \ {r} : rows[q] = room[q]
      /\ rows[r].generation = room[r].generation /\ rows[r].call = call
      /\ rows[r].lease = "live" /\ ~rows[r].due /\ rows[r].status = status
  <2>1. room[r].lease = "live" /\ ~room[r].due
    BY <1>1 DEF IInv, GuestTypeOK, Create, Row
  <2> QED
    BY <1>1, <2>1 DEF Row
<1>3. Delete(rows, Expired(room, {}), revoking) /\ room[r].status = "unused"
  BY DEF Create
<1>4. Expired(room, {}) \in SUBSET Room
  BY DEF Expired, Stored
<1>5. UNCHANGED <<sfuVars, requestVars, pollVars, failureVars>>
  BY DEF Create
<1> HIDE DEF rows
<1> QED
  BY <1>2, <1>3, <1>4, <1>5, CleanUpStep

LEMMA DeadlineStep ==
  ASSUME IInv, NEW r \in Room,
         FinalizeDraft(r) \/ EnsureCall(r) \/ DraftFallsDue(r) \/ LeaseEnds(r)
            \/ CallLapses(r) \/ LateMinutesEnd(r)
  PROVE  IInv'
<1>1. /\ room \in [Room -> Row] /\ room[r] \in Row
      /\ request \in [Guest -> Request]
      /\ \A g \in Guest : request[g].phase # "none" => request[g].name \in Name
      /\ room[r].lease # "live" => room[r].status = "open"
      /\ room[r].due => room[r].status = "draft"
      /\ room[r].lease = "over" /\ room[r].call \notin {"none", "idle"} => r \in missed
      /\ room[r].call = "lapsed" => room[r].generation < MaxGenerations
  BY DEF IInv, GuestTypeOK, OverIsMissed, LapsedCanRotate
<1>2. CASE FinalizeDraft(r)
  <2> DEFINE row == [room[r] EXCEPT !.status = "open"]
  <2>1. room' = [room EXCEPT ![r] = row]
    BY <1>2 DEF FinalizeDraft
  <2>2. /\ row \in Row /\ row.status = "open" /\ row.lease = room[r].lease /\ row.due = room[r].due
        /\ row.call = room[r].call /\ row.generation = room[r].generation
    BY <1>1 DEF Row
  <2>3. room[r].status = "draft" /\ ~room[r].due /\ room[r].lease = "live"
    BY <1>2 DEF FinalizeDraft, Active
  <2> HIDE DEF row
  <2> QED
    BY <1>1, <1>2, <2>1, <2>2, <2>3, RowStep DEF FinalizeDraft, requestVars
<1>3. CASE EnsureCall(r)
  <2> DEFINE row == [room[r] EXCEPT !.call = "idle"]
  <2>1. room' = [room EXCEPT ![r] = row]
    BY <1>3 DEF EnsureCall
  <2>2. /\ row \in Row /\ row.call = "idle" /\ row.lease = room[r].lease /\ row.due = room[r].due
        /\ row.status = room[r].status /\ row.generation = room[r].generation
    BY <1>1 DEF Row
  <2>3. room[r].status \in {"draft", "open"} /\ room[r].call = "none"
    BY <1>3 DEF EnsureCall, Active, Stored
  <2> HIDE DEF row
  <2> QED
    BY <1>1, <1>3, <2>1, <2>2, <2>3, RowStep DEF EnsureCall, requestVars
<1>4. CASE DraftFallsDue(r)
  <2> DEFINE row == [room[r] EXCEPT !.due = TRUE]
  <2>1. room' = [room EXCEPT ![r] = row]
    BY <1>4 DEF DraftFallsDue
  <2>2. /\ row \in Row /\ row.call = room[r].call /\ row.lease = room[r].lease
        /\ row.status = room[r].status /\ row.generation = room[r].generation
    BY <1>1 DEF Row
  <2>3. room[r].status = "draft"
    BY <1>4 DEF DraftFallsDue
  <2> HIDE DEF row
  <2> QED
    BY <1>1, <1>4, <2>1, <2>2, <2>3, RowStep DEF DraftFallsDue, requestVars
<1>5. CASE LeaseEnds(r)
  <2> DEFINE row == [room[r] EXCEPT !.lease = "late"]
  <2>1. room' = [room EXCEPT ![r] = row]
    BY <1>5 DEF LeaseEnds
  <2>2. /\ row \in Row /\ row.call = room[r].call /\ row.lease = "late" /\ row.due = room[r].due
        /\ row.status = room[r].status /\ row.generation = room[r].generation
    BY <1>1 DEF Row
  <2>3. room[r].status = "open"
    BY <1>5 DEF LeaseEnds
  <2> HIDE DEF row
  <2> QED
    BY <1>1, <1>5, <2>1, <2>2, <2>3, RowStep DEF LeaseEnds, requestVars
<1>6. CASE CallLapses(r)
  <2> DEFINE row == [room[r] EXCEPT !.call = "lapsed"]
  <2>1. room' = [room EXCEPT ![r] = row]
    BY <1>6 DEF CallLapses
  <2>2. /\ row \in Row /\ row.call = "lapsed" /\ row.lease = room[r].lease /\ row.due = room[r].due
        /\ row.status = room[r].status /\ row.generation = room[r].generation
    BY <1>1 DEF Row
  <2>3. /\ room[r].status \in {"draft", "open"} /\ room[r].call \in {"reserved", "present"}
        /\ room[r].generation < MaxGenerations
    BY <1>6 DEF CallLapses, Stored
  <2> HIDE DEF row
  <2> QED
    BY <1>1, <1>6, <2>1, <2>2, <2>3, RowStep DEF CallLapses, requestVars
<1>7. CASE LateMinutesEnd(r)
  <2> DEFINE row == [room[r] EXCEPT !.lease = "over"]
  <2>1. room' = [room EXCEPT ![r] = row]
    BY <1>7 DEF LateMinutesEnd
  <2>2. /\ row \in Row /\ row.call = room[r].call /\ row.lease = "over" /\ row.due = room[r].due
        /\ row.status = room[r].status /\ row.generation = room[r].generation
    BY <1>1 DEF Row
  <2>3. room[r].status = "open" /\ room[r].lease = "late"
    BY <1>7 DEF LateMinutesEnd
  <2>4. room[r].call \notin {"none", "idle"} => r \in missed
    <3>1. Confirmable(r)
      BY <1>1, <2>3 DEF Confirmable, Stored
    <3> QED
      BY <1>7, <3>1 DEF LateMinutesEnd, PresenceTargets
  <2> HIDE DEF row
  <2> QED
    BY <1>1, <1>7, <2>1, <2>2, <2>3, <2>4, RowStep DEF LateMinutesEnd, requestVars
<1> QED
  BY <1>2, <1>3, <1>4, <1>5, <1>6, <1>7

LEMMA RemovalStep ==
  ASSUME IInv, CleanUp \/ \E r \in Room : CancelDraft(r)
  PROVE  IInv'
<1>1. room \in [Room -> Row] /\ Expired(room, {}) \in SUBSET Room
  BY DEF IInv, GuestTypeOK, Expired, Stored
<1>2. CASE CleanUp
  BY <1>1, <1>2, CleanUpStep DEF CleanUp
<1>3. ASSUME NEW r \in Room, CancelDraft(r) PROVE IInv'
  BY <1>1, <1>3, CleanUpStep DEF CancelDraft
<1> QED
  BY <1>2, <1>3

LEMMA RequestStep ==
  ASSUME IInv, NEW g \in Guest, NEW r \in Room, RequestToken(g, r)
  PROVE  IInv'
<1> DEFINE fresh == room[r].call \in {"idle", "lapsed"}
           row == [room[r] EXCEPT !.call = IF fresh THEN "reserved" ELSE @]
           asked == [phase |-> "creating", name |-> RoomName(r), fresh |-> fresh]
<1>1. /\ room \in [Room -> Row] /\ room[r] \in Row
      /\ request \in [Guest -> Request]
      /\ \A h \in Guest : request[h].phase # "none" => request[h].name \in Name
  BY DEF IInv, GuestTypeOK
<1>2. /\ room' = [room EXCEPT ![r] = row]
      /\ request' = [request EXCEPT ![g] = asked]
      /\ UNCHANGED <<revoking, sfuVars, token, pollVars, failureVars>>
      /\ Active(r) /\ room[r].call # "none"
  BY DEF RequestToken
<1>3. /\ row \in Row /\ row.call \in {"reserved", "present"}
      /\ row.status = room[r].status /\ row.lease = room[r].lease /\ row.due = room[r].due
      /\ row.generation = room[r].generation
  BY <1>1, <1>2 DEF Row
<1>4. room[r].status \in {"draft", "open"} /\ row.lease = "live" /\ ~row.due
  BY <1>2, <1>3 DEF Active, Stored
<1>5. asked \in Request /\ asked.name = RoomName(r) /\ RoomName(r) \in Name
  BY <1>1 DEF RoomName, Name, Row, Request
<1> HIDE DEF asked, row
<1>6. request' \in [Guest -> Request]
  BY <1>1, <1>2, <1>5
<1>7. ASSUME NEW h \in Guest, request'[h].phase # "none"
      PROVE  /\ request'[h].name \in Name
             /\ request'[h] = request[h] \/ HandedOut(request[h].name)'
  <2>1. CASE h = g
    <3>1. request'[h].name = RoomName(r)
      BY <1>1, <1>2, <1>5, <2>1
    <3>2. room'[r].generation = room[r].generation /\ room'[r].call \in {"reserved", "present"}
      BY <1>1, <1>2, <1>3
    <3> QED
      BY <1>5, <3>1, <3>2 DEF HandedOut, RoomName
  <2>2. CASE h # g
    BY <1>1, <1>2, <1>7, <2>2
  <2> QED
    BY <2>1, <2>2
<1> QED
  BY <1>2, <1>3, <1>4, <1>6, <1>7, RowStep
-----------------------------------------------------------------------------
(* What the SFU does, and the end of a request for a token. *)
LEMMA SfuStep ==
  ASSUME IInv,
         \/ \E g \in Guest : Answer(g) \/ Join(g) \/ Leave(g) \/ TokenExpires(g)
         \/ \E n \in Name : EmptyRoomCloses(n) \/ Revoke(n)
  PROVE  IInv'
<1>1. /\ sfu \subseteq Name /\ at \in [Guest -> sfu \cup {None}] /\ unsure \subseteq Name
      /\ token \in [Guest -> Name \cup {None}]
      /\ request \in [Guest -> Request]
      /\ \A g \in Guest : request[g].phase # "none" => request[g].name \in Name
      /\ failures \in 0..MaxFailures /\ MaxFailures \in Nat
  BY GuestRoomsAssumption DEF IInv, GuestTypeOK
<1>2. /\ \A n \in sfu : HandedOut(n)
      /\ \A g \in Guest : token[g] # None => HandedOut(token[g])
      /\ \A g \in Guest : request[g].phase # "none" => HandedOut(request[g].name)
      /\ \A n \in poll.targets : n[2] = room[n[1]].generation
  BY DEF IInv, NamesAreHandedOut, TargetsAreCurrent
<1>3. NoRequest \in Request /\ NoRequest.phase = "none"
  BY DEF NoRequest, Request
<1>4. ASSUME NEW g \in Guest, CreateRoom(g) PROVE IInv'
  <2>1. /\ sfu' = sfu \cup {request[g].name} /\ at' = at
        /\ request' = [request EXCEPT ![g].phase = "checking"]
        /\ UNCHANGED <<room, revoking, token, poll, missed, unsure, failures>>
        /\ request[g].phase = "creating"
    BY <1>4 DEF CreateRoom, pollVars, failureVars
  <2>2. /\ request' \in [Guest -> Request]
        /\ \A h \in Guest : request'[h].phase # "none" =>
              request[h].phase # "none" /\ request'[h].name = request[h].name
    BY <1>1, <2>1 DEF Request
  <2>3. at' \in [Guest -> sfu' \cup {None}]
    BY <1>1, <2>1
  <2>4. GuestTypeOK'
    BY <1>1, <2>1, <2>2, <2>3 DEF IInv, GuestTypeOK
  <2>5. \A n \in sfu' : HandedOut(n)
    BY <1>2, <2>1
  <2> QED
    BY <1>2, <2>1, <2>2, <2>4, <2>5, RowsKeptStep
<1>5. ASSUME NEW g \in Guest, CreateRoomFails(g) PROVE IInv'
  <2>1. /\ sfu \subseteq sfu' /\ sfu' \subseteq sfu \cup {request[g].name} /\ at' = at
        /\ request' = [request EXCEPT ![g] = NoRequest]
        /\ UNCHANGED <<room, revoking, token, poll, missed>>
        /\ request[g].phase = "creating"
        /\ unsure' = unsure \cup {request[g].name}
        /\ failures' = failures + 1 /\ failures < MaxFailures
    BY <1>5 DEF CreateRoomFails, Fail, pollVars
  <2>2. /\ request' \in [Guest -> Request]
        /\ \A h \in Guest : request'[h].phase # "none" =>
              request[h].phase # "none" /\ request'[h].name = request[h].name
    BY <1>1, <1>3, <2>1
  <2>3. at' \in [Guest -> sfu' \cup {None}]
    BY <1>1, <2>1
  <2>4. GuestTypeOK'
    BY <1>1, <2>1, <2>2, <2>3 DEF IInv, GuestTypeOK
  <2>5. \A n \in sfu' : HandedOut(n)
    BY <1>2, <2>1
  <2> QED
    BY <1>2, <2>1, <2>2, <2>4, <2>5, RowsKeptStep
<1>6. ASSUME NEW g \in Guest, CheckAndIssue(g) PROVE IInv'
  <2>1. /\ UNCHANGED <<room, revoking, sfu, at, poll, missed, unsure, failures>>
        /\ request[g].phase = "checking"
        /\ \/ /\ token' = [token EXCEPT ![g] = request[g].name]
              /\ request' = [request EXCEPT ![g] = NoRequest]
           \/ /\ token' = token
              /\ request' = [request EXCEPT ![g].phase = "deleting"]
    BY <1>6 DEF CheckAndIssue, pollVars, failureVars, sfuVars
  <2>2. /\ request' \in [Guest -> Request]
        /\ \A h \in Guest : request'[h].phase # "none" =>
              request[h].phase # "none" /\ request'[h].name = request[h].name
    BY <1>1, <1>3, <2>1 DEF Request
  <2>3. /\ token' \in [Guest -> Name \cup {None}]
        /\ \A h \in Guest : token'[h] # None => HandedOut(token'[h])
    BY <1>1, <1>2, <2>1
  <2>4. GuestTypeOK'
    BY <1>1, <2>1, <2>2, <2>3 DEF IInv, GuestTypeOK
  <2> QED
    BY <1>2, <2>1, <2>2, <2>3, <2>4, RowsKeptStep
<1>7. ASSUME NEW n \in Name, CloseRoom(n) \/ (sfu' = sfu \ {n} /\ at' = at /\ People(n) = {})
      PROVE  /\ sfu' \subseteq Name /\ at' \in [Guest -> sfu' \cup {None}]
             /\ \A m \in sfu' : HandedOut(m)
  BY <1>1, <1>2, <1>7 DEF CloseRoom, People
<1>8. ASSUME NEW g \in Guest, DeleteAgain(g) PROVE IInv'
  <2>1. /\ CloseRoom(request[g].name) /\ request[g].name \in Name
        /\ request' = [request EXCEPT ![g] = NoRequest]
        /\ UNCHANGED <<room, revoking, token, poll, missed, unsure, failures>>
    BY <1>1, <1>8 DEF DeleteAgain, pollVars, failureVars
  <2>2. /\ request' \in [Guest -> Request]
        /\ \A h \in Guest : request'[h].phase # "none" =>
              request[h].phase # "none" /\ request'[h].name = request[h].name
    BY <1>1, <1>3, <2>1
  <2>3. GuestTypeOK'
    BY <1>1, <1>7, <2>1, <2>2 DEF IInv, GuestTypeOK
  <2> QED
    BY <1>2, <1>7, <2>1, <2>2, <2>3, RowsKeptStep
<1>9. ASSUME NEW g \in Guest, DeleteAgainFails(g) PROVE IInv'
  <2>1. /\ UNCHANGED <<room, revoking, sfu, at, token, poll, missed>>
        /\ request' = [request EXCEPT ![g] = NoRequest]
        /\ request[g].phase = "deleting"
        /\ unsure' = unsure \cup {request[g].name}
        /\ failures' = failures + 1 /\ failures < MaxFailures
    BY <1>9 DEF DeleteAgainFails, Fail, pollVars, sfuVars
  <2>2. /\ request' \in [Guest -> Request]
        /\ \A h \in Guest : request'[h].phase # "none" =>
              request[h].phase # "none" /\ request'[h].name = request[h].name
    BY <1>1, <1>3, <2>1
  <2>3. GuestTypeOK'
    BY <1>1, <2>1, <2>2 DEF IInv, GuestTypeOK
  <2> QED
    BY <1>2, <2>1, <2>2, <2>3, RowsKeptStep
<1>10. ASSUME NEW g \in Guest, Join(g) \/ Leave(g) \/ TokenExpires(g) PROVE IInv'
  <2>1. /\ UNCHANGED <<room, revoking, sfu, request, poll, missed, unsure, failures>>
        /\ at' \in [Guest -> sfu \cup {None}]
        /\ token' \in [Guest -> Name \cup {None}]
        /\ \A h \in Guest : token'[h] # None => token'[h] = token[h]
    BY <1>1, <1>10 DEF Join, Leave, TokenExpires, requestVars, pollVars, failureVars, sfuVars
  <2>2. GuestTypeOK'
    BY <2>1 DEF IInv, GuestTypeOK
  <2> QED
    BY <1>2, <2>1, <2>2, RowsKeptStep
<1>11. ASSUME NEW n \in Name, EmptyRoomCloses(n) \/ Revoke(n) PROVE IInv'
  <2>1. /\ UNCHANGED <<room, request, token, poll, missed, unsure, failures>>
        /\ revoking' \subseteq revoking
        /\ CloseRoom(n) \/ (sfu' = sfu \ {n} /\ at' = at /\ People(n) = {})
    BY <1>11 DEF EmptyRoomCloses, Revoke, requestVars, pollVars, failureVars
  <2>2. GuestTypeOK'
    BY <1>7, <2>1 DEF IInv, GuestTypeOK
  <2> QED
    BY <1>2, <1>7, <2>1, <2>2, RowsKeptStep
<1> QED
  BY <1>4, <1>5, <1>6, <1>8, <1>9, <1>10, <1>11 DEF Answer
-----------------------------------------------------------------------------
(* The steps of the poll that change no row, and a restart. *)
LEMMA PollStep ==
  ASSUME IInv, PollStarts \/ SfuAnswers \/ PollFails \/ Restart
  PROVE  IInv'
<1>1. /\ room' = room /\ revoking' = revoking /\ sfu' = sfu /\ at' = at /\ token' = token
      /\ missed \subseteq missed'
  BY DEF PollStarts, SfuAnswers, PollFails, Restart, sfuVars, requestVars, failureVars
<1>2. /\ poll \in Poll /\ poll.occupied \subseteq poll.targets
      /\ request \in [Guest -> Request]
      /\ \A g \in Guest : request[g].phase # "none" => request[g].name \in Name
      /\ room \in [Room -> Row] /\ missed \subseteq Room /\ unsure \subseteq Name
      /\ failures \in 0..MaxFailures /\ MaxFailures \in Nat
      /\ \A n \in poll.targets : n[2] = room[n[1]].generation
  BY GuestRoomsAssumption DEF IInv, GuestTypeOK, TargetsAreCurrent
<1>3. NoPoll \in Poll /\ NoPoll.targets = {} /\ NoPoll.occupied = {}
  BY DEF NoPoll, Poll
<1>4. NoRequest \in Request /\ NoRequest.phase = "none"
  BY DEF NoRequest, Request
<1>5. /\ request' \in [Guest -> Request]
      /\ \A g \in Guest : request'[g].phase # "none" =>
            request[g].phase # "none" /\ request'[g].name = request[g].name
  <2>1. CASE PollStarts \/ SfuAnswers \/ PollFails
    BY <1>2, <2>1 DEF PollStarts, SfuAnswers, PollFails, requestVars
  <2>2. CASE Restart
    BY <1>4, <2>2 DEF Restart
  <2> QED
    BY <2>1, <2>2
<1>6. /\ poll' \in Poll /\ poll'.occupied \subseteq poll'.targets
      /\ \A n \in poll'.targets : n[2] = room[n[1]].generation
  <2>1. CASE PollStarts
    <3> DEFINE late == {r \in Stored : room[r].lease = "late"}
    <3>1. PresenceTargets \subseteq Name /\ \A n \in PresenceTargets : n[2] = room[n[1]].generation
      BY <1>2 DEF PresenceTargets, RoomName, Name, Row
    <3>2. poll' = [phase |-> "asked", targets |-> PresenceTargets, occupied |-> {}, late |-> late]
      BY <2>1 DEF PollStarts, NoPoll
    <3>3. late \subseteq Room
      BY DEF Stored
    <3> HIDE DEF late
    <3> QED
      BY <3>1, <3>2, <3>3 DEF Poll
  <2>2. CASE SfuAnswers
    <3> DEFINE seen == {n \in poll.targets : People(n) # {}}
    <3>1. poll' = [poll EXCEPT !.phase = "answered", !.occupied = seen]
      BY <2>2 DEF SfuAnswers
    <3>2. seen \subseteq poll.targets
      OBVIOUS
    <3> HIDE DEF seen
    <3> QED
      BY <1>2, <3>1, <3>2 DEF Poll
  <2>3. CASE PollFails \/ Restart
    BY <1>3, <2>3 DEF PollFails, Restart
  <2> QED
    BY <2>1, <2>2, <2>3
<1>7. missed' \subseteq Room /\ unsure' \subseteq Name /\ failures' \in 0..MaxFailures
  <2>1. CASE PollStarts \/ SfuAnswers
    BY <1>2, <2>1 DEF PollStarts, SfuAnswers, failureVars
  <2>2. CASE PollFails
    BY <1>2, <2>2 DEF PollFails, Fail, Poll
  <2>3. CASE Restart
    BY <1>2, <2>3 DEF Restart, Fail, Stored
  <2> QED
    BY <2>1, <2>2, <2>3
<1>8. GuestTypeOK'
  BY <1>1, <1>2, <1>5, <1>6, <1>7 DEF IInv, GuestTypeOK
<1>9. /\ \A n \in sfu' : HandedOut(n)
      /\ \A g \in Guest : token'[g] # None => HandedOut(token'[g])
      /\ \A g \in Guest : request'[g].phase # "none" => HandedOut(request'[g].name)
  BY <1>1, <1>5 DEF IInv, NamesAreHandedOut
<1> QED
  BY <1>1, <1>6, <1>8, <1>9, RowsKeptStep

LEMMA PollAppliesStep ==
  ASSUME IInv, PollApplies
  PROVE  IInv'
<1> DEFINE occupied == {n[1] : n \in poll.occupied}
           empty == {n[1] : n \in poll.targets} \ occupied
           renewed == Renewed(room, occupied)
           released == Releasable(renewed, empty)
           rows == Released(renewed, released)
           gone == Expired(rows, empty)
           queue == revoking \cup {RoomName(r) : r \in released}
<1>1. /\ room \in [Room -> Row] /\ revoking \subseteq Name /\ missed \subseteq Room
      /\ MaxGenerations \in Nat
      /\ \A r \in Room : room[r].call = "lapsed" => room[r].generation < MaxGenerations
  BY GuestRoomsAssumption DEF IInv, GuestTypeOK, LapsedCanRotate
<1>2. released \subseteq Stored /\ Stored \subseteq Room /\ gone \in SUBSET Room
  BY DEF Releasable, Stored, Expired
<1>3. \A r \in released : room[r].call = "lapsed" /\ renewed[r] = room[r]
  BY <1>1, <1>2 DEF Releasable, Renewed
<1>4. \A r \in Room :
        \/ /\ r \in released
           /\ rows[r] = [room[r] EXCEPT !.call = "idle", !.generation = @ + 1]
        \/ /\ r \notin released /\ Confirmable(r)
           /\ rows[r] = [room[r] EXCEPT !.lease = "live", !.call = "present"]
        \/ r \notin released /\ rows[r] = room[r]
  BY <1>2, <1>3 DEF Released, Renewed
<1>5. ASSUME NEW r \in Room
      PROVE  /\ rows[r] \in Row
             /\ rows[r].generation = IF r \in released THEN room[r].generation + 1 ELSE room[r].generation
             /\ rows[r].status = room[r].status
             /\ \/ r \in released
                \/ rows[r].call = room[r].call
                \/ rows[r].call = "present"
  <2>1. /\ room[r] \in Row /\ room[r].generation \in 1..MaxGenerations
        /\ r \in released => room[r].generation + 1 \in 1..MaxGenerations
    BY <1>1, <1>3 DEF Row
  <2> HIDE DEF rows, released
  <2>2. CASE r \in released
    BY <1>4, <2>1, <2>2 DEF Row
  <2>3. CASE r \notin released
    BY <1>4, <2>1, <2>3 DEF Row
  <2> QED
    BY <2>2, <2>3
<1>6. rows \in [Room -> Row]
  BY <1>5 DEF Released
<1>7. /\ Delete(rows, gone, queue)
      /\ UNCHANGED <<sfuVars, requestVars, failureVars>>
      /\ poll' = NoPoll /\ missed' \subseteq missed
  BY DEF PollApplies
<1>8. queue \in SUBSET Name
  <2>1. \A r \in Room : RoomName(r) \in Name
    BY <1>1 DEF RoomName, Name, Row
  <2>2. released \subseteq Room
    BY <1>2
  <2> HIDE DEF released
  <2> QED
    BY <1>1, <2>1, <2>2
<1>9. \A r \in Room :
        /\ room[r].lease # "live" => room[r].status = "open"
        /\ room[r].due => room[r].status = "draft"
        /\ room[r].status = "unused" => room[r].call = "none"
  BY DEF IInv, GuestTypeOK, UnusedIsBlank
<1>10. \A r \in Room :
         /\ rows[r].status = room[r].status /\ rows[r].due = room[r].due
         /\ rows[r].lease \in {room[r].lease, "live"}
         /\ rows[r].call \in {room[r].call, "idle", "present"}
         /\ rows[r].call = "lapsed" => rows[r].generation = room[r].generation
         /\ room[r].status \in {"unused", "gone"} => rows[r] = room[r]
  BY <1>1, <1>2, <1>4 DEF Row, Stored, Confirmable
<1>11. \A r \in Room \ gone :
         /\ rows[r].lease # "live" => rows[r].status = "open"
         /\ rows[r].due => rows[r].status = "draft"
         /\ rows[r].lease = "over" /\ rows[r].call \notin {"none", "idle"} => r \in missed'
         /\ rows[r].call = "lapsed" => rows[r].generation < MaxGenerations
         /\ rows[r].status = "unused" => rows[r].call = "none"
  <2> SUFFICES ASSUME NEW r \in Room \ gone
               PROVE  /\ rows[r].lease # "live" => rows[r].status = "open"
                      /\ rows[r].due => rows[r].status = "draft"
                      /\ rows[r].lease = "over" /\ rows[r].call \notin {"none", "idle"} => r \in missed'
                      /\ rows[r].call = "lapsed" => rows[r].generation < MaxGenerations
                      /\ rows[r].status = "unused" => rows[r].call = "none"
    OBVIOUS
  <2>1. rows[r].lease # "over"
    BY <1>9, <1>10 DEF Expired, Stored
  <2>2. rows[r].call = "lapsed" => room[r].call = "lapsed"
    BY <1>10
  <2> HIDE DEF rows, gone
  <2> QED
    BY <1>1, <1>9, <1>10, <2>1, <2>2
<1>12. ASSUME NEW n \in Name, HandedOut(n)
       PROVE  \/ n[2] < rows[n[1]].generation
              \/ /\ n[2] = rows[n[1]].generation
                 /\ \/ rows[n[1]].status = "gone"
                    \/ rows[n[1]].call \in {"reserved", "present", "lapsed"}
  <2>1. n[1] \in Room /\ n[2] \in Nat
    BY <1>1 DEF Name
  <2>2. room[n[1]].generation \in Nat
    BY <1>1, <2>1 DEF Row
  <2> HIDE DEF rows, released
  <2>3. CASE n[1] \in released
    BY <1>5, <1>12, <2>1, <2>2, <2>3 DEF HandedOut
  <2>4. CASE n[1] \notin released
    BY <1>5, <1>12, <2>1, <2>2, <2>4 DEF HandedOut
  <2> QED
    BY <2>3, <2>4
<1>13. ASSUME NEW n \in queue
       PROVE  \/ n[2] < rows[n[1]].generation
              \/ n[2] = rows[n[1]].generation /\ rows[n[1]].status = "gone"
  <2>1. CASE n \in revoking
    <3>1. n[1] \in Room /\ n[2] \in Nat /\ room[n[1]] \in Row
      BY <1>1, <2>1 DEF Name
    <3>2. n[2] < room[n[1]].generation \/ (n[2] = room[n[1]].generation /\ room[n[1]].status = "gone")
      BY <2>1 DEF IInv, RevokedIsOver
    <3> HIDE DEF rows, released
    <3> QED
      BY <1>3, <1>5, <1>10, <3>1, <3>2 DEF Row
  <2>2. ASSUME NEW r \in released, n = RoomName(r)
        PROVE  n[2] < rows[n[1]].generation
    <3>1. r \in Room /\ room[r] \in Row /\ n = <<r, room[r].generation>>
      BY <1>1, <1>2, <2>2 DEF RoomName
    <3>2. rows[r].generation = room[r].generation + 1
      BY <1>5, <2>2, <3>1
    <3> HIDE DEF rows, released
    <3> QED
      BY <3>1, <3>2 DEF Row
  <2> QED
    BY <2>1, <2>2
<1>14. NoPoll \in Poll /\ NoPoll.targets = {} /\ NoPoll.occupied = {}
  BY DEF NoPoll, Poll
<1> HIDE DEF rows, gone, queue
<1> QED
  BY <1>1, <1>2, <1>6, <1>7, <1>8, <1>11, <1>12, <1>13, <1>14, DeleteStep
-----------------------------------------------------------------------------
LEMMA Inductive == IInv /\ [Next]_vars => IInv'
<1> SUFFICES ASSUME IInv, [Next]_vars PROVE IInv'
  OBVIOUS
<1>1. ASSUME NEW r \in Room, Step(r) PROVE IInv'
  BY <1>1, CreateStep, DeadlineStep, RemovalStep DEF Step
<1>2. ASSUME NEW g \in Guest, NEW r \in Room, RequestToken(g, r) PROVE IInv'
  BY <1>2, RequestStep
<1>3. CASE \/ \E g \in Guest : Answer(g) \/ Join(g) \/ Leave(g) \/ TokenExpires(g)
           \/ \E n \in Name : EmptyRoomCloses(n) \/ Revoke(n)
  BY <1>3, SfuStep
<1>4. CASE PollStarts \/ SfuAnswers \/ PollFails \/ Restart
  BY <1>4, PollStep
<1>5. CASE PollApplies
  BY <1>5, PollAppliesStep
<1>6. CASE CleanUp
  BY <1>6, RemovalStep
<1>7. CASE UNCHANGED vars
  BY <1>7, RowsKeptStep DEF vars, IInv, GuestTypeOK, NamesAreHandedOut, TargetsAreCurrent
<1> QED
  BY <1>1, <1>2, <1>3, <1>4, <1>5, <1>6, <1>7 DEF Next

LEMMA Invariance == Spec => []IInv
  BY InitIInv, Inductive, PTL DEF Spec

(* Every reachable state is well typed, for every set of rooms and guests. *)
THEOREM GuestRoomsTypeOK == Spec => []GuestTypeOK
<1>1. IInv => GuestTypeOK
  BY DEF IInv
<1> QED
  BY Invariance, <1>1, PTL

(* The name the next token will be for is never queued for deletion, and no   *)
(* room of the SFU carries it while its call holds no slot.                   *)
THEOREM DeletionsSpareNewCalls == Spec => []NewCallIsSpared
<1>1. IInv => NewCallIsSpared
  <2> SUFFICES ASSUME IInv, NEW r \in Stored
               PROVE  /\ RoomName(r) \notin revoking
                      /\ room[r].call = "idle" => RoomName(r) \notin sfu
    BY DEF NewCallIsSpared
  <2>1. /\ room[r].status \in {"draft", "open"} /\ room[r].generation \in Nat
        /\ RoomName(r)[1] = r /\ RoomName(r)[2] = room[r].generation
    BY DEF IInv, GuestTypeOK, Stored, Row, RoomName
  <2>2. RoomName(r) \notin revoking
    BY <2>1 DEF IInv, RevokedIsOver
  <2>3. room[r].call = "idle" => RoomName(r) \notin sfu
    BY <2>1 DEF IInv, NamesAreHandedOut, HandedOut
  <2> QED
    BY <2>2, <2>3
<1> QED
  BY Invariance, <1>1, PTL
-----------------------------------------------------------------------------
(* Somebody in a room means that its call holds a slot, so its lease is over  *)
(* only after a lost poll.                                                   *)
LEMMA OccupiedHoldsSlot ==
  ASSUME IInv, NEW r \in Room, room[r].status = "open", People(RoomName(r)) # {}
  PROVE  /\ room[r].call \in {"reserved", "present", "lapsed"} /\ ~room[r].due
         /\ room[r].lease = "over" => r \in missed
<1>1. RoomName(r) \in Name /\ RoomName(r) = <<r, room[r].generation>>
  BY DEF IInv, GuestTypeOK, RoomName, Name, Row
<1>2. RoomName(r) \in sfu
  BY <1>1, GuestRoomsAssumption DEF IInv, GuestTypeOK, People, Name
<1>3. room[r].generation \in Nat
  BY <1>1 DEF Name
<1>4. room[r].call \in {"reserved", "present", "lapsed"}
  BY <1>1, <1>2, <1>3 DEF IInv, NamesAreHandedOut, HandedOut
<1> QED
  BY <1>4 DEF IInv, GuestTypeOK, OverIsMissed

(* A guest room is not deleted under the people in its call, unless a poll    *)
(* found the call empty or a poll of its late minutes was lost.              *)
THEOREM OccupiedRoomsAreKept == Spec => OccupiedRoomIsKept
<1> DEFINE Spared(r) ==
      \/ r \in missed
      \/ poll.phase = "answered" /\ RoomName(r) \in poll.targets \ poll.occupied
<1>1. ASSUME IInv, [Next]_vars, NEW r \in Room,
             room[r].status = "open", room'[r].status = "gone", People(RoomName(r)) # {}
      PROVE  Spared(r)
  <2>1. /\ room[r].call \in {"reserved", "present", "lapsed"} /\ ~room[r].due
        /\ room[r].lease = "over" => r \in missed
        /\ room \in [Room -> Row]
    BY <1>1, OccupiedHoldsSlot DEF IInv, GuestTypeOK
  <2>2. CASE r \in Expired(room, {})
    BY <2>1, <2>2 DEF Expired
  <2>3. CASE PollApplies
    <3> DEFINE occupied == {n[1] : n \in poll.occupied}
               empty == {n[1] : n \in poll.targets} \ occupied
               renewed == Renewed(room, occupied)
               released == Releasable(renewed, empty)
               rows == Released(renewed, released)
    <3>1. Delete(rows, Expired(rows, empty), revoking \cup {RoomName(q) : q \in released})
      BY <2>3 DEF PollApplies
    <3>2. /\ rows[r].status = "open" /\ rows[r].due = room[r].due
          /\ rows[r].lease \in {room[r].lease, "live"} /\ rows[r].call # "none"
      BY <1>1, <2>1 DEF Released, Renewed, Row
    <3>3. r \in Expired(rows, empty)
      <4> HIDE DEF rows, empty, released
      <4> QED
        BY <1>1, <3>1, <3>2 DEF Delete
    <3>4. room[r].lease = "over" \/ r \in empty
      BY <2>1, <3>2, <3>3 DEF Expired
    <3>5. ASSUME r \in empty PROVE RoomName(r) \in poll.targets \ poll.occupied
      <4>1. PICK n \in poll.targets : n[1] = r
        BY <3>5
      <4>2. n \in Name /\ n \notin poll.occupied /\ n[2] = room[r].generation
        BY <1>1, <3>5, <4>1 DEF IInv, GuestTypeOK, Poll, TargetsAreCurrent
      <4> QED
        BY <4>1, <4>2 DEF Name, RoomName
    <3> QED
      BY <2>1, <2>3, <3>4, <3>5 DEF PollApplies
  <2>4. CASE CleanUp
    BY <1>1, <2>2, <2>4 DEF CleanUp, Delete
  <2>5. ASSUME NEW q \in Room, Step(q)
        PROVE  Spared(r)
    <3>1. ASSUME NEW status, NEW call, Create(q, status, call)
          PROVE  Spared(r)
      <4> DEFINE rows == [room EXCEPT ![q] = [@ EXCEPT !.status = status, !.call = call]]
      <4>1. Delete(rows, Expired(room, {}), revoking) /\ room[q].status = "unused"
        BY <3>1 DEF Create
      <4>2. rows[r] = room[r]
        BY <1>1, <2>1, <4>1
      <4> HIDE DEF rows
      <4> QED
        BY <1>1, <2>2, <4>1, <4>2 DEF Delete
    <3>2. CASE CancelDraft(q)
      BY <1>1, <3>2 DEF CancelDraft, Delete
    <3>3. CASE FinalizeDraft(q) \/ EnsureCall(q) \/ DraftFallsDue(q) \/ LeaseEnds(q)
                 \/ CallLapses(q) \/ LateMinutesEnd(q)
      <4>1. room'[r].status \in {room[r].status, "open"}
        BY <2>1, <3>3
           DEF FinalizeDraft, EnsureCall, DraftFallsDue, LeaseEnds, CallLapses, LateMinutesEnd, Row
      <4> QED
        BY <1>1, <4>1
    <3> QED
      BY <2>5, <3>1, <3>2, <3>3 DEF Step
  <2>6. ASSUME NEW g \in Guest, NEW q \in Room, RequestToken(g, q)
        PROVE  Spared(r)
    <3>1. room'[r].status = room[r].status
      BY <2>1, <2>6 DEF RequestToken, Row
    <3> QED
      BY <1>1, <3>1
  <2>7. CASE \/ \E g \in Guest : Answer(g) \/ Join(g) \/ Leave(g) \/ TokenExpires(g)
             \/ \E n \in Name : EmptyRoomCloses(n) \/ Revoke(n)
    <3>1. room' = room
      BY <2>7 DEF Answer, CreateRoom, CreateRoomFails, CheckAndIssue, DeleteAgain,
                  DeleteAgainFails, Join, Leave, TokenExpires, EmptyRoomCloses, Revoke
    <3> QED
      BY <1>1, <3>1
  <2>8. CASE PollStarts \/ SfuAnswers \/ PollFails \/ Restart \/ UNCHANGED vars
    <3>1. room' = room
      BY <2>8 DEF PollStarts, SfuAnswers, PollFails, Restart, vars
    <3> QED
      BY <1>1, <3>1
  <2> HIDE DEF Spared
  <2> QED
    BY <1>1, <2>3, <2>4, <2>5, <2>6, <2>7, <2>8 DEF Next
<1>2. IInv /\ [Next]_vars =>
        [\A r \in Room :
           /\ room[r].status = "open" /\ room'[r].status = "gone"
           /\ People(RoomName(r)) # {}
           => \/ r \in missed
              \/ poll.phase = "answered" /\ RoomName(r) \in poll.targets \ poll.occupied]_vars
  BY <1>1
<1> QED
  BY Invariance, <1>2, PTL DEF Spec, OccupiedRoomIsKept
-----------------------------------------------------------------------------
(* Names of SFU rooms that somebody is still to delete or has given up on: in *)
(* the queue, in a request's hands, or in the log of a failed call.          *)
InHand ==
  revoking \cup unsure \cup {request[g].name : g \in {h \in Guest : request[h].phase # "none"}}

(* The room of a deleted guest room's call is always in somebody's hands: the *)
(* state in which CallEndsWithRoom could fail for good does not arise.        *)
GoneCallIsPursued ==
  \A r \in Room : room[r].status = "gone" /\ RoomName(r) \in sfu => RoomName(r) \in InHand

(* A step that deletes no room may add rooms to the SFU that are in hand, and *)
(* may let go of what is not in the SFU.                                     *)
LEMMA PursuedWithoutDelete ==
  ASSUME GoneCallIsPursued,
         \A r \in Room : room'[r].status = "gone" =>
            room[r].status = "gone" /\ room'[r].generation = room[r].generation,
         \A n \in sfu' : room[n[1]].status = "gone" =>
            (n \in sfu /\ (n \in InHand => n \in InHand')) \/ n \in InHand'
  PROVE  GoneCallIsPursued'
<1> SUFFICES ASSUME NEW r \in Room, room'[r].status = "gone", RoomName(r)' \in sfu'
             PROVE  RoomName(r)' \in InHand'
  BY DEF GoneCallIsPursued
<1>1. room[r].status = "gone" /\ RoomName(r)' = RoomName(r) /\ RoomName(r)[1] = r
  BY DEF RoomName
<1> QED
  BY <1>1 DEF GoneCallIsPursued

(* deleteRoomContent queues the name, unless the call has never had one.     *)
LEMMA PursuedByDelete ==
  ASSUME IInv, GoneCallIsPursued, NEW rows \in [Room -> Row], NEW gone \in SUBSET Stored, NEW queue,
         Delete(rows, gone, queue), revoking \subseteq queue,
         UNCHANGED <<sfu, request, unsure>>,
         \A r \in Room : rows[r].status = "gone" => rows[r] = room[r],
         \A r \in gone : rows[r].call = "none" => rows[r] = room[r]
  PROVE  GoneCallIsPursued'
<1> SUFFICES ASSUME NEW r \in Room, room'[r].status = "gone", RoomName(r)' \in sfu'
             PROVE  RoomName(r)' \in InHand'
  BY DEF GoneCallIsPursued
<1>1. room'[r] = IF r \in gone THEN NoRow("gone", rows[r].generation) ELSE rows[r]
  BY DEF Delete
<1>2. RoomName(r)' = <<r, rows[r].generation>>
  BY <1>1 DEF RoomName, NoRow
<1>3. InHand \subseteq InHand'
  BY DEF InHand, Delete
<1>4. CASE r \notin gone
  <2>1. rows[r] = room[r] /\ room[r].status = "gone" /\ RoomName(r)' = RoomName(r)
    BY <1>1, <1>2, <1>4 DEF RoomName
  <2> QED
    BY <1>3, <2>1 DEF GoneCallIsPursued
<1>5. CASE r \in gone /\ rows[r].call # "none"
  BY <1>2, <1>5 DEF Delete, InHand
<1>6. CASE r \in gone /\ rows[r].call = "none"
  <2>1. /\ RoomName(r)' \in sfu /\ RoomName(r)' = <<r, room[r].generation>>
        /\ room[r].call = "none" /\ room[r].status # "gone" /\ room[r].generation \in Nat
    BY <1>2, <1>6 DEF Stored, IInv, GuestTypeOK, Row
  <2> QED
    BY <2>1 DEF IInv, NamesAreHandedOut, HandedOut
<1> QED
  BY <1>4, <1>5, <1>6

(* Requests recreate rooms only while they hold the name, and let go of a     *)
(* deleted room's name only after deleting it or with a line in the log.      *)
LEMMA PursuedByRequest ==
  ASSUME IInv, GoneCallIsPursued, NEW g \in Guest, Answer(g)
  PROVE  GoneCallIsPursued'
<1>1. /\ room' = room /\ revoking' = revoking
      /\ request \in [Guest -> Request]
      /\ \A h \in Guest \ {g} : request'[h] = request[h]
  BY DEF IInv, GuestTypeOK, Answer, CreateRoom, CreateRoomFails, CheckAndIssue, DeleteAgain,
         DeleteAgainFails
<1>2. \A n \in InHand : n \in InHand' \/ n = request[g].name
  BY <1>1 DEF InHand, Answer, CreateRoom, CreateRoomFails, CheckAndIssue, DeleteAgain,
              DeleteAgainFails, Fail, failureVars
<1>3. CASE CreateRoom(g)
  <2>1. request'[g].phase = "checking" /\ request'[g].name = request[g].name
    BY <1>1, <1>3 DEF CreateRoom, Request
  <2>2. request[g].name \in InHand'
    BY <2>1 DEF InHand
  <2> QED
    BY <1>1, <1>2, <1>3, <2>2, PursuedWithoutDelete DEF CreateRoom
<1>4. CASE CreateRoomFails(g) \/ DeleteAgainFails(g)
  <2>1. request[g].name \in InHand' /\ sfu' \subseteq sfu \cup {request[g].name}
    BY <1>4 DEF InHand, CreateRoomFails, DeleteAgainFails, Fail, sfuVars
  <2> QED
    BY <1>1, <1>2, <2>1, PursuedWithoutDelete
<1>5. CASE CheckAndIssue(g)
  <2>1. CASE Active(request[g].name[1])
    <3>1. room[request[g].name[1]].status # "gone"
      BY <2>1 DEF Active, Stored
    <3> QED
      BY <1>1, <1>2, <1>5, <3>1, PursuedWithoutDelete DEF CheckAndIssue, sfuVars
  <2>2. CASE ~Active(request[g].name[1])
    <3>1. request'[g].phase = "deleting" /\ request'[g].name = request[g].name
      BY <1>1, <1>5, <2>2 DEF CheckAndIssue, Request
    <3>2. request[g].name \in InHand'
      BY <3>1 DEF InHand
    <3> QED
      BY <1>1, <1>2, <1>5, <3>2, PursuedWithoutDelete DEF CheckAndIssue, sfuVars
  <2> QED
    BY <2>1, <2>2
<1>6. CASE DeleteAgain(g)
  <2>1. sfu' = sfu \ {request[g].name}
    BY <1>6 DEF DeleteAgain, CloseRoom
  <2> QED
    BY <1>1, <1>2, <2>1, PursuedWithoutDelete
<1> QED
  BY <1>3, <1>4, <1>5, <1>6 DEF Answer

(* Changes of rows other than their deletion leave the SFU and what is in     *)
(* hand alone.                                                               *)
LEMMA PursuedByRow ==
  ASSUME IInv, GoneCallIsPursued, NEW r \in Room,
         \/ FinalizeDraft(r) \/ EnsureCall(r) \/ DraftFallsDue(r) \/ LeaseEnds(r)
         \/ CallLapses(r) \/ LateMinutesEnd(r)
         \/ \E g \in Guest : RequestToken(g, r)
  PROVE  GoneCallIsPursued'
<1>1. room \in [Room -> Row] /\ request \in [Guest -> Request]
  BY DEF IInv, GuestTypeOK
<1>2. \A q \in Room \ {r} : room'[q] = room[q]
  BY <1>1 DEF FinalizeDraft, EnsureCall, DraftFallsDue, LeaseEnds, CallLapses, LateMinutesEnd,
              RequestToken
<1>3. room'[r].status # "gone"
  BY <1>1 DEF FinalizeDraft, EnsureCall, DraftFallsDue, LeaseEnds, CallLapses, LateMinutesEnd,
              RequestToken, Active, Stored, Row
<1>4. /\ sfu' = sfu /\ revoking' = revoking /\ unsure' = unsure
      /\ \/ request' = request
         \/ \E g \in Guest : request[g] = NoRequest /\ \A h \in Guest \ {g} : request'[h] = request[h]
  BY <1>1 DEF FinalizeDraft, EnsureCall, DraftFallsDue, LeaseEnds, CallLapses, LateMinutesEnd,
              RequestToken, sfuVars, requestVars, failureVars
<1>5. InHand \subseteq InHand'
  BY <1>4 DEF InHand, NoRequest
<1> QED
  BY <1>2, <1>3, <1>4, <1>5, PursuedWithoutDelete

(* A poll that is applied rotates only the names of lapsed slots, queues the  *)
(* old ones, and deletes rows as cleanupExpired does.                         *)
LEMMA PollAppliesPursued ==
  ASSUME IInv, GoneCallIsPursued, PollApplies
  PROVE  GoneCallIsPursued'
<1> DEFINE occupied == {n[1] : n \in poll.occupied}
           empty == {n[1] : n \in poll.targets} \ occupied
           renewed == Renewed(room, occupied)
           released == Releasable(renewed, empty)
           rows == Released(renewed, released)
           gone == Expired(rows, empty)
           queue == revoking \cup {RoomName(r) : r \in released}
<1>1. /\ room \in [Room -> Row] /\ MaxGenerations \in Nat
      /\ \A r \in Room : room[r].call = "lapsed" => room[r].generation < MaxGenerations
  BY GuestRoomsAssumption DEF IInv, GuestTypeOK, LapsedCanRotate
<1>2. /\ Delete(rows, gone, queue) /\ gone \in SUBSET Stored /\ revoking \subseteq queue
      /\ UNCHANGED <<sfu, request, unsure>>
  BY DEF PollApplies, Expired, sfuVars, requestVars, failureVars
<1>3. ASSUME NEW r \in Room
      PROVE  /\ rows[r] \in Row
             /\ rows[r].status = "gone" \/ rows[r].call = "none" => rows[r] = room[r]
  <2>1. \/ /\ r \in Stored /\ room[r].call = "lapsed"
           /\ rows[r] = [room[r] EXCEPT !.call = "idle", !.generation = @ + 1]
        \/ /\ r \in Stored
           /\ rows[r] = [room[r] EXCEPT !.lease = "live", !.call = "present"]
        \/ rows[r] = room[r]
    <3>1. \/ renewed[r] = room[r]
          \/ r \in Stored /\ renewed[r] = [room[r] EXCEPT !.lease = "live", !.call = "present"]
      BY DEF Renewed, Confirmable
    <3>2. r \in released => r \in Stored /\ renewed[r].call = "lapsed"
      BY DEF Releasable
    <3>3. room[r] \in Row
      BY <1>1
    <3>4. rows[r] = IF r \in released THEN [renewed[r] EXCEPT !.call = "idle", !.generation = @ + 1]
                    ELSE renewed[r]
      BY DEF Released
    <3> HIDE DEF rows, released, renewed
    <3> QED
      BY <3>1, <3>2, <3>3, <3>4 DEF Row
  <2>2. room[r] \in Row /\ (room[r].call = "lapsed" => room[r].generation + 1 \in 1..MaxGenerations)
    BY <1>1 DEF Row
  <2> HIDE DEF rows
  <2> QED
    BY <2>1, <2>2 DEF Row, Stored
<1>4. rows \in [Room -> Row]
  BY <1>3 DEF Released
<1> HIDE DEF rows, gone, queue
<1> QED
  BY <1>2, <1>3, <1>4, PursuedByDelete DEF Stored

(* The call of a deleted room is closed, or queued for it, or held by a       *)
(* request that has yet to find the room gone, or lost with a failed call to  *)
(* the SFU: no interleaving of requests, polls, deletions and restarts leaves *)
(* a room in the SFU that nobody will delete (deleteRoomContent, POST         *)
(* call-token, processLiveKitRoomRevocations). With the fairness of FairSpec  *)
(* this is why the call ends.                                                *)
THEOREM GoneCallsArePursued == Spec => []GoneCallIsPursued
<1>1. Init => GoneCallIsPursued
  BY DEF Init, GoneCallIsPursued
<1>2. ASSUME IInv, GoneCallIsPursued, [Next]_vars PROVE GoneCallIsPursued'
  <2>0. room \in [Room -> Row]
    BY <1>2 DEF IInv, GuestTypeOK
  <2>1. ASSUME NEW r \in Room, Step(r) PROVE GoneCallIsPursued'
    <3>1. ASSUME NEW status \in {"draft", "open"}, NEW call \in {"none", "idle"}, Create(r, status, call)
          PROVE  GoneCallIsPursued'
      <4> DEFINE rows == [room EXCEPT ![r] = [@ EXCEPT !.status = status, !.call = call]]
      <4>1. /\ rows \in [Room -> Row]
            /\ \A q \in Room \ {r} : rows[q] = room[q]
            /\ rows[r].status # "gone"
        BY <2>0 DEF Row
      <4>2. /\ Delete(rows, Expired(room, {}), revoking) /\ room[r].status = "unused"
            /\ UNCHANGED <<sfu, request, unsure>>
        BY <3>1 DEF Create, sfuVars, requestVars, failureVars
      <4>3. Expired(room, {}) \in SUBSET Stored /\ r \notin Stored
        BY <4>2 DEF Expired, Stored
      <4> HIDE DEF rows
      <4>4. \A q \in Expired(room, {}) : rows[q] = room[q]
        BY <4>1, <4>3 DEF Stored
      <4> QED
        BY <1>2, <4>1, <4>2, <4>3, <4>4, PursuedByDelete
    <3>2. CASE CancelDraft(r)
      <4>1. /\ Delete(room, {r}, revoking) /\ {r} \in SUBSET Stored
            /\ UNCHANGED <<sfu, request, unsure>>
        BY <3>2 DEF CancelDraft, Active, sfuVars, requestVars, failureVars
      <4> QED
        BY <1>2, <2>0, <4>1, PursuedByDelete
    <3> QED
      BY <1>2, <2>1, <3>1, <3>2, PursuedByRow DEF Step
  <2>2. ASSUME NEW g \in Guest, NEW r \in Room, RequestToken(g, r) PROVE GoneCallIsPursued'
    BY <1>2, <2>2, PursuedByRow
  <2>3. ASSUME NEW g \in Guest, Answer(g) PROVE GoneCallIsPursued'
    BY <1>2, <2>3, PursuedByRequest
  <2>4. CASE \/ \E g \in Guest : Join(g) \/ Leave(g) \/ TokenExpires(g)
             \/ \E n \in Name : EmptyRoomCloses(n) \/ Revoke(n)
             \/ PollStarts \/ SfuAnswers \/ PollFails \/ Restart \/ UNCHANGED vars
    <3>1. room' = room /\ sfu' \subseteq sfu
      BY <2>4 DEF Join, Leave, TokenExpires, EmptyRoomCloses, Revoke, CloseRoom, PollStarts,
                  SfuAnswers, PollFails, Restart, vars, sfuVars
    <3>2. \A n \in InHand \cap sfu' : n \in InHand'
      BY <2>4 DEF InHand, Join, Leave, TokenExpires, EmptyRoomCloses, Revoke, CloseRoom,
                  PollStarts, SfuAnswers, PollFails, Restart, Fail, vars, requestVars, failureVars
    <3> QED
      BY <1>2, <3>1, <3>2, PursuedWithoutDelete
  <2>5. CASE CleanUp
    <3>1. /\ Delete(room, Expired(room, {}), revoking) /\ Expired(room, {}) \in SUBSET Stored
          /\ UNCHANGED <<sfu, request, unsure>>
      BY <2>5 DEF CleanUp, Expired, sfuVars, requestVars, failureVars
    <3> QED
      BY <1>2, <2>0, <3>1, PursuedByDelete
  <2>6. CASE PollApplies
    BY <1>2, <2>6, PollAppliesPursued
  <2> QED
    BY <1>2, <2>1, <2>2, <2>3, <2>4, <2>5, <2>6 DEF Next
<1> QED
  BY <1>1, <1>2, Invariance, PTL DEF Spec
=============================================================================
