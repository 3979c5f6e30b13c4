---------------------------- MODULE GuestRooms ----------------------------
(* Anonymous guest rooms and their calls: the leases of                     *)
(* server/guestRooms.ts, the call-token handler of routes/guestRooms.ts, the *)
(* presence poll of server/livekit.ts, the maintenance passes of app.ts and  *)
(* the outbox of server/livekit-revocation.ts, against a media server (SFU)  *)
(* that creates a room only when it is asked to.                             *)
(*                                                                           *)
(* Time is abstracted to the order of the deadlines the code compares:       *)
(*   a room's lease     48 h    live, late (the 2 min in which presence is   *)
(*                              still confirmed), over                       *)
(*   a draft            1 h     due                                          *)
(*   a call's slot      15 min  reserved by a token request, present when    *)
(*                              the last poll saw somebody, lapsed           *)
(*   a request to the SFU 5 s, a presence poll every 60 s, a token 15 min.   *)
(* The guards of the actions that end a period say which of them is longer.  *)
EXTENDS Naturals, FiniteSets

CONSTANTS
  Room,           \* guest rooms
  Guest,          \* people who ask for tokens and join calls
  MaxRooms,       \* capacityLimits.maxActiveRooms
  MaxCalls,       \* capacityLimits.maxActiveCallResources
  MaxGenerations, \* bound: a call's room name is rotated less often than this
  MaxFailures,    \* bound on failed calls to the SFU and restarts
  None            \* nothing held

ASSUME GuestRoomsAssumption ==
  /\ IsFiniteSet(Room) /\ IsFiniteSet(Guest)
  /\ MaxRooms \in Nat /\ MaxCalls \in Nat /\ MaxGenerations \in Nat \ {0}
  /\ MaxFailures \in Nat
  /\ None \notin Room \X (1..MaxGenerations)

VARIABLES
  room,      \* guest_rooms with their call resource
  revoking,  \* livekit_room_revocation_outbox
  sfu,       \* rooms that exist in the SFU
  at,        \* where each guest is connected
  token,     \* the join token each guest holds
  request,   \* each guest's POST call-token
  poll,      \* pollGuestCallPresence
  missed,    \* rooms in their late minutes that lost a poll begun in them
  unsure,    \* SFU rooms left by a failed call or a lost request; logged only
  failures   \* failed calls to the SFU and restarts so far

vars == <<room, revoking, sfu, at, token, request, poll, missed, unsure, failures>>
sfuVars == <<sfu, at>>
requestVars == <<token, request>>
pollVars == <<poll, missed>>
failureVars == <<unsure, failures>>

Name == Room \X (1..MaxGenerations)
Row ==
  [status : {"unused", "draft", "open", "gone"}, lease : {"live", "late", "over"}, due : BOOLEAN,
   call : {"none", "idle", "reserved", "present", "lapsed"}, generation : 1..MaxGenerations]
Request == [phase : {"none", "creating", "checking", "deleting"}, name : Name \cup {None}, fresh : BOOLEAN]
Poll == [phase : {"none", "asked", "answered"}, targets : SUBSET Name, occupied : SUBSET Name, late : SUBSET Room]

NoRequest == [phase |-> "none", name |-> None, fresh |-> FALSE]
NoRow(status, generation) ==
  [status |-> status, lease |-> "live", due |-> FALSE, call |-> "none", generation |-> generation]
NoPoll == [phase |-> "none", targets |-> {}, occupied |-> {}, late |-> {}]

Init ==
  /\ room = [r \in Room |-> NoRow("unused", 1)]
  /\ revoking = {} /\ sfu = {}
  /\ at = [g \in Guest |-> None]
  /\ token = [g \in Guest |-> None]
  /\ request = [g \in Guest |-> NoRequest]
  /\ poll = NoPoll
  /\ missed = {} /\ unsure = {} /\ failures = 0
-----------------------------------------------------------------------------
(* guestCallRoomName: a room and the generation of its call. *)
RoomName(r) == <<r, room[r].generation>>

People(n) == {g \in Guest : at[g] = n}

(* The rows that exist. *)
Stored == {r \in Room : room[r].status \in {"draft", "open"}}

(* A row that is neither past its lease nor a draft past its hour. *)
Active(r) == r \in Stored /\ room[r].lease = "live" /\ ~room[r].due

(* As Active, but counting the two minutes after the lease. *)
Confirmable(r) == r \in Stored /\ room[r].lease # "over" /\ ~room[r].due

(* What assertCallCapacity counts: slots that have not lapsed. *)
LeasedCalls == {r \in Room : Confirmable(r) /\ room[r].call \in {"reserved", "present"}}

(* Rooms cleanupExpired deletes from `rows`; a late room with a call only if  *)
(* the poll has found its call empty.                                        *)
Expired(rows, empty) ==
  {r \in Stored :
     \/ rows[r].due
     \/ rows[r].lease = "over"
     \/ rows[r].lease = "late" /\ (rows[r].call = "none" \/ r \in empty)}

(* A bug: the rows go without the call's room being queued. *)
DeleteUnqueued(rows, gone, queue) ==
  /\ room' = [r \in Room |-> IF r \in gone THEN NoRow("gone", rows[r].generation)
                                           ELSE rows[r]]
  /\ revoking' = queue

(* deleteRoomContent: the rows go, and in the same transaction the call's     *)
(* room is queued for deletion.                                              *)
Delete(rows, gone, queue) ==
  /\ room' = [r \in Room |-> IF r \in gone THEN NoRow("gone", rows[r].generation)
                                           ELSE rows[r]]
  /\ revoking' = queue \cup {<<r, rows[r].generation>> : r \in {q \in gone : rows[q].call # "none"}}

(* A call to the SFU fails or the process dies, and nothing but the log knows *)
(* what became of these rooms.                                               *)
Fail(names) ==
  /\ failures < MaxFailures
  /\ failures' = failures + 1
  /\ unsure' = unsure \cup names
-----------------------------------------------------------------------------
(* POST / and POST with draft: createInternal cleans up first. *)
Create(r, status, call) ==
  /\ room[r].status = "unused"
  /\ Cardinality({q \in Room : Active(q)}) < MaxRooms
  /\ Delete([room EXCEPT ![r] = [@ EXCEPT !.status = status, !.call = call]],
            Expired(room, {}), revoking)
  /\ UNCHANGED <<sfuVars, requestVars, pollVars, failureVars>>

(* A bug: a draft is finalized without another look at its hour. *)
FinalizeStale(r) ==
  /\ room[r].status = "draft"
  /\ room' = [room EXCEPT ![r].status = "open"]
  /\ UNCHANGED <<revoking, sfuVars, requestVars, pollVars, failureVars>>

FinalizeDraft(r) ==
  /\ Active(r) /\ room[r].status = "draft"
  /\ room' = [room EXCEPT ![r].status = "open"]
  /\ UNCHANGED <<revoking, sfuVars, requestVars, pollVars, failureVars>>

CancelDraft(r) ==
  /\ Active(r) /\ room[r].status = "draft"
  /\ Delete(room, {r}, revoking)
  /\ UNCHANGED <<sfuVars, requestVars, pollVars, failureVars>>

(* PUT resources/call: a logical call that holds no slot yet. *)
EnsureCall(r) ==
  /\ Active(r) /\ room[r].call = "none"
  /\ room' = [room EXCEPT ![r].call = "idle"]
  /\ UNCHANGED <<revoking, sfuVars, requestVars, pollVars, failureVars>>

(* cleanupExpired without an answer from the SFU: the maintenance pass, and   *)
(* every request that looks up an expired room.                              *)
CleanUp ==
  /\ Expired(room, {}) # {}
  /\ Delete(room, Expired(room, {}), revoking)
  /\ UNCHANGED <<sfuVars, requestVars, pollVars, failureVars>>
-----------------------------------------------------------------------------
(* Deadlines. A call the last poll saw occupied was renewed together with the *)
(* room, so its slot lapses long before the room's lease ends; no request     *)
(* outlives the two minutes, none that reserved a slot outlives the slot, and *)
(* a poll begun in the two minutes ends in them.                              *)
Pending(r) == {g \in Guest : request[g].phase # "none" /\ request[g].name[1] = r}

DraftFallsDue(r) ==
  /\ room[r].status = "draft" /\ ~room[r].due
  /\ room' = [room EXCEPT ![r].due = TRUE]
  /\ UNCHANGED <<revoking, sfuVars, requestVars, pollVars, failureVars>>

LeaseEnds(r) ==
  /\ room[r].status = "open" /\ room[r].lease = "live" /\ room[r].call # "present"
  /\ room' = [room EXCEPT ![r].lease = "late"]
  /\ UNCHANGED <<revoking, sfuVars, requestVars, pollVars, failureVars>>

CallLapses(r) ==
  /\ r \in Stored /\ room[r].call \in {"reserved", "present"}
  /\ room[r].generation < MaxGenerations
  /\ \A g \in Pending(r) : ~request[g].fresh
  /\ room' = [room EXCEPT ![r].call = "lapsed"]
  /\ UNCHANGED <<revoking, sfuVars, requestVars, pollVars, failureVars>>

(* A bug: the poll asks no more after a room whose lease has ended. *)
TargetsWithoutGrace ==
  {RoomName(r) : r \in {q \in Room : Active(q) /\ room[q].call \notin {"none", "idle"}}}

(* listCallPresenceTargets *)
PresenceTargets ==
  {RoomName(r) : r \in {q \in Room : Confirmable(q) /\ room[q].call \notin {"none", "idle"}}}

LateMinutesEnd(r) ==
  /\ room[r].status = "open" /\ room[r].lease = "late"
  /\ Pending(r) = {}
  /\ RoomName(r) \in PresenceTargets => r \in missed
  /\ room' = [room EXCEPT ![r].lease = "over"]
  /\ UNCHANGED <<revoking, sfuVars, requestVars, pollVars, failureVars>>
-----------------------------------------------------------------------------
(* POST call-token: activateCall reserves a slot unless the call holds one,   *)
(* without renewing it; then the SFU is asked for the room.                  *)
RequestToken(g, r) ==
  /\ request[g] = NoRequest
  /\ Active(r) /\ room[r].call # "none"
  /\ LET fresh == room[r].call \in {"idle", "lapsed"}
     IN /\ fresh => Cardinality(LeasedCalls) < MaxCalls
        /\ room' = [room EXCEPT ![r].call = IF fresh THEN "reserved" ELSE @]
        /\ request' = [request EXCEPT ![g] = [phase |-> "creating", name |-> RoomName(r), fresh |-> fresh]]
  /\ UNCHANGED <<revoking, sfuVars, token, pollVars, failureVars>>

CreateRoom(g) ==
  /\ request[g].phase = "creating"
  /\ sfu' = sfu \cup {request[g].name}
  /\ request' = [request EXCEPT ![g].phase = "checking"]
  /\ UNCHANGED <<room, revoking, at, token, pollVars, failureVars>>

(* The RPC fails, with or without having created the room; the reservation   *)
(* stays.                                                                    *)
CreateRoomFails(g) ==
  /\ request[g].phase = "creating"
  /\ sfu' \in {sfu, sfu \cup {request[g].name}}
  /\ Fail({request[g].name})
  /\ request' = [request EXCEPT ![g] = NoRequest]
  /\ UNCHANGED <<room, revoking, at, token, pollVars>>

(* isResourceActive, then the token; otherwise the room is deleted again.     *)
CheckAndIssue(g) ==
  /\ request[g].phase = "checking"
  /\ IF Active(request[g].name[1])
     THEN /\ token' = [token EXCEPT ![g] = request[g].name]
          /\ request' = [request EXCEPT ![g] = NoRequest]
     ELSE /\ request' = [request EXCEPT ![g].phase = "deleting"]
          /\ UNCHANGED token
  /\ UNCHANGED <<room, revoking, sfuVars, pollVars, failureVars>>

(* DeleteRoom in the SFU disconnects everybody. *)
CloseRoom(n) ==
  /\ sfu' = sfu \ {n}
  /\ at' = [g \in Guest |-> IF at[g] = n THEN None ELSE at[g]]

DeleteAgain(g) ==
  /\ request[g].phase = "deleting"
  /\ CloseRoom(request[g].name)
  /\ request' = [request EXCEPT ![g] = NoRequest]
  /\ UNCHANGED <<room, revoking, token, pollVars, failureVars>>

DeleteAgainFails(g) ==
  /\ request[g].phase = "deleting"
  /\ Fail({request[g].name})
  /\ request' = [request EXCEPT ![g] = NoRequest]
  /\ UNCHANGED <<room, revoking, sfuVars, token, pollVars>>
-----------------------------------------------------------------------------
(* The SFU: two participants to a room, no room without createRoom, and an    *)
(* empty one is closed.                                                      *)
Join(g) ==
  /\ at[g] = None /\ token[g] \in sfu
  /\ Cardinality(People(token[g])) < 2
  /\ at' = [at EXCEPT ![g] = token[g]]
  /\ UNCHANGED <<room, revoking, sfu, requestVars, pollVars, failureVars>>

Leave(g) ==
  /\ at[g] # None
  /\ at' = [at EXCEPT ![g] = None]
  /\ UNCHANGED <<room, revoking, sfu, requestVars, pollVars, failureVars>>

TokenExpires(g) ==
  /\ token[g] # None
  /\ token' = [token EXCEPT ![g] = None]
  /\ UNCHANGED <<room, revoking, sfuVars, request, pollVars, failureVars>>

EmptyRoomCloses(n) ==
  /\ n \in sfu /\ People(n) = {}
  /\ sfu' = sfu \ {n}
  /\ UNCHANGED <<room, revoking, at, requestVars, pollVars, failureVars>>
-----------------------------------------------------------------------------
PollStarts ==
  /\ poll.phase = "none" /\ PresenceTargets # {}
  /\ poll' = [NoPoll EXCEPT !.phase = "asked", !.targets = PresenceTargets,
                            !.late = {r \in Stored : room[r].lease = "late"}]
  /\ UNCHANGED <<room, revoking, sfuVars, requestVars, missed, failureVars>>

SfuAnswers ==
  /\ poll.phase = "asked"
  /\ poll' = [poll EXCEPT !.phase = "answered",
                          !.occupied = {n \in poll.targets : People(n) # {}}]
  /\ UNCHANGED <<room, revoking, sfuVars, requestVars, missed, failureVars>>

PollFails ==
  /\ poll.phase # "none"
  /\ Fail({})
  /\ poll' = NoPoll
  /\ missed' = missed \cup {r \in poll.late : room[r].lease = "late"}
  /\ UNCHANGED <<room, revoking, sfuVars, requestVars>>

(* recordCallPresence renews the room and the slot of an occupied call. *)
Renewed(rows, occupied) ==
  [r \in Room |-> IF r \in occupied /\ Confirmable(r)
                  THEN [rows[r] EXCEPT !.lease = "live", !.call = "present"]
                  ELSE rows[r]]

(* releaseExpiredCallActivations: lapsed slots found empty. *)
Releasable(rows, empty) == {r \in empty \cap Stored : rows[r].call = "lapsed"}

(* A bug: the slot is given up and the name is kept. *)
ReleasedInPlace(rows, released) ==
  [r \in Room |-> IF r \in released THEN [rows[r] EXCEPT !.call = "idle"] ELSE rows[r]]

(* The slot is given up and the next room gets another name. *)
Released(rows, released) ==
  [r \in Room |-> IF r \in released
                  THEN [rows[r] EXCEPT !.call = "idle", !.generation = @ + 1]
                  ELSE rows[r]]

(* The answer is applied: presence, then releases, then cleanup. *)
PollApplies ==
  /\ poll.phase = "answered"
  /\ LET occupied == {n[1] : n \in poll.occupied}
         empty == {n[1] : n \in poll.targets} \ occupied
         renewed == Renewed(room, occupied)
         released == Releasable(renewed, empty)
         rows == Released(renewed, released)
     IN /\ Delete(rows, Expired(rows, empty), revoking \cup {RoomName(r) : r \in released})
        /\ missed' = missed \ occupied
  /\ poll' = NoPoll
  /\ UNCHANGED <<sfuVars, requestVars, failureVars>>

(* processLiveKitRoomRevocations: the row goes when the SFU has deleted the   *)
(* room or does not know it; a failed attempt leaves it for a later one.      *)
Revoke(n) ==
  /\ n \in revoking
  /\ CloseRoom(n)
  /\ revoking' = revoking \ {n}
  /\ UNCHANGED <<room, requestVars, pollVars, failureVars>>

(* The process dies: the database stays, requests and the poll are lost, and  *)
(* the two minutes of a room may pass without a poll.                        *)
Restart ==
  /\ request' = [g \in Guest |-> NoRequest]
  /\ Fail({request[g].name : g \in {h \in Guest : request[h].phase # "none"}})
  /\ poll' = NoPoll
  /\ missed' = missed \cup {r \in Stored : room[r].lease = "late"}
  /\ UNCHANGED <<room, revoking, sfuVars, token>>
-----------------------------------------------------------------------------
Step(r) ==
  \/ \E status \in {"draft", "open"}, call \in {"none", "idle"} : Create(r, status, call)
  \/ FinalizeDraft(r) \/ CancelDraft(r) \/ EnsureCall(r)
  \/ DraftFallsDue(r) \/ LeaseEnds(r) \/ CallLapses(r) \/ LateMinutesEnd(r)

Answer(g) ==
  \/ CreateRoom(g) \/ CreateRoomFails(g) \/ CheckAndIssue(g)
  \/ DeleteAgain(g) \/ DeleteAgainFails(g)

Next ==
  \/ \E r \in Room : Step(r)
  \/ \E g \in Guest, r \in Room : RequestToken(g, r)
  \/ \E g \in Guest : Answer(g) \/ Join(g) \/ Leave(g) \/ TokenExpires(g)
  \/ \E n \in Name : EmptyRoomCloses(n) \/ Revoke(n)
  \/ PollStarts \/ SfuAnswers \/ PollFails \/ PollApplies \/ CleanUp \/ Restart

Spec == Init /\ [][Next]_vars

(* Requests and polls end within the SFU client's timeout; the revocation     *)
(* timer retries for ever, against an SFU that answers some day.             *)
FairSpec ==
  /\ Spec
  /\ \A g \in Guest : WF_request(Answer(g))
  /\ \A n \in Name : WF_revoking(Revoke(n))
-----------------------------------------------------------------------------
(* Type invariant. Beyond the types: only open rooms outlive their lease,    *)
(* only drafts fall due, nobody sits in a room the SFU does not have, and a   *)
(* request under way has a name to create.                                   *)
GuestTypeOK ==
  /\ room \in [Room -> Row]
  /\ \A r \in Room :
       /\ room[r].lease # "live" => room[r].status = "open"
       /\ room[r].due => room[r].status = "draft"
  /\ revoking \subseteq Name /\ sfu \subseteq Name /\ unsure \subseteq Name
  /\ at \in [Guest -> sfu \cup {None}]
  /\ token \in [Guest -> Name \cup {None}]
  /\ request \in [Guest -> Request]
  /\ \A g \in Guest : request[g].phase # "none" => request[g].name \in Name
  /\ poll \in Poll /\ poll.occupied \subseteq poll.targets
  /\ missed \subseteq Room /\ failures \in 0..MaxFailures

(* A late retry of a deletion cannot cut off a new call: the name the next    *)
(* token will be for is not queued for deletion, and while the call holds no  *)
(* slot a room of that name does not exist. (OPERATIONS.md:263-266)           *)
NewCallIsSpared ==
  \A r \in Stored :
    /\ RoomName(r) \notin revoking
    /\ room[r].call = "idle" => RoomName(r) \notin sfu

(* A guest room is not deleted under the people in its call, unless the poll  *)
(* found the call empty or a poll of its two late minutes was lost            *)
(* (cleanupExpired, listCallPresenceTargets).                                *)
OccupiedRoomIsKept ==
  [][\A r \in Room :
       /\ room[r].status = "open" /\ room'[r].status = "gone"
       /\ People(RoomName(r)) # {}
       => \/ r \in missed
          \/ poll.phase = "answered" /\ RoomName(r) \in poll.targets \ poll.occupied]_vars

(* The call of a deleted room ends for good, although requests for its token  *)
(* may be under way, unless a failed call to the SFU was only logged          *)
(* (deleteRoomContent, processLiveKitRoomRevocations).                       *)
CallEndsWithRoom ==
  \A r \in Room :
    <>[](room[r].status = "gone" => RoomName(r) \notin sfu \/ RoomName(r) \in unsure)
=============================================================================
