---------------------------- MODULE OfflineSync ----------------------------
(***************************************************************************)
(* The app's offline write path on one teacher's device for one class and  *)
(* day: AttendanceRepositoryImpl.bulkMark, SyncQueueStore over             *)
(* JsonFileStore, SyncEngine.drain and the replayer that the attendance    *)
(* feature registers.                                                      *)
(*                                                                         *)
(* A task is one asynchronous call in the app: a save or a drain.  Tasks   *)
(* run concurrently; an update of the queue reads the whole file and then  *)
(* writes the whole file.  A save is named by its number, and the queue    *)
(* holds numbers.  The server enters a roll call as a whole or refuses it, *)
(* which is what module Attendance is shown to do.                         *)
(***************************************************************************)
EXTENDS Naturals, Sequences, SequencesExt

CONSTANTS
  Tasks,         \* calls the app may have in progress at once
  Requests,      \* requests the server may have in progress at once
  Reopens,       \* whether the screen may be left and opened again while it saves
  MaxSaves,      \* bound: roll calls the teacher saves
  MaxOutages,    \* bound: how often the network goes away, and calls whose answer is lost
  MaxKills,      \* bound: how often the app is killed
  MaxOverlaps,   \* bound: accesses to the queue file while another task updates it
  None

ASSUME OfflineAssumption ==
  /\ MaxSaves \in Nat /\ MaxOutages \in Nat /\ MaxKills \in Nat /\ MaxOverlaps \in Nat
  /\ None \notin Requests /\ Reopens \in BOOLEAN

VARIABLES
  online,        \* whether the device has a network
  registered,    \* whether the replayer is registered
  queue,         \* sync_queue.json
  saves,         \* how many roll calls the teacher has saved
  task,          \* the app's tasks
  request,       \* the server's requests: the save each carries and what became of it
  answered,      \* the saves of which the app got an answer from the server
  inForce,       \* the save the server entered last, 0 before the first
  outages, kills, overlaps

bounds == <<outages, kills, overlaps>>
server == <<request, answered, inForce>>
vars == <<online, registered, queue, saves, task, server, bounds>>

-----------------------------------------------------------------------------
NoTask == [pc |-> "idle", save |-> 0, request |-> None, todo |-> <<>>, read |-> <<>>]
NoRequest == [state |-> "idle", save |-> 0]

Init ==
  /\ online \in BOOLEAN /\ registered = FALSE
  /\ queue = <<>> /\ saves = 0
  /\ task = [t \in Tasks |-> NoTask]
  /\ request = [h \in Requests |-> NoRequest]
  /\ answered = {} /\ inForce = 0
  /\ outages = 0 /\ kills = 0 /\ overlaps = 0

Busy(t) == task[t].pc # "idle"
Ends(t) == task' = [task EXCEPT ![t] = NoTask]

\* The task is a save, which is over when the server answers or when it is queued.
OnItsWay(t) == task[t].pc \in {"save", "saving", "enqueueRead", "enqueueWrite"}

\* A task that has read the file and not yet written it.
Updating == {t \in Tasks : task[t].pc \in {"enqueueWrite", "removeWrite"}}
Overlap(t) == Updating \ {t} # {}

\* The file as task t reads it: while another task writes it, perhaps truncated.
Content(t) == IF Overlap(t) THEN {queue, <<>>} ELSE {queue}

ReadsFile(t) ==
  /\ Overlap(t) => overlaps < MaxOverlaps
  /\ overlaps' = IF Overlap(t) THEN overlaps + 1 ELSE overlaps

\* The file after task t has written it: if two write at a time, perhaps garbled.
WritesFile(t, content) == queue' \in IF Overlap(t) THEN {content, <<>>} ELSE {content}

-----------------------------------------------------------------------------
(* The attendance screen and AttendanceRepositoryImpl.bulkMark.            *)

\* The provider of the repository registers the replayer when the screen first uses it.
OpenScreen ==
  /\ ~registered
  /\ registered' = TRUE
  /\ UNCHANGED <<online, queue, saves, task, server, bounds>>

\* The Save button is disabled while the screen saves.
Save(t) ==
  /\ registered /\ ~Busy(t) /\ saves < MaxSaves
  /\ Reopens \/ \A u \in Tasks : ~OnItsWay(u)
  /\ saves' = saves + 1
  /\ task' = [task EXCEPT ![t] = [NoTask EXCEPT !.pc = "save", !.save = saves + 1]]
  /\ UNCHANGED <<online, registered, queue, server, bounds>>

\* POST .../bulk, for a save and for a replay.
Send(t, h) ==
  /\ task[t].pc \in {"save", "replay"} /\ online
  /\ request[h] = NoRequest
  /\ request' = [request EXCEPT ![h] = [state |-> "sent", save |-> task[t].save]]
  /\ task' = [task EXCEPT ![t].request = h,
                          ![t].pc = IF @ = "save" THEN "saving" ELSE "replaying"]
  /\ UNCHANGED <<online, registered, queue, saves, answered, inForce, bounds>>

\* After a network failure a save is queued and a replay stays queued.
\* Mutant: a replay is given up.
GivenUpAtFailure(p) == IF p \in {"save", "saving"} THEN "enqueueRead" ELSE "removeRead"
AfterFailure(p) == IF p \in {"save", "saving"} THEN "enqueueRead" ELSE "next"

\* Without a network the call fails at once.
SendFails(t) ==
  /\ task[t].pc \in {"save", "replay"} /\ ~online
  /\ task' = [task EXCEPT ![t].pc = AfterFailure(@)]
  /\ UNCHANGED <<online, registered, queue, saves, server, bounds>>

\* What becomes of a request whose answer nobody awaits: the server goes on with it.
Abandoned(r) == IF r.state = "sent" THEN [r EXCEPT !.state = "abandoned"] ELSE NoRequest

\* No answer arrives in time.
TimeOut(t) ==
  LET h == task[t].request IN
  /\ task[t].pc \in {"saving", "replaying"} /\ outages < MaxOutages
  /\ outages' = outages + 1
  /\ task' = [task EXCEPT ![t].request = None, ![t].pc = AfterFailure(@)]
  /\ request' = [request EXCEPT ![h] = Abandoned(@)]
  /\ UNCHANGED <<online, registered, queue, saves, answered, inForce, kills, overlaps>>

\* A refused replay is given up like an accepted one.  Mutant: it is kept.
GivesUpNever(h) == request[h].state = "ok"
GivesUp(h) == TRUE

\* A save is over with its answer; a refusal is shown to the teacher.
Hear(t) ==
  LET h == task[t].request IN
  /\ task[t].pc \in {"saving", "replaying"} /\ request[h].state \in {"ok", "refused"}
  /\ request' = [request EXCEPT ![h] = NoRequest]
  /\ answered' = answered \union {task[t].save}
  /\ IF task[t].pc = "saving" THEN Ends(t)
     ELSE task' = [task EXCEPT ![t].request = None,
                               ![t].pc = IF GivesUp(h) THEN "removeRead" ELSE "next"]
  /\ UNCHANGED <<online, registered, queue, saves, inForce, bounds>>

-----------------------------------------------------------------------------
(* SyncQueueStore: read all, write all. *)

EnqueueRead(t) ==
  /\ task[t].pc = "enqueueRead" /\ ReadsFile(t)
  /\ \E content \in Content(t) :
       task' = [task EXCEPT ![t].pc = "enqueueWrite", ![t].read = content]
  /\ UNCHANGED <<online, registered, queue, saves, server, outages, kills>>

\* The merge into the cached roster that follows is not modelled.
EnqueueWrite(t) ==
  /\ task[t].pc = "enqueueWrite"
  /\ WritesFile(t, Append(task[t].read, task[t].save))
  /\ Ends(t)
  /\ UNCHANGED <<online, registered, saves, server, bounds>>

RemoveRead(t) ==
  /\ task[t].pc = "removeRead" /\ ReadsFile(t)
  /\ \E content \in Content(t) :
       task' = [task EXCEPT ![t].pc = "removeWrite", ![t].read = content]
  /\ UNCHANGED <<online, registered, queue, saves, server, outages, kills>>

\* Mutant: the first action is removed, whichever it is.
RemainingTail(read, n) == IF read = <<>> THEN <<>> ELSE Tail(read)
Remaining(read, n) ==
  LET kept[i \in 0..Len(read)] == IF i = 0 THEN <<>>
                                 ELSE IF read[i] = n THEN kept[i - 1]
                                 ELSE Append(kept[i - 1], read[i])
  IN kept[Len(read)]

RemoveWrite(t) ==
  /\ task[t].pc = "removeWrite"
  /\ WritesFile(t, Remaining(task[t].read, task[t].save))
  /\ task' = [task EXCEPT ![t].pc = "next", ![t].read = <<>>]
  /\ UNCHANGED <<online, registered, saves, server, bounds>>

-----------------------------------------------------------------------------
(* SyncEngine.drain *)

\* On reconnection, every two minutes and after an enqueue; drains may overlap.
Drain(t) ==
  /\ ~Busy(t) /\ queue # <<>> /\ ReadsFile(t)
  /\ task' = [task EXCEPT ![t] = [NoTask EXCEPT !.pc = "next", !.todo = queue]]
  /\ UNCHANGED <<online, registered, queue, saves, server, outages, kills>>

Replay(t) ==
  /\ task[t].pc = "next" /\ task[t].todo # <<>> /\ registered
  /\ task' = [task EXCEPT ![t].pc = "replay", ![t].save = Head(task[t].todo), ![t].todo = Tail(@)]
  /\ UNCHANGED <<online, registered, queue, saves, server, bounds>>

\* Without a replayer the actions stay where they are.
DrainEnds(t) ==
  /\ task[t].pc = "next"
  /\ task[t].todo = <<>> \/ ~registered
  /\ Ends(t)
  /\ UNCHANGED <<online, registered, queue, saves, server, bounds>>

-----------------------------------------------------------------------------
(* The server, the network and the user.                                   *)

Answers(h, answer) ==
  request' = [request EXCEPT ![h] = IF @.state = "sent" THEN [@ EXCEPT !.state = answer]
                                    ELSE NoRequest]

\* The transaction of bulkMark commits.
Enter(h) ==
  /\ request[h].state \in {"sent", "abandoned"}
  /\ inForce' = request[h].save
  /\ Answers(h, "ok")
  /\ UNCHANGED <<online, registered, queue, saves, task, answered, bounds>>

\* The class is cancelled, the right to mark is gone, or the server fails.
Refuse(h) ==
  /\ request[h].state \in {"sent", "abandoned"}
  /\ Answers(h, "refused")
  /\ UNCHANGED <<online, registered, queue, saves, task, answered, inForce, bounds>>

Connect ==
  /\ ~online
  /\ online' = TRUE
  /\ UNCHANGED <<registered, queue, saves, task, server, bounds>>

Disconnect ==
  /\ online /\ outages < MaxOutages
  /\ online' = FALSE
  /\ outages' = outages + 1
  /\ UNCHANGED <<registered, queue, saves, task, server, kills, overlaps>>

\* What is read of a file that is cut short.
Unreadable == <<>>

\* The app is killed, perhaps while it writes the file, and started again.
Kill ==
  /\ kills < MaxKills
  /\ kills' = kills + 1
  /\ registered' = FALSE
  /\ task' = [t \in Tasks |-> NoTask]
  /\ queue' \in IF Updating = {} THEN {queue} ELSE {queue, Unreadable}
  /\ request' = [h \in Requests |-> IF request[h].state = "idle" THEN NoRequest
                                    ELSE IF request[h].state = "abandoned" THEN request[h]
                                    ELSE Abandoned(request[h])]
  /\ UNCHANGED <<online, saves, answered, inForce, outages, overlaps>>

ServerStep(h) == Enter(h) \/ Refuse(h)

TaskStep(t) ==
  \/ \E h \in Requests : Send(t, h)
  \/ SendFails(t) \/ Hear(t)
  \/ EnqueueRead(t) \/ EnqueueWrite(t) \/ RemoveRead(t) \/ RemoveWrite(t)
  \/ Replay(t) \/ DrainEnds(t)

Next ==
  \/ \E h \in Requests : ServerStep(h)
  \/ \E t \in Tasks : TaskStep(t) \/ TimeOut(t) \/ Drain(t) \/ Save(t)
  \/ OpenScreen \/ Connect \/ Disconnect \/ Kill

Spec == Init /\ [][Next]_vars

(* Server and app go on with what they have begun, the timer starts a      *)
(* drain, and the network comes back.                                      *)
Fairness ==
  /\ \A h \in Requests : WF_vars(ServerStep(h))
  /\ \A t \in Tasks : WF_vars(TaskStep(t))
  /\ WF_vars(\E t \in Tasks : Drain(t)) /\ WF_vars(Connect)

FairSpec == Spec /\ Fairness

-----------------------------------------------------------------------------
(* Properties. *)

Saved == 1..MaxSaves
TaskPCs == {"idle", "save", "saving", "enqueueRead", "enqueueWrite", "next", "replay", "replaying",
            "removeRead", "removeWrite"}

TypeOK ==
  /\ online \in BOOLEAN /\ registered \in BOOLEAN
  /\ queue \in Seq(Saved) /\ saves \in 0..MaxSaves
  /\ task \in [Tasks -> [pc : TaskPCs, save : 0..MaxSaves, request : Requests \union {None},
                         todo : Seq(Saved), read : Seq(Saved)]]
  /\ request \in [Requests -> [state : {"idle", "sent", "abandoned", "ok", "refused"},
                               save : 0..MaxSaves]]
  /\ answered \subseteq Saved /\ inForce \in 0..MaxSaves
  /\ outages \in 0..MaxOutages /\ kills \in 0..MaxKills /\ overlaps \in 0..MaxOverlaps

\* A save is answered by the server, in the queue, or still on its way there ("stays queued for
\* the next drain", sync_engine.dart:10-11), unless the app was killed or two tasks were in the
\* queue's file at once: nothing else loses one, not even a lost answer, a network that goes away
\* in the middle of a drain, or two drains of the same queue.
Accounted ==
  kills = 0 /\ overlaps = 0 =>
    \A n \in 1..saves :
      n \in answered \/ n \in ToSet(queue) \/ \E t \in Tasks : OnItsWay(t) /\ task[t].save = n

\* "drains the offline queue on reconnect and periodically" (sync_engine.dart:22): once the network
\* stays and the attendance screen has been opened for good, the queue runs empty, however drains
\* overlap, whatever the server refuses and though a removed action may come back.
RunsEmpty == <>[](online /\ registered) => <>[](queue = <<>>)
=============================================================================
