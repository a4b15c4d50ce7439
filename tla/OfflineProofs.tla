---------------------------- MODULE OfflineProofs ----------------------------
(***************************************************************************)
(* Theorems about module OfflineSync, for any number of tasks, requests,   *)
(* saves, outages and kills: the queue and the tasks stay well typed, and  *)
(* a roll call that the teacher saved is not lost.  The argument is that   *)
(* an update of the queue's file is as good as atomic while only one task  *)
(* is at the file, and that what it takes out has been answered.           *)
(***************************************************************************)
EXTENDS OfflineSync, SequenceTheorems, WellFoundedInduction, TLAPS

-----------------------------------------------------------------------------
(* Remaining takes out of a sequence what it should, and nothing else.  It *)
(* is defined by recursion on the positions: that there is such a function *)
(* and what it keeps are inductions by the smallest counterexample.        *)

\* What f holds at position i, and that f does so up to k.
KeptOf(read, n, f, i) ==
  IF i = 0 THEN <<>> ELSE IF read[i] = n THEN f[i - 1] ELSE Append(f[i - 1], read[i])
IsKept(f, read, n, k) == f = [i \in 0..k |-> KeptOf(read, n, f, i)]

LEMMA RemainingIsKept ==
  ASSUME NEW read, NEW n
  PROVE  Remaining(read, n) = (CHOOSE f : IsKept(f, read, n, Len(read)))[Len(read)]
BY DEF Remaining, IsKept, KeptOf

\* A set of numbers has a smallest one.
LEMMA Smallest ==
  ASSUME NEW S \in SUBSET Nat, S # {}
  PROVE  \E n \in S : \A k \in S : n <= k
<1>1. PICK n \in S : \A k \in S : <<k, n>> \notin OpToRel(<, Nat)
  BY NatLessThanWellFounded, WFMin
<1>2. \A k \in S : ~ (k < n)
  BY <1>1 DEF OpToRel
<1> QED
  BY <1>2

\* There is such a function for every k.
LEMMA KeptExists ==
  ASSUME NEW read, NEW n
  PROVE  \A k \in Nat : \E f : IsKept(f, read, n, k)
<1> DEFINE Bad == {k \in Nat : ~\E f : IsKept(f, read, n, k)}
<1>1. SUFFICES ASSUME Bad # {}  PROVE FALSE
  OBVIOUS
<1>2. PICK k \in Bad : \A m \in Bad : k <= m
  BY <1>1, Smallest
<1>3. k \in Nat /\ ~\E f : IsKept(f, read, n, k)
  OBVIOUS
<1> HIDE DEF Bad
<1>4. CASE k = 0
  <2>1. IsKept([i \in 0..0 |-> <<>>], read, n, 0)
    BY DEF IsKept, KeptOf
  <2> QED
    BY <1>3, <1>4, <2>1
<1>5. CASE k # 0
  <2>1. k - 1 \in Nat /\ k - 1 \notin Bad
    BY <1>2, <1>3, <1>5
  <2>2. PICK f : IsKept(f, read, n, k - 1)
    BY <2>1 DEF Bad
  <2> DEFINE g == [i \in 0..k |-> IF i < k THEN f[i] ELSE KeptOf(read, n, f, k)]
  <2>3. \A i \in 0..k : g[i] = KeptOf(read, n, g, i)
    <3>1. \A i \in 0..(k - 1) : f[i] = KeptOf(read, n, f, i)
      BY <2>2, <2>1 DEF IsKept
    <3> QED
      BY <3>1, <1>3, <1>5 DEF KeptOf
  <2>4. IsKept(g, read, n, k)
    BY <2>3 DEF IsKept
  <2> QED
    BY <2>4, <1>3
<1> QED
  BY <1>4, <1>5

\* Elements other than n stay.
LEMMA RemainingKeeps ==
  ASSUME NEW S, NEW read \in Seq(S), NEW n
  PROVE  /\ Remaining(read, n) \in Seq(S)
         /\ \A m \in ToSet(read) : m # n => m \in ToSet(Remaining(read, n))
<1> DEFINE f == CHOOSE f : IsKept(f, read, n, Len(read))
           Good(i) == /\ f[i] \in Seq(S)
                      /\ \A j \in 1..i : read[j] # n => \E p \in DOMAIN f[i] : f[i][p] = read[j]
           Bad == {i \in 0..Len(read) : ~Good(i)}
<1>1. IsKept(f, read, n, Len(read))
  BY KeptExists
<1> HIDE DEF f
<1>2. /\ \A i \in 0..Len(read) : f[i] = KeptOf(read, n, f, i)
      /\ Len(read) \in Nat /\ \A i \in 1..Len(read) : read[i] \in S
  BY <1>1 DEF IsKept
<1>3. Bad = {}
  <2>1. SUFFICES ASSUME Bad # {}  PROVE FALSE
    OBVIOUS
  <2>2. PICK i \in Bad : \A m \in Bad : i <= m
    <3>1. Bad \in SUBSET Nat
      BY <1>2
    <3> QED
      BY <2>1, <3>1, Smallest
  <2>3. i \in 0..Len(read) /\ ~Good(i)
    OBVIOUS
  <2>4. CASE i = 0
    <3>1. f[i] = KeptOf(read, n, f, i)
      BY <1>2, <2>3
    <3>2. f[i] = <<>> /\ f[i] \in Seq(S) /\ 1..i = {}
      BY <3>1, <2>4 DEF KeptOf
    <3> QED
      BY <3>2, <2>3
  <2>5. CASE i # 0
    <3>1. i - 1 \in 0..Len(read) /\ Good(i - 1)
      <4>1. i - 1 \in 0..Len(read) /\ ~ (i <= i - 1)
        BY <1>2, <2>3, <2>5
      <4>2. i - 1 \notin Bad
        BY <2>2, <4>1
      <4> QED
        BY <4>1, <4>2
    <3>2. CASE read[i] = n
      <4>1. f[i] = f[i - 1]
        BY <1>2, <2>3, <2>5, <3>2 DEF KeptOf
      <4> QED
        BY <4>1, <3>1, <3>2, <2>3, <2>5
    <3>3. CASE read[i] # n
      <4>1. f[i] = Append(f[i - 1], read[i]) /\ read[i] \in S
        <5>1. i # 0 /\ i \in 1..Len(read)
          BY <1>2, <2>3, <2>5
        <5> QED
          BY <5>1, <1>2, <2>3, <3>3 DEF KeptOf
      <4>2. /\ f[i] \in Seq(S) /\ Len(f[i]) = Len(f[i - 1]) + 1
            /\ f[i][Len(f[i])] = read[i]
            /\ \A p \in DOMAIN f[i - 1] : p \in DOMAIN f[i] /\ f[i][p] = f[i - 1][p]
            /\ Len(f[i]) \in DOMAIN f[i]
        BY <4>1, <3>1
      <4> QED
        BY <4>2, <3>1, <2>3, <2>5
    <3> QED
      BY <3>2, <3>3
  <2> QED
    BY <2>4, <2>5
<1>4. Good(Len(read))
  BY <1>3
<1>5. Remaining(read, n) = f[Len(read)]
  BY RemainingIsKept DEF f
<1> QED
  BY <1>4, <1>5 DEF ToSet

-----------------------------------------------------------------------------
(* The inductive invariant. *)

Removing == {"removeRead", "removeWrite"}

\* What a task carries is one of the saves, and it removes only what was answered.
Carries ==
  \A t \in Tasks :
    /\ task[t].pc \notin {"idle", "next"} => task[t].save \in Saved
    /\ task[t].pc \in Removing => task[t].save \in answered

Undisturbed == kills = 0 /\ overlaps = 0

\* One task at most is between its read of the file and its write of it, and what it has
\* read is what the file holds.
Exclusive ==
  Undisturbed =>
    /\ \A t, u \in Updating : t = u
    /\ \A t \in Updating : task[t].read = queue

OfflineInv == TypeOK /\ Carries /\ Exclusive /\ Accounted

-----------------------------------------------------------------------------
(* What each step makes of its task. *)

TaskType == [pc : TaskPCs, save : 0..MaxSaves, request : Requests \union {None},
             todo : Seq(Saved), read : Seq(Saved)]
RequestType == [state : {"idle", "sent", "abandoned", "ok", "refused"}, save : 0..MaxSaves]

\* A task with other fields is a task.
LEMMA PcSet ==
  ASSUME NEW r \in TaskType, NEW pc \in TaskPCs
  PROVE  /\ [r EXCEPT !.pc = pc] \in TaskType /\ [r EXCEPT !.pc = pc].pc = pc
         /\ [r EXCEPT !.pc = pc].save = r.save /\ [r EXCEPT !.pc = pc].read = r.read
BY DEF TaskType

WithRequest(r, h, pc) == [r EXCEPT !.request = h, !.pc = pc]
LEMMA RequestSet ==
  ASSUME NEW r \in TaskType, NEW pc \in TaskPCs, NEW h \in Requests \union {None}
  PROVE  /\ WithRequest(r, h, pc) \in TaskType
         /\ WithRequest(r, h, pc).pc = pc /\ WithRequest(r, h, pc).save = r.save
BY DEF TaskType, WithRequest

WithRead(r, pc, read) == [r EXCEPT !.pc = pc, !.read = read]
LEMMA ReadSet ==
  ASSUME NEW r \in TaskType, NEW pc \in TaskPCs, NEW read \in Seq(Saved)
  PROVE  /\ WithRead(r, pc, read) \in TaskType /\ WithRead(r, pc, read).pc = pc
         /\ WithRead(r, pc, read).save = r.save /\ WithRead(r, pc, read).read = read
BY DEF TaskType, WithRead

WithReplay(r, n, todo) == [r EXCEPT !.pc = "replay", !.save = n, !.todo = todo]
LEMMA ReplaySet ==
  ASSUME NEW r \in TaskType, NEW n \in Saved, NEW todo \in Seq(Saved)
  PROVE  /\ WithReplay(r, n, todo) \in TaskType
         /\ WithReplay(r, n, todo).pc = "replay" /\ WithReplay(r, n, todo).save = n
<1>1. n \in 0..MaxSaves /\ "replay" \in TaskPCs
  BY OfflineAssumption DEF Saved, TaskPCs
<1> QED
  BY <1>1 DEF TaskType, WithReplay

LEMMA NoTaskSet == NoTask \in TaskType /\ NoTask.pc = "idle"
<1>1. 0 \in 0..MaxSaves /\ <<>> \in Seq(Saved)
  BY OfflineAssumption
<1> QED
  BY <1>1 DEF NoTask, TaskType, TaskPCs

NewSave(n) == [NoTask EXCEPT !.pc = "save", !.save = n]
NewDrain(todo) == [NoTask EXCEPT !.pc = "next", !.todo = todo]
LEMMA NewTasks ==
  ASSUME NEW n \in Saved, NEW todo \in Seq(Saved)
  PROVE  /\ NewSave(n) \in TaskType /\ NewSave(n).pc = "save" /\ NewSave(n).save = n
         /\ NewDrain(todo) \in TaskType /\ NewDrain(todo).pc = "next"
<1>1. n \in 0..MaxSaves /\ "save" \in TaskPCs /\ "next" \in TaskPCs
  BY OfflineAssumption DEF Saved, TaskPCs
<1> QED
  BY <1>1, NoTaskSet DEF TaskType, NewSave, NewDrain

\* Whatever becomes of a request, it stays one.
LEMMA RequestKept ==
  ASSUME NEW r \in RequestType, NEW answer \in {"ok", "refused"}
  PROVE  /\ NoRequest \in RequestType /\ Abandoned(r) \in RequestType
         /\ (IF r.state = "sent" THEN [r EXCEPT !.state = answer] ELSE NoRequest) \in RequestType
BY OfflineAssumption DEF RequestType, NoRequest, Abandoned

Typed == /\ task \in [Tasks -> TaskType] /\ queue \in Seq(Saved) /\ saves \in 0..MaxSaves

\* Task t becomes r.
LEMMA TaskSet ==
  ASSUME Typed, NEW t \in Tasks, NEW r \in TaskType, task' = [task EXCEPT ![t] = r]
  PROVE  task' \in [Tasks -> TaskType] /\ task'[t] = r /\ \A u \in Tasks \ {t} : task'[u] = task[u]
BY DEF Typed

LEMMA SendSets ==
  ASSUME Typed, NEW t \in Tasks, NEW h \in Requests, Send(t, h)
  PROVE  \E r \in TaskType :
           /\ task' = [task EXCEPT ![t] = r]
           /\ r.pc = (IF task[t].pc = "save" THEN "saving" ELSE "replaying") /\ r.save = task[t].save
<1> DEFINE pc == IF task[t].pc = "save" THEN "saving" ELSE "replaying"
           r == WithRequest(task[t], h, pc)
<1>1. task[t] \in TaskType /\ pc \in TaskPCs
  BY DEF Typed, TaskPCs
<1>2. task' = [task EXCEPT ![t] = r]
  BY DEF Send, WithRequest, Typed
<1> HIDE DEF pc
<1>3. r \in TaskType /\ r.pc = pc /\ r.save = task[t].save
  BY <1>1, RequestSet
<1> HIDE DEF r
<1> QED
  BY <1>2, <1>3 DEF pc

LEMMA SendFailsSets ==
  ASSUME Typed, NEW t \in Tasks, SendFails(t)
  PROVE  \E r \in TaskType :
           task' = [task EXCEPT ![t] = r] /\ r.pc = AfterFailure(task[t].pc) /\ r.save = task[t].save
<1> DEFINE pc == AfterFailure(task[t].pc)
           r == [task[t] EXCEPT !.pc = pc]
<1>1. task[t] \in TaskType /\ pc \in TaskPCs
  BY DEF Typed, TaskPCs, AfterFailure
<1>2. task' = [task EXCEPT ![t] = r]
  BY DEF SendFails, Typed
<1> HIDE DEF pc
<1>3. r \in TaskType /\ r.pc = pc /\ r.save = task[t].save
  BY <1>1, PcSet
<1> HIDE DEF r
<1> QED
  BY <1>2, <1>3 DEF pc

LEMMA TimeOutSets ==
  ASSUME Typed, NEW t \in Tasks, TimeOut(t)
  PROVE  \E r \in TaskType :
           task' = [task EXCEPT ![t] = r] /\ r.pc = AfterFailure(task[t].pc) /\ r.save = task[t].save
<1> DEFINE pc == AfterFailure(task[t].pc)
           r == WithRequest(task[t], None, pc)
<1>1. task[t] \in TaskType /\ pc \in TaskPCs
  BY DEF Typed, TaskPCs, AfterFailure
<1>2. task' = [task EXCEPT ![t] = r]
  BY DEF TimeOut, WithRequest, Typed
<1> HIDE DEF pc
<1>3. r \in TaskType /\ r.pc = pc /\ r.save = task[t].save
  BY <1>1, RequestSet
<1> HIDE DEF r
<1> QED
  BY <1>2, <1>3 DEF pc

LEMMA HearSets ==
  ASSUME Typed, NEW t \in Tasks, Hear(t)
  PROVE  \E r \in TaskType :
           /\ task' = [task EXCEPT ![t] = r]
           /\ r.pc \in {"idle", "removeRead", "next"}
           /\ r.pc # "idle" => r.save = task[t].save
<1>1. CASE task[t].pc = "saving"
  BY <1>1, NoTaskSet DEF Hear, Ends
<1>2. CASE task[t].pc # "saving"
  <2> DEFINE pc == IF GivesUp(task[t].request) THEN "removeRead" ELSE "next"
             r == WithRequest(task[t], None, pc)
  <2>1. task[t] \in TaskType /\ pc \in TaskPCs /\ pc \in {"removeRead", "next"}
    BY DEF Typed, TaskPCs
  <2>2. task' = [task EXCEPT ![t] = r]
    BY <1>2 DEF Hear, WithRequest, Typed
  <2> HIDE DEF pc
  <2>3. r \in TaskType /\ r.pc = pc /\ r.save = task[t].save
    BY <2>1, RequestSet
  <2> HIDE DEF r
  <2> QED
    BY <2>1, <2>2, <2>3
<1> QED
  BY <1>1, <1>2

LEMMA ReadSets ==
  ASSUME Typed, NEW t \in Tasks, EnqueueRead(t) \/ RemoveRead(t)
  PROVE  \E r \in TaskType :
           /\ task' = [task EXCEPT ![t] = r]
           /\ r.pc = (IF task[t].pc = "enqueueRead" THEN "enqueueWrite" ELSE "removeWrite")
           /\ r.save = task[t].save /\ r.read \in Content(t)
<1> DEFINE pc == IF task[t].pc = "enqueueRead" THEN "enqueueWrite" ELSE "removeWrite"
<1>1. PICK content \in Content(t) : task' = [task EXCEPT ![t].pc = pc, ![t].read = content]
  BY DEF EnqueueRead, RemoveRead
<1> DEFINE r == WithRead(task[t], pc, content)
<1>2. task[t] \in TaskType /\ pc \in TaskPCs /\ content \in Seq(Saved)
  <2>1. content \in {queue, <<>>}
    BY DEF Content
  <2>2. queue \in Seq(Saved) /\ <<>> \in Seq(Saved) /\ task[t] \in TaskType
    BY DEF Typed
  <2>3. pc \in TaskPCs
    BY DEF TaskPCs
  <2> QED
    BY <2>1, <2>2, <2>3
<1>3. task' = [task EXCEPT ![t] = r]
  BY <1>1 DEF WithRead, Typed
<1> HIDE DEF pc
<1>4. r \in TaskType /\ r.pc = pc /\ r.save = task[t].save /\ r.read = content
  BY <1>2, ReadSet
<1> HIDE DEF r
<1> QED
  BY <1>3, <1>4 DEF pc

LEMMA RemoveWriteSets ==
  ASSUME Typed, NEW t \in Tasks, RemoveWrite(t)
  PROVE  \E r \in TaskType : task' = [task EXCEPT ![t] = r] /\ r.pc = "next"
<1> DEFINE r == WithRead(task[t], "next", <<>>)
<1>1. task[t] \in TaskType /\ "next" \in TaskPCs /\ <<>> \in Seq(Saved)
  BY DEF Typed, TaskPCs
<1>2. task' = [task EXCEPT ![t] = r]
  BY DEF RemoveWrite, WithRead, Typed
<1>3. r \in TaskType /\ r.pc = "next"
  BY <1>1, ReadSet
<1> HIDE DEF r
<1> QED
  BY <1>2, <1>3

LEMMA ReplaySets ==
  ASSUME Typed, NEW t \in Tasks, Replay(t)
  PROVE  \E r \in TaskType : task' = [task EXCEPT ![t] = r] /\ r.pc = "replay" /\ r.save \in Saved
<1> DEFINE todo == task[t].todo
           r == WithReplay(task[t], Head(todo), Tail(todo))
<1>1. task[t] \in TaskType /\ todo \in Seq(Saved) /\ todo # <<>>
  BY DEF Typed, TaskPCs, TaskType, Replay
<1>2. task' = [task EXCEPT ![t] = r]
  BY DEF Replay, WithReplay, Typed
<1> HIDE DEF todo
<1>3. Head(todo) \in Saved /\ Tail(todo) \in Seq(Saved)
  BY <1>1
<1>4. r \in TaskType /\ r.pc = "replay" /\ r.save = Head(todo)
  BY <1>1, <1>3, ReplaySet
<1> HIDE DEF r
<1> QED
  BY <1>2, <1>3, <1>4

LEMMA DrainSets ==
  ASSUME Typed, NEW t \in Tasks, Drain(t)
  PROVE  \E r \in TaskType : task' = [task EXCEPT ![t] = r] /\ r.pc = "next"
<1>1. task' = [task EXCEPT ![t] = NewDrain(queue)]
  BY DEF Drain, NewDrain
<1>2. Head(queue) \in Saved /\ queue \in Seq(Saved)
  BY DEF Drain, Typed
<1> QED
  BY <1>1, <1>2, NewTasks

LEMMA SaveSets ==
  ASSUME Typed, NEW t \in Tasks, Save(t)
  PROVE  /\ saves' = saves + 1 /\ saves' \in Saved
         /\ \E r \in TaskType : task' = [task EXCEPT ![t] = r] /\ r.pc = "save" /\ r.save = saves'
<1>1. task' = [task EXCEPT ![t] = NewSave(saves')] /\ saves' = saves + 1
  BY DEF Save, NewSave
<1>2. saves' \in Saved /\ <<>> \in Seq(Saved)
  BY <1>1, OfflineAssumption DEF Save, Saved, Typed
<1> QED
  BY <1>1, <1>2, NewTasks

LEMMA EndSets ==
  ASSUME Typed, NEW t \in Tasks, EnqueueWrite(t) \/ DrainEnds(t)
  PROVE  \E r \in TaskType : task' = [task EXCEPT ![t] = r] /\ r.pc = "idle"
BY NoTaskSet DEF EnqueueWrite, DrainEnds, Ends

\* Every step gives one task at most other fields; what remains is a case of each action.
LEMMA TypeKept ==
  ASSUME OfflineInv, [Next]_vars
  PROVE  TypeOK'
<1> USE OfflineAssumption
<1>0. /\ task \in [Tasks -> TaskType] /\ request \in [Requests -> RequestType]
      /\ queue \in Seq(Saved) /\ saves \in 0..MaxSaves
      /\ <<>> \in Seq(Saved)
      /\ Typed
  BY DEF OfflineInv, TypeOK, TaskType, RequestType, Typed
<1>1. ASSUME NEW t \in Tasks, NEW h \in Requests, Send(t, h)  PROVE TypeOK'
  <2>1. task' \in [Tasks -> TaskType]
    BY <1>0, <1>1, SendSets, TaskSet
  <2>2. request' \in [Requests -> RequestType]
    BY <1>0, <1>1 DEF Send, TaskType, RequestType
  <2> QED
    BY <1>1, <2>1, <2>2 DEF Send, OfflineInv, TypeOK, TaskType, RequestType, bounds
<1>2. ASSUME NEW t \in Tasks, SendFails(t)  PROVE TypeOK'
  <2>1. task' \in [Tasks -> TaskType]
    BY <1>0, <1>2, SendFailsSets, TaskSet
  <2> QED
    BY <1>2, <2>1 DEF SendFails, OfflineInv, TypeOK, TaskType, server, bounds
<1>3. ASSUME NEW t \in Tasks, Hear(t)  PROVE TypeOK'
  <2>1. task' \in [Tasks -> TaskType]
    BY <1>0, <1>3, HearSets, TaskSet
  <2>2. request' \in [Requests -> RequestType]
    <3>1. NoRequest \in RequestType
      BY DEF NoRequest, RequestType
    <3> QED
      BY <1>0, <1>3, <3>1 DEF Hear
  <2>3. answered' \subseteq Saved
    BY <1>0, <1>3 DEF Hear, OfflineInv, TypeOK, Carries
  <2> QED
    BY <1>3, <2>1, <2>2, <2>3 DEF Hear, OfflineInv, TypeOK, TaskType, RequestType, bounds
<1>4. ASSUME NEW t \in Tasks, EnqueueRead(t) \/ RemoveRead(t)  PROVE TypeOK'
  <2>2. task' \in [Tasks -> TaskType]
    BY <1>0, <1>4, ReadSets, TaskSet
  <2>3. overlaps' \in 0..MaxOverlaps
    BY <1>4 DEF EnqueueRead, RemoveRead, ReadsFile, OfflineInv, TypeOK
  <2> QED
    BY <1>4, <2>2, <2>3 DEF EnqueueRead, RemoveRead, OfflineInv, TypeOK, TaskType, server
<1>5. ASSUME NEW t \in Tasks, EnqueueWrite(t)  PROVE TypeOK'
  <2>1. task' \in [Tasks -> TaskType]
    BY <1>0, <1>5, EndSets, TaskSet
  <2>2. task[t].save \in Saved /\ task[t].read \in Seq(Saved)
    BY <1>0, <1>5 DEF EnqueueWrite, OfflineInv, Carries, TaskType
  <2>3. Append(task[t].read, task[t].save) \in Seq(Saved)
    BY <2>2
  <2>4. queue' \in Seq(Saved)
    BY <1>0, <1>5, <2>3 DEF EnqueueWrite, WritesFile
  <2> QED
    BY <1>5, <2>1, <2>4 DEF EnqueueWrite, OfflineInv, TypeOK, TaskType, server, bounds
<1>6. ASSUME NEW t \in Tasks, RemoveWrite(t)  PROVE TypeOK'
  <2>1. task' \in [Tasks -> TaskType]
    BY <1>0, <1>6, RemoveWriteSets, TaskSet
  <2>2. Remaining(task[t].read, task[t].save) \in Seq(Saved)
    BY <1>0, RemainingKeeps DEF TaskType
  <2>3. queue' \in Seq(Saved)
    BY <1>0, <1>6, <2>2 DEF RemoveWrite, WritesFile
  <2> QED
    BY <1>6, <2>1, <2>3 DEF RemoveWrite, OfflineInv, TypeOK, TaskType, server, bounds
<1>7. ASSUME NEW t \in Tasks, Replay(t)  PROVE TypeOK'
  <2>2. task' \in [Tasks -> TaskType]
    BY <1>0, <1>7, ReplaySets, TaskSet
  <2> QED
    BY <1>7, <2>2 DEF Replay, OfflineInv, TypeOK, TaskType, server, bounds
<1>8. ASSUME NEW t \in Tasks, DrainEnds(t)  PROVE TypeOK'
  <2>1. task' \in [Tasks -> TaskType]
    BY <1>0, <1>8, EndSets, TaskSet
  <2> QED
    BY <1>8, <2>1 DEF DrainEnds, OfflineInv, TypeOK, TaskType, server, bounds
<1>9. ASSUME NEW t \in Tasks, TimeOut(t)  PROVE TypeOK'
  <2>1. task' \in [Tasks -> TaskType]
    BY <1>0, <1>9, TimeOutSets, TaskSet
  <2>2. request' \in [Requests -> RequestType]
    <3>1. \A h \in Requests : Abandoned(request[h]) \in RequestType
      BY <1>0, RequestKept
    <3> QED
      BY <1>0, <1>9, <3>1 DEF TimeOut
  <2>3. outages' \in 0..MaxOutages
    BY <1>9 DEF TimeOut, OfflineInv, TypeOK
  <2> QED
    BY <1>9, <2>1, <2>2, <2>3 DEF TimeOut, OfflineInv, TypeOK, TaskType, RequestType
<1>10. ASSUME NEW t \in Tasks, Drain(t)  PROVE TypeOK'
  <2>1. task' \in [Tasks -> TaskType]
    BY <1>0, <1>10, DrainSets, TaskSet
  <2>2. overlaps' \in 0..MaxOverlaps
    BY <1>10 DEF Drain, ReadsFile, OfflineInv, TypeOK
  <2> QED
    BY <1>10, <2>1, <2>2 DEF Drain, OfflineInv, TypeOK, TaskType, server
<1>11. ASSUME NEW t \in Tasks, Save(t)  PROVE TypeOK'
  <2>1. saves' \in 0..MaxSaves
    BY <1>0, <1>11 DEF Save
  <2>2. task' \in [Tasks -> TaskType]
    BY <1>0, <1>11, SaveSets, TaskSet
  <2> QED
    BY <1>11, <2>1, <2>2 DEF Save, OfflineInv, TypeOK, TaskType, server, bounds
<1>12. ASSUME NEW h \in Requests, Enter(h) \/ Refuse(h)  PROVE TypeOK'
  <2>1. request' \in [Requests -> RequestType]
    <3>1. PICK answer \in {"ok", "refused"} : Answers(h, answer)
      BY <1>12 DEF Enter, Refuse
    <3>2. request[h] \in RequestType
      BY <1>0
    <3>3. (IF request[h].state = "sent" THEN [request[h] EXCEPT !.state = answer] ELSE NoRequest) \in RequestType
      BY <3>2, RequestKept
    <3> QED
      BY <1>0, <3>1, <3>3 DEF Answers
  <2>2. inForce' \in 0..MaxSaves
    BY <1>0, <1>12 DEF Enter, Refuse, RequestType, OfflineInv, TypeOK
  <2> QED
    BY <1>12, <2>1, <2>2 DEF Enter, Refuse, OfflineInv, TypeOK, RequestType, bounds
<1>13. ASSUME OpenScreen \/ Connect \/ Disconnect  PROVE TypeOK'
  <2>1. CASE OpenScreen \/ Connect
    BY <2>1 DEF OpenScreen, Connect, OfflineInv, TypeOK, server, bounds
  <2>2. CASE Disconnect
    <3>1. outages' \in 0..MaxOutages
      BY <2>2 DEF Disconnect, OfflineInv, TypeOK
    <3> QED
      BY <2>2, <3>1 DEF Disconnect, OfflineInv, TypeOK, server
  <2> QED
    BY <1>13, <2>1, <2>2
<1>14. ASSUME Kill  PROVE TypeOK'
  <2>1. task' \in [Tasks -> TaskType]
    BY <1>14, NoTaskSet DEF Kill
  <2>2. request' \in [Requests -> RequestType]
    <3>1. \A h \in Requests : /\ NoRequest \in RequestType /\ request[h] \in RequestType
                              /\ Abandoned(request[h]) \in RequestType
      BY <1>0, RequestKept
    <3> QED
      BY <1>14, <3>1 DEF Kill
  <2>3. queue' \in Seq(Saved)
    BY <1>0, <1>14 DEF Kill, Unreadable
  <2>4. kills' \in 0..MaxKills
    BY <1>14 DEF Kill, OfflineInv, TypeOK
  <2> QED
    BY <1>14, <2>1, <2>2, <2>3, <2>4 DEF Kill, OfflineInv, TypeOK, TaskType, RequestType
<1>15. CASE UNCHANGED vars
  BY <1>15 DEF vars, server, bounds, OfflineInv, TypeOK
<1> QED
  BY <1>1, <1>2, <1>3, <1>4, <1>5, <1>6, <1>7, <1>8, <1>9, <1>10, <1>11, <1>12, <1>13, <1>14,
     <1>15 DEF Next, ServerStep, TaskStep

-----------------------------------------------------------------------------
(* The invariant is kept. *)

Way == {"save", "saving", "enqueueRead", "enqueueWrite"}
Writes == {"enqueueWrite", "removeWrite"}
\* Save n is answered, in the queue or on its way there.
Kept(n) == n \in answered \/ n \in ToSet(queue) \/ \E t \in Tasks : OnItsWay(t) /\ task[t].save = n

\* A step in which a task begins no update of the file and the queue stays.
LEMMA QueueStays ==
  ASSUME OfflineInv, TypeOK', NEW t \in Tasks, NEW r \in TaskType, task' = [task EXCEPT ![t] = r],
         queue' = queue, saves' = saves, kills' = kills, overlaps' \in {overlaps, overlaps + 1},
         answered \subseteq answered', r.pc \notin Writes,
         r.pc \notin {"idle", "next"} => r.save \in Saved,
         r.pc \in Removing => r.save \in answered',
         OnItsWay(t) => \/ r.pc \in Way /\ r.save = task[t].save
                        \/ task[t].save \in answered'
  PROVE  OfflineInv'
<1>1. /\ task'[t] = r /\ \A u \in Tasks \ {t} : task'[u] = task[u]
      /\ overlaps \in Nat /\ kills \in Nat
  BY TaskSet, OfflineAssumption DEF OfflineInv, TypeOK, Typed, TaskType
<1>2. Carries'
  BY <1>1 DEF OfflineInv, Carries
<1>3. Undisturbed' => Undisturbed
  BY <1>1 DEF Undisturbed
<1>4. Updating' \subseteq Updating /\ t \notin Updating'
  BY <1>1 DEF Updating, Writes
<1>5. Exclusive'
  BY <1>1, <1>3, <1>4 DEF OfflineInv, Exclusive, Updating
<1>6. Accounted'
  <2> SUFFICES ASSUME Undisturbed', NEW n \in 1..saves  PROVE Kept(n)'
    BY DEF Accounted, Undisturbed, Kept
  <2>1. Kept(n)
    BY <1>3 DEF OfflineInv, Accounted, Undisturbed, Kept
  <2>2. CASE n \in answered \/ n \in ToSet(queue)
    BY <2>2 DEF Kept
  <2>3. ASSUME NEW u \in Tasks, OnItsWay(u), task[u].save = n  PROVE Kept(n)'
    <3>1. CASE u = t
      BY <3>1, <2>3, <1>1 DEF Kept, OnItsWay, Way
    <3>2. CASE u # t
      BY <3>2, <2>3, <1>1 DEF Kept, OnItsWay
    <3> QED
      BY <3>1, <3>2
  <2> QED
    BY <2>1, <2>2, <2>3 DEF Kept
<1> QED
  BY <1>2, <1>5, <1>6 DEF OfflineInv

LEMMA SaveKeeps ==
  ASSUME OfflineInv, TypeOK', NEW t \in Tasks, Save(t)
  PROVE  OfflineInv'
<1>0. Typed /\ saves \in Nat
  BY OfflineAssumption DEF OfflineInv, TypeOK, Typed, TaskType
<1>1. PICK r \in TaskType : task' = [task EXCEPT ![t] = r] /\ r.pc = "save" /\ r.save = saves'
  BY <1>0, SaveSets
<1>2. saves' = saves + 1 /\ saves' \in Saved
  BY <1>0, SaveSets
<1>3. /\ task'[t] = r /\ \A u \in Tasks \ {t} : task'[u] = task[u]
      /\ task[t].pc = "idle" /\ queue' = queue /\ answered' = answered
      /\ kills' = kills /\ overlaps' = overlaps
  BY <1>0, <1>1, TaskSet DEF Save, Busy, server, bounds
<1>4. Carries'
  BY <1>1, <1>2, <1>3 DEF OfflineInv, Carries, Removing
<1>5. Updating' = Updating /\ t \notin Updating
  BY <1>1, <1>3 DEF Updating
<1>6. Exclusive'
  BY <1>3, <1>5 DEF OfflineInv, Exclusive, Undisturbed, Updating
<1>7. Accounted'
  <2> SUFFICES ASSUME Undisturbed', NEW n \in 1..saves'  PROVE Kept(n)'
    BY DEF Accounted, Undisturbed, Kept
  <2>1. CASE n = saves'
    BY <2>1, <1>1, <1>3 DEF Kept, OnItsWay
  <2>2. CASE n # saves'
    <3>1. Kept(n)
      BY <2>2, <1>0, <1>2, <1>3 DEF OfflineInv, Accounted, Undisturbed, Kept
    <3> QED
      BY <3>1, <1>3 DEF Kept, OnItsWay
  <2> QED
    BY <2>1, <2>2
<1> QED
  BY <1>4, <1>6, <1>7 DEF OfflineInv

LEMMA ReadKeeps ==
  ASSUME OfflineInv, TypeOK', NEW t \in Tasks, EnqueueRead(t) \/ RemoveRead(t)
  PROVE  OfflineInv'
<1>0. Typed /\ overlaps \in Nat
  BY OfflineAssumption DEF OfflineInv, TypeOK, Typed, TaskType
<1>1. PICK r \in TaskType :
        /\ task' = [task EXCEPT ![t] = r]
        /\ r.pc = (IF task[t].pc = "enqueueRead" THEN "enqueueWrite" ELSE "removeWrite")
        /\ r.save = task[t].save /\ r.read \in Content(t)
  BY <1>0, ReadSets
<1>2. /\ task'[t] = r /\ \A u \in Tasks \ {t} : task'[u] = task[u]
      /\ task[t].pc \in {"enqueueRead", "removeRead"}
      /\ UNCHANGED <<queue, saves, answered, kills>> /\ ReadsFile(t)
  BY <1>0, <1>1, TaskSet DEF EnqueueRead, RemoveRead, server
<1>3. Carries'
  BY <1>1, <1>2 DEF OfflineInv, Carries, Removing
<1>4. Undisturbed' => Undisturbed /\ ~Overlap(t)
  BY <1>0, <1>2 DEF Undisturbed, ReadsFile
<1>5. Updating' = Updating \union {t} /\ t \notin Updating
  BY <1>1, <1>2 DEF Updating
<1>6. Exclusive'
  <2> SUFFICES ASSUME Undisturbed'  PROVE /\ \A u, v \in Updating' : u = v
                                          /\ \A u \in Updating' : task'[u].read = queue'
    BY DEF Exclusive
  <2>1. Updating' = {t} /\ r.read = queue
    BY <1>1, <1>4, <1>5 DEF Overlap, Content
  <2> QED
    BY <2>1, <1>2
<1>7. Accounted'
  <2> SUFFICES ASSUME Undisturbed', NEW n \in 1..saves  PROVE Kept(n)'
    BY <1>2 DEF Accounted, Undisturbed, Kept
  <2>1. Kept(n)
    BY <1>4 DEF OfflineInv, Accounted, Undisturbed, Kept
  <2>2. \A u \in Tasks : OnItsWay(u) => OnItsWay(u)' /\ task'[u].save = task[u].save
    BY <1>1, <1>2 DEF OnItsWay
  <2> QED
    BY <2>1, <2>2, <1>2 DEF Kept
<1> QED
  BY <1>3, <1>6, <1>7 DEF OfflineInv

\* An update appends the task's save or removes what was answered, and loses nothing else:
\* as long as no other task is at the file, what was read is what is there.
LEMMA WriteKeeps ==
  ASSUME OfflineInv, TypeOK', NEW t \in Tasks, EnqueueWrite(t) \/ RemoveWrite(t)
  PROVE  OfflineInv'
<1>0. Typed
  BY DEF OfflineInv, TypeOK, Typed, TaskType
<1>1. PICK r \in TaskType : task' = [task EXCEPT ![t] = r] /\ r.pc \in {"idle", "next"}
  BY <1>0, EndSets, RemoveWriteSets
<1>2. /\ task'[t] = r /\ \A u \in Tasks \ {t} : task'[u] = task[u]
      /\ task[t].pc \in Writes /\ UNCHANGED <<saves, answered, kills, overlaps>>
      /\ task[t] \in TaskType
  BY <1>0, <1>1, TaskSet DEF EnqueueWrite, RemoveWrite, Writes, server, bounds, Typed
<1>3. Carries'
  BY <1>1, <1>2 DEF OfflineInv, Carries, Removing
<1>4. t \in Updating /\ Updating' = Updating \ {t}
  BY <1>1, <1>2 DEF Updating, Writes
<1>5. Undisturbed' => Undisturbed /\ ~Overlap(t) /\ Updating' = {} /\ task[t].read = queue
  BY <1>2, <1>4 DEF OfflineInv, Exclusive, Undisturbed, Overlap
<1>6. Exclusive'
  BY <1>5 DEF Exclusive
<1>7. Accounted'
  <2> SUFFICES ASSUME Undisturbed', NEW n \in 1..saves  PROVE Kept(n)'
    BY <1>2 DEF Accounted, Undisturbed, Kept
  <2>1. Kept(n)
    BY <1>5 DEF OfflineInv, Accounted, Undisturbed, Kept
  <2> DEFINE read == task[t].read
             save == task[t].save
  <2>2. read \in Seq(Saved) /\ save \in Saved /\ read = queue
    BY <1>2, <1>5 DEF TaskType, OfflineInv, Carries, Writes
  <2>3. CASE EnqueueWrite(t)
    <3>1. queue' = Append(read, save)
      BY <1>5, <2>3 DEF EnqueueWrite, WritesFile
    <3> HIDE DEF read, save
    <3>2. /\ Len(queue') = Len(queue) + 1 /\ queue' \in Seq(Saved) /\ queue'[Len(queue')] = save
          /\ \A i \in DOMAIN queue : i \in DOMAIN queue' /\ queue'[i] = queue[i]
          /\ Len(queue') \in DOMAIN queue'
      BY <3>1, <2>2
    <3>3. save \in ToSet(queue') /\ \A m \in ToSet(queue) : m \in ToSet(queue')
      BY <3>2 DEF ToSet
    <3>4. \A u \in Tasks \ {t} : OnItsWay(u) => OnItsWay(u)' /\ task'[u].save = task[u].save
      BY <1>2 DEF OnItsWay
    <3> QED
      BY <2>1, <3>3, <3>4, <1>2 DEF Kept, save
  <2>4. CASE RemoveWrite(t)
    <3>1. queue' = Remaining(read, save) /\ task[t].pc = "removeWrite"
      BY <1>5, <2>4 DEF RemoveWrite, WritesFile
    <3>2. save \in answered
      BY <3>1 DEF OfflineInv, Carries, Removing
    <3> HIDE DEF read, save
    <3>3. \A m \in ToSet(queue) : m # save => m \in ToSet(queue')
      BY <3>1, <2>2, RemainingKeeps
    <3>4. \A u \in Tasks : OnItsWay(u) => OnItsWay(u)' /\ task'[u].save = task[u].save
      BY <3>1, <1>2 DEF OnItsWay
    <3> QED
      BY <2>1, <3>2, <3>3, <3>4, <1>2 DEF Kept
  <2> QED
    BY <2>3, <2>4
<1> QED
  BY <1>3, <1>6, <1>7 DEF OfflineInv

LEMMA TaskStepKeeps ==
  ASSUME OfflineInv, TypeOK', NEW t \in Tasks, TaskStep(t) \/ TimeOut(t) \/ Drain(t)
  PROVE  OfflineInv'
<1>0. Typed /\ task[t].pc \notin {"idle", "next"} => task[t].save \in Saved
  BY DEF OfflineInv, Carries
<1>1. Typed
  BY DEF OfflineInv, TypeOK, Typed, TaskType
<1>2. ASSUME NEW h \in Requests, Send(t, h)  PROVE OfflineInv'
  <2>1. /\ UNCHANGED <<queue, saves, answered, kills, overlaps>> /\ task[t].pc \in {"save", "replay"}
    BY <1>2 DEF Send, bounds
  <2>2. PICK r \in TaskType :
          /\ task' = [task EXCEPT ![t] = r]
          /\ r.pc = (IF task[t].pc = "save" THEN "saving" ELSE "replaying") /\ r.save = task[t].save
    BY <1>1, <1>2, SendSets
  <2> QED
    BY <1>0, <1>1, <2>1, <2>2, QueueStays DEF OnItsWay, Way, Writes, Removing
<1>3. ASSUME SendFails(t) \/ TimeOut(t)  PROVE OfflineInv'
  <2>1. /\ UNCHANGED <<queue, saves, answered, kills, overlaps>>
        /\ task[t].pc \in {"save", "saving", "replay", "replaying"}
    BY <1>3 DEF SendFails, TimeOut, bounds, server
  <2>2. PICK r \in TaskType :
          task' = [task EXCEPT ![t] = r] /\ r.pc = AfterFailure(task[t].pc) /\ r.save = task[t].save
    BY <1>1, <1>3, SendFailsSets, TimeOutSets
  <2> QED
    BY <1>0, <1>1, <2>1, <2>2, QueueStays DEF AfterFailure, OnItsWay, Way, Writes, Removing
<1>4. ASSUME Hear(t)  PROVE OfflineInv'
  <2>1. /\ UNCHANGED <<queue, saves, kills, overlaps>> /\ task[t].pc \in {"saving", "replaying"}
        /\ answered' = answered \union {task[t].save}
    BY <1>4 DEF Hear, bounds
  <2>2. PICK r \in TaskType :
           /\ task' = [task EXCEPT ![t] = r]
           /\ r.pc \in {"idle", "removeRead", "next"}
           /\ r.pc # "idle" => r.save = task[t].save
    BY <1>1, <1>4, HearSets
  <2> QED
    BY <1>0, <1>1, <2>1, <2>2, QueueStays DEF Writes, Removing
<1>5. ASSUME Replay(t)  PROVE OfflineInv'
  <2>1. UNCHANGED <<queue, saves, answered, kills, overlaps>> /\ task[t].pc = "next"
    BY <1>5 DEF Replay, server, bounds
  <2>2. PICK r \in TaskType : task' = [task EXCEPT ![t] = r] /\ r.pc = "replay" /\ r.save \in Saved
    BY <1>1, <1>5, ReplaySets
  <2> QED
    BY <2>1, <2>2, QueueStays DEF OnItsWay, Writes, Removing
<1>6. ASSUME DrainEnds(t)  PROVE OfflineInv'
  <2>1. UNCHANGED <<queue, saves, answered, kills, overlaps>> /\ task[t].pc = "next"
    BY <1>6 DEF DrainEnds, server, bounds
  <2>2. PICK r \in TaskType : task' = [task EXCEPT ![t] = r] /\ r.pc = "idle"
    BY <1>1, <1>6, EndSets
  <2> QED
    BY <2>1, <2>2, QueueStays DEF OnItsWay, Writes, Removing
<1>7. ASSUME Drain(t)  PROVE OfflineInv'
  <2>1. /\ UNCHANGED <<queue, saves, answered, kills>> /\ task[t].pc = "idle"
        /\ overlaps' \in {overlaps, overlaps + 1}
    BY <1>7 DEF Drain, Busy, server, ReadsFile
  <2>2. PICK r \in TaskType : task' = [task EXCEPT ![t] = r] /\ r.pc = "next"
    BY <1>1, <1>7, DrainSets
  <2> QED
    BY <2>1, <2>2, QueueStays DEF OnItsWay, Writes, Removing
<1> QED
  BY <1>2, <1>3, <1>4, <1>5, <1>6, <1>7, ReadKeeps, WriteKeeps DEF TaskStep

LEMMA Keeps ==
  ASSUME OfflineInv, [Next]_vars
  PROVE  OfflineInv'
<1>1. TypeOK'
  BY TypeKept
<1>2. ASSUME UNCHANGED <<queue, saves, task, answered, kills, overlaps>>  PROVE OfflineInv'
  BY <1>1, <1>2 DEF OfflineInv, Carries, Exclusive, Undisturbed, Updating, Accounted, OnItsWay
<1>3. ASSUME NEW h \in Requests, ServerStep(h)  PROVE OfflineInv'
  BY <1>2, <1>3 DEF ServerStep, Enter, Refuse, bounds
<1>4. ASSUME OpenScreen \/ Connect \/ Disconnect \/ UNCHANGED vars  PROVE OfflineInv'
  BY <1>2, <1>4 DEF OpenScreen, Connect, Disconnect, vars, server, bounds
<1>5. ASSUME Kill  PROVE OfflineInv'
  <2>1. kills' = kills + 1 /\ kills \in Nat /\ task' = [t \in Tasks |-> NoTask]
    BY <1>5, OfflineAssumption DEF Kill, OfflineInv, TypeOK
  <2>2. ~Undisturbed'
    BY <2>1 DEF Undisturbed
  <2>3. Carries'
    BY <2>1, NoTaskSet DEF Carries, Removing
  <2> QED
    BY <1>1, <2>2, <2>3 DEF OfflineInv, Exclusive, Accounted, Undisturbed
<1> QED
  BY <1>1, <1>3, <1>4, <1>5, SaveKeeps, TaskStepKeeps DEF Next

LEMMA Starts == Init => OfflineInv
<1> SUFFICES ASSUME Init  PROVE OfflineInv
  OBVIOUS
<1>1. NoTask \in TaskType /\ NoTask.pc = "idle" /\ NoRequest \in RequestType
  BY NoTaskSet, OfflineAssumption DEF NoRequest, RequestType
<1>2. task \in [Tasks -> TaskType] /\ \A t \in Tasks : task[t].pc = "idle"
  BY <1>1 DEF Init
<1>3. request \in [Requests -> RequestType]
  BY <1>1 DEF Init
<1>4. TypeOK
  <2>1. queue \in Seq(Saved) /\ saves \in 0..MaxSaves /\ inForce \in 0..MaxSaves
    <3>1. queue = <<>> /\ saves = 0 /\ inForce = 0 /\ <<>> \in Seq(Saved) /\ 0 \in 0..MaxSaves
      BY OfflineAssumption DEF Init
    <3> QED
      BY <3>1
  <2>2. outages \in 0..MaxOutages /\ kills \in 0..MaxKills /\ overlaps \in 0..MaxOverlaps
    BY OfflineAssumption DEF Init
  <2>3. online \in BOOLEAN /\ registered \in BOOLEAN /\ answered \subseteq Saved
    BY Zenon DEF Init
  <2> QED
    BY <1>2, <1>3, <2>1, <2>2, <2>3 DEF TypeOK, TaskType, RequestType
<1>5. Carries /\ Exclusive
  BY <1>2 DEF Carries, Exclusive, Updating, Removing
<1>6. Accounted
  BY DEF Init, Accounted
<1> QED
  BY <1>4, <1>5, <1>6 DEF OfflineInv

\* The queue, the tasks and the requests stay well typed.
THEOREM TypeCorrect == Spec => []TypeOK
<1>1. OfflineInv => TypeOK
  BY DEF OfflineInv
<1> QED
  BY <1>1, Starts, Keeps, PTL DEF Spec

\* A save is never lost, for any number of saves, tasks, requests, outages and lost answers: it
\* is answered, in the queue or on its way there, as long as the app is not killed and no task
\* is at the queue's file while another one updates it.
THEOREM SavesAccounted == Spec => []Accounted
<1>1. Init => OfflineInv
  BY Starts
<1>2. OfflineInv /\ [Next]_vars => OfflineInv'
  BY Keeps
<1>3. OfflineInv => Accounted
  BY DEF OfflineInv
<1> QED
  BY <1>1, <1>2, <1>3, PTL DEF Spec
=============================================================================
