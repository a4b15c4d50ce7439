--------------------------- MODULE SessionsProofs ---------------------------
(***************************************************************************)
(* Theorems about module Sessions, for any number of devices, calls,       *)
(* requests and token pairs: its types, that a deleted account stays out,  *)
(* that a healthy app never presents a refresh token twice, and that its   *)
(* user is never sent back to the login screen.                            *)
(***************************************************************************)
EXTENDS Sessions, TLAPS

-----------------------------------------------------------------------------
(* Type correctness.  That a request which is let go of by its app is      *)
(* still a request follows from what its statement says about its job.     *)

TokenType == [device : Devices \union {None}, live : BOOLEAN, uses : Nat]
JobType == [op : {"none", "login", "refresh", "delete"}, device : Devices \union {None},
            pair : PairOrNone, known : BOOLEAN, heard : BOOLEAN]
FlowType == [st : {"none", "sent", "saveAccess", "saveRefresh", "me"}, pair : PairOrNone]
CallType == [kind : Kinds, token : PairOrNone, retried : BOOLEAN,
             pc : {"idle", "sent", "served", "waiting", "clearAccess", "clearRefresh",
                   "outAccess", "outRefresh"}]
StoreType == [access : PairOrNone, refresh : PairOrNone]
Statements == {"idle", "find", "revoke", "insert", "revokeAll", "softDelete"}

ServerType ==
  /\ token \in [Pairs -> TokenType]
  /\ stale \subseteq Pairs /\ account \in {"active", "deleted"}
  /\ pc \in [Handlers -> Statements]
  /\ job \in [Handlers -> JobType]
AppType ==
  /\ store \in [Devices -> StoreType]
  /\ session \in [Devices -> {"unknown", "in", "out"}]
  /\ flow \in [Devices -> [Flows -> FlowType]]
  /\ call \in [Devices -> [Calls -> CallType]]
BoundType == faults \in 0..MaxFaults /\ outs \in 0..MaxOuts

\* What the next statement of a request says about its job.
JobOK(h) ==
  /\ pc[h] = "idle" <=> job[h] = NoJob
  /\ pc[h] # "idle" => job[h].device \in Devices
  /\ pc[h] \in {"find", "revoke"} => job[h].op = "refresh"
  /\ pc[h] = "insert" => job[h].op \in {"login", "refresh"}
  /\ pc[h] \in {"revokeAll", "softDelete"} => job[h].op = "delete"
  /\ job[h].op = "refresh" <=> job[h].pair # None

TypeInv == ServerType /\ AppType /\ BoundType /\ \A h \in Handlers : JobOK(h)

LEMMA TypeInvTypeOK == TypeInv => TypeOK
BY DEF TypeInv, TypeOK, ServerType, AppType, BoundType, JobOK, TokenType, JobType, FlowType,
       CallType, StoreType, Statements

LEMMA TypeInit == Init => TypeInv
<1> SUFFICES ASSUME Init PROVE TypeInv
  OBVIOUS
<1>1. /\ NoToken \in TokenType /\ NoJob \in JobType /\ NoFlow \in FlowType
      /\ NoCall \in CallType /\ NoStore \in StoreType
  BY DEF NoToken, TokenType, NoJob, JobType, NoFlow, FlowType, NoCall, CallType, NoStore, StoreType,
         PairOrNone, Kinds
<1>2. ServerType
  BY <1>1 DEF Init, ServerType, Statements
<1>3. AppType
  BY <1>1 DEF Init, AppType, NoFlows
<1>4. BoundType
  BY SessionsAssumption DEF Init, BoundType
<1>5. \A h \in Handlers : JobOK(h)
  BY DEF Init, JobOK, NoJob
<1> QED
  BY <1>2, <1>3, <1>4, <1>5 DEF TypeInv

-----------------------------------------------------------------------------
(* Jobs. *)

JobsOK == \A h \in Handlers : JobOK(h)

LEMMA OneJob ==
  ASSUME TypeInv, NEW h \in Handlers, JobOK(h)',
         \A g \in Handlers \ {h} : pc'[g] = pc[g] /\ job'[g] = job[g]
  PROVE  JobsOK'
<1>1. ASSUME NEW g \in Handlers \ {h} PROVE JobOK(g)'
  BY <1>1 DEF TypeInv, JobOK
<1> QED
  BY <1>1 DEF JobsOK

LEMMA SameJobs == ASSUME TypeInv, UNCHANGED <<pc, job>> PROVE JobsOK'
BY DEF TypeInv, JobsOK, JobOK

LEMMA ServeJob ==
  ASSUME TypeInv, NEW h \in Handlers, NEW p \in Statements, NEW j \in JobType, Serve(h, p, j),
         j.device \in Devices,
         \/ p = "find" /\ j.op = "refresh" /\ j.pair \in Pairs
         \/ p = "insert" /\ j.op = "login" /\ j.pair = None
         \/ p = "revokeAll" /\ j.op = "delete" /\ j.pair = None
  PROVE  pc' \in [Handlers -> Statements] /\ job' \in [Handlers -> JobType] /\ JobsOK'
<1>1. pc' \in [Handlers -> Statements] /\ job' \in [Handlers -> JobType]
  BY DEF Serve, TypeInv, ServerType
<1>2. pc'[h] = p /\ job'[h] = j
  BY DEF Serve, TypeInv, ServerType
<1>3. JobOK(h)'
  BY <1>2, SessionsAssumption DEF JobOK, NoJob
<1> QED
  BY <1>1, <1>3, OneJob DEF Serve, TypeInv, ServerType

LEMMA LeaveJob ==
  ASSUME TypeInv, NEW h \in Handlers, Leave(h)
  PROVE  pc' \in [Handlers -> Statements] /\ job' \in [Handlers -> JobType] /\ JobsOK'
<1>1. NoJob \in JobType
  BY DEF NoJob, JobType, PairOrNone
<1>2. pc' \in [Handlers -> Statements] /\ job' \in [Handlers -> JobType]
  BY <1>1 DEF Leave, TypeInv, ServerType, Statements
<1>3. JobOK(h)'
  BY DEF Leave, TypeInv, ServerType, JobOK, NoJob
<1> QED
  BY <1>2, <1>3, OneJob DEF Leave, TypeInv, ServerType

\* From one statement to the next; a field of the job that JobOK does not speak of may change.
LEMMA StepJob ==
  ASSUME TypeInv, NEW h \in Handlers, NEW from \in Statements, NEW to \in Statements,
         Step(h, from, to), NEW b \in BOOLEAN,
         job' = job \/ job' = [job EXCEPT ![h].known = b],
         \/ from = "find" /\ to = "revoke"
         \/ from = "revoke" /\ to = "insert"
         \/ from = "revokeAll" /\ to = "softDelete"
  PROVE  pc' \in [Handlers -> Statements] /\ job' \in [Handlers -> JobType] /\ JobsOK'
<1>1. job \in [Handlers -> JobType] /\ pc \in [Handlers -> Statements]
  BY DEF TypeInv, ServerType
<1>2. pc' \in [Handlers -> Statements] /\ job' \in [Handlers -> JobType]
  BY <1>1 DEF Step, JobType
<1>3. /\ pc[h] = from /\ pc'[h] = to /\ job'[h].op = job[h].op
      /\ job'[h].device = job[h].device /\ job'[h].pair = job[h].pair
  BY <1>1 DEF Step, JobType
<1>4. JobOK(h)'
  BY <1>3 DEF TypeInv, JobOK, NoJob
<1> QED
  BY <1>1, <1>2, <1>4, OneJob DEF Step

-----------------------------------------------------------------------------
(* What the server and the app write. *)

LEMMA RevokedType == ASSUME TypeInv, NEW S PROVE Revoked(S) \in [Pairs -> TokenType]
BY DEF Revoked, TypeInv, ServerType, TokenType

CallPCs == {"idle", "sent", "served", "waiting", "clearAccess", "clearRefresh",
            "outAccess", "outRefresh"}

LEMMA CallFields ==
  ASSUME NEW k \in CallType, NEW to \in CallPCs
  PROVE  /\ [k EXCEPT !.pc = to] \in CallType
         /\ \A p \in PairOrNone : [k EXCEPT !.pc = to, !.token = p, !.retried = TRUE] \in CallType
BY DEF CallType, CallPCs

LEMMA NoCallType == NoCall \in CallType
BY DEF NoCall, CallType, Kinds, PairOrNone

\* One call of one device is set.
LEMMA CallSet ==
  ASSUME AppType, NEW d \in Devices, NEW c \in Calls, NEW k \in CallType,
         call' = [call EXCEPT ![d][c] = k]
  PROVE  call' \in [Devices -> [Calls -> CallType]]
BY DEF AppType

LEMMA FlowSet ==
  ASSUME AppType, NEW d \in Devices, NEW f \in Flows, NEW k \in FlowType,
         flow' = [flow EXCEPT ![d][f] = k]
  PROVE  flow' \in [Devices -> [Flows -> FlowType]]
BY DEF AppType

LEMMA FlowStateSet ==
  ASSUME AppType, NEW d \in Devices, NEW f \in Flows,
         NEW st \in {"none", "sent", "saveAccess", "saveRefresh", "me"},
         flow' = [flow EXCEPT ![d][f].st = st]
  PROVE  flow' \in [Devices -> [Flows -> FlowType]]
<1>1. flow[d][f] \in FlowType
  BY DEF AppType
<1>2. \A k \in FlowType : [k EXCEPT !.st = st] \in FlowType
  BY DEF FlowType
<1>3. flow' = [flow EXCEPT ![d][f] = [flow[d][f] EXCEPT !.st = st]]
  OBVIOUS
<1> QED
  BY <1>1, <1>2, <1>3, FlowSet

LEMMA StoreSet ==
  ASSUME AppType, NEW d \in Devices, NEW p \in PairOrNone,
         store' = [store EXCEPT ![d].access = p] \/ store' = [store EXCEPT ![d].refresh = p]
  PROVE  store' \in [Devices -> StoreType]
BY DEF AppType, StoreType

LEMMA ResumeType ==
  ASSUME AppType, NEW d \in Devices, NEW to \in CallPCs, NEW p \in PairOrNone
  PROVE  Resume(d, to, p) \in [Devices -> [Calls -> CallType]]
<1> DEFINE of == [c \in Calls |->
             IF call[d][c].pc # "waiting" THEN call[d][c]
             ELSE [call[d][c] EXCEPT !.pc = to, !.token = p, !.retried = TRUE]]
<1>1. \A c \in Calls : call[d][c] \in CallType
  BY DEF AppType
<1>2. of \in [Calls -> CallType]
  BY <1>1, CallFields
<1>3. Resume(d, to, p) = [call EXCEPT ![d] = of]
  BY DEF Resume
<1> HIDE DEF of
<1> QED
  BY <1>2, <1>3 DEF AppType

LEMMA AwaitType ==
  ASSUME AppType, NEW d \in Devices, NEW c \in Calls, NEW to \in CallPCs, Await(d, c, to)
  PROVE  call' \in [Devices -> [Calls -> CallType]]
<1>1. call[d][c] \in CallType
  BY DEF AppType
<1>2. [call[d][c] EXCEPT !.pc = to] \in CallType
  BY <1>1, CallFields
<1> QED
  BY <1>2, CallSet DEF Await

LEMMA EndType ==
  ASSUME AppType, NEW d \in Devices, NEW c \in Calls, NEW ok \in BOOLEAN, End(d, c, ok)
  PROVE  /\ call' \in [Devices -> [Calls -> CallType]]
         /\ session' \in [Devices -> {"unknown", "in", "out"}]
<1>1. call[d][c] \in CallType
  BY DEF AppType
<1>2. [call[d][c] EXCEPT !.pc = "outAccess"] \in CallType
  BY <1>1, CallFields DEF CallPCs
<1>3. \/ call' = [call EXCEPT ![d][c] = [call[d][c] EXCEPT !.pc = "outAccess"]]
      \/ call' = [call EXCEPT ![d][c] = NoCall]
  BY DEF End
<1>4. call' \in [Devices -> [Calls -> CallType]]
  BY <1>2, <1>3, NoCallType, CallSet
<1>5. session' \in [Devices -> {"unknown", "in", "out"}]
  BY DEF End, AppType
<1> QED
  BY <1>4, <1>5

LEMMA HearPairType ==
  ASSUME TypeInv, NEW h \in Handlers, pc[h] = "insert", NEW q \in Pairs, HearPair(h, q)
  PROVE  AppType'
<1>1. job[h].device \in Devices /\ job[h].op \in Flows
  BY DEF TypeInv, JobOK, Flows
<1>2. [st |-> "saveAccess", pair |-> q] \in FlowType
  BY DEF FlowType, PairOrNone
<1>3. flow' \in [Devices -> [Flows -> FlowType]]
  BY <1>1, <1>2, FlowSet DEF HearPair, TypeInv, AppType
<1> QED
  BY <1>3 DEF HearPair, TypeInv, AppType

LEMMA HearRefusalType ==
  ASSUME TypeInv, NEW h \in Handlers, pc[h] # "idle", HearRefusal(h)
  PROVE  AppType'
<1>1. job[h].device \in Devices
  BY DEF TypeInv, JobOK
<1>2. NoFlow \in FlowType /\ "refresh" \in Flows
  BY DEF NoFlow, FlowType, Flows, PairOrNone
<1>3. flow' \in [Devices -> [Flows -> FlowType]]
  BY <1>1, <1>2, FlowSet DEF HearRefusal, TypeInv, AppType
<1>4. call' \in [Devices -> [Calls -> CallType]]
  BY <1>1, ResumeType DEF HearRefusal, TypeInv, AppType, CallPCs, PairOrNone
<1> QED
  BY <1>3, <1>4 DEF HearRefusal, TypeInv, AppType

LEMMA SameApp == ASSUME TypeInv, UNCHANGED app PROVE AppType'
BY DEF TypeInv, AppType, app

-----------------------------------------------------------------------------
(* Steps of the server. *)

LEMMA SameBounds == ASSUME TypeInv, UNCHANGED <<faults, outs>> PROVE BoundType'
BY DEF TypeInv, BoundType

LEMMA FindType ==
  ASSUME TypeInv, NEW h \in Handlers, Find(h)
  PROVE  TypeInv'
<1>1. UNCHANGED <<token, stale, account, faults, outs>> /\ pc[h] = "find"
  BY DEF Find
<1>2. CASE token[job[h].pair].live
  <2>1. /\ Step(h, "find", "revoke") /\ UNCHANGED app
        /\ job' = [job EXCEPT ![h].known = (account = "active")]
    BY <1>2 DEF Find
  <2>2. (account = "active") \in BOOLEAN
    OBVIOUS
  <2>3. pc' \in [Handlers -> Statements] /\ job' \in [Handlers -> JobType] /\ JobsOK'
    BY <2>1, <2>2, StepJob DEF Statements
  <2> QED
    BY <1>1, <2>1, <2>3, SameApp, SameBounds DEF TypeInv, ServerType, JobsOK
<1>3. CASE ~token[job[h].pair].live
  BY <1>1, <1>3, LeaveJob, HearRefusalType, SameBounds DEF Find, TypeInv, ServerType, JobsOK
<1> QED
  BY <1>2, <1>3

LEMMA RevokeType ==
  ASSUME TypeInv, NEW h \in Handlers, Revoke(h) \/ RevokeAll(h)
  PROVE  TypeInv'
<1>1. UNCHANGED <<stale, account, job, app, faults, outs>>
  BY DEF Revoke, RevokeAll
<1>2. token' \in [Pairs -> TokenType]
  BY RevokedType DEF Revoke, RevokeAll
<1>3. pc' \in [Handlers -> Statements] /\ job' \in [Handlers -> JobType] /\ JobsOK'
  BY StepJob DEF Revoke, RevokeAll, Statements
<1> QED
  BY <1>1, <1>2, <1>3, SameApp, SameBounds DEF TypeInv, ServerType, JobsOK

LEMMA InsertType ==
  ASSUME TypeInv, NEW h \in Handlers, Insert(h)
  PROVE  TypeInv'
<1>1. pc[h] = "insert" /\ Leave(h) /\ UNCHANGED <<account, faults, outs>>
  BY DEF Insert
<1>2. CASE job[h].known
  <2> DEFINE q == CHOOSE p \in Unused : TRUE
             issued == [device |-> job[h].device, live |-> TRUE, uses |-> 0]
  <2>1. q \in Pairs /\ HearPair(h, q)
    BY <1>2 DEF Insert, Unused
  <2>2. issued \in TokenType /\ NoToken \in TokenType
    BY <1>1 DEF TypeInv, JobOK, TokenType, NoToken
  <2>3. /\ token' = [p \in Pairs |->
             IF p = q THEN issued
             ELSE IF p = job[h].pair THEN [token[p] EXCEPT !.uses = token[p].uses + 1]
             ELSE IF p \in Unused THEN NoToken ELSE token[p]]
        /\ stale' = stale \ Unused
    BY <1>2 DEF Insert
  <2>4. \A p \in Pairs : [token[p] EXCEPT !.uses = token[p].uses + 1] \in TokenType
    BY DEF TypeInv, ServerType, TokenType
  <2> HIDE DEF q, issued
  <2>5. token' \in [Pairs -> TokenType] /\ stale' \subseteq Pairs
    BY <2>2, <2>3, <2>4 DEF TypeInv, ServerType
  <2>6. AppType'
    BY <1>1, <2>1, HearPairType
  <2> QED
    BY <1>1, <2>5, <2>6, LeaveJob, SameBounds DEF TypeInv, ServerType, JobsOK
<1>3. CASE ~job[h].known
  <2>1. HearRefusal(h) /\ UNCHANGED <<token, stale>>
    BY <1>3 DEF Insert
  <2>2. AppType'
    BY <1>1, <2>1, HearRefusalType
  <2> QED
    BY <1>1, <2>1, <2>2, LeaveJob, SameBounds DEF TypeInv, ServerType, JobsOK
<1> QED
  BY <1>2, <1>3

LEMMA SoftDeleteType ==
  ASSUME TypeInv, NEW h \in Handlers, SoftDelete(h)
  PROVE  TypeInv'
<1>1. /\ pc[h] = "softDelete" /\ Leave(h) /\ account' = "deleted"
      /\ UNCHANGED <<token, stale, store, flow, faults, outs>>
  BY DEF SoftDelete
<1>2. job[h].device \in Devices
  BY <1>1 DEF TypeInv, JobOK
<1>3. AppType'
  <2>1. CASE UNCHANGED <<session, call>>
    BY <1>1, <2>1 DEF TypeInv, AppType
  <2>2. CASE \E c \in Calls : End(job[h].device, c, TRUE)
    BY <1>1, <1>2, <2>2, EndType DEF TypeInv, AppType
  <2> QED
    BY <2>1, <2>2 DEF SoftDelete
<1> QED
  BY <1>1, <1>3, LeaveJob, SameBounds DEF TypeInv, ServerType, JobsOK

LEMMA ServerStepType ==
  ASSUME TypeInv, NEW h \in Handlers, ServerStep(h)
  PROVE  TypeInv'
BY FindType, RevokeType, InsertType, SoftDeleteType DEF ServerStep

-----------------------------------------------------------------------------
(* Steps of the app. *)

\* A step of the app that the server takes no part in.
LEMMA AppOnly ==
  ASSUME TypeInv, UNCHANGED server, AppType', BoundType'
  PROVE  TypeInv'
BY SameJobs DEF TypeInv, ServerType, JobsOK, server

LEMMA AcceptedType ==
  ASSUME TypeInv, NEW d \in Devices, NEW c \in Calls, Accepted(d, c)
  PROVE  TypeInv'
<1>1. UNCHANGED <<stale, account, pc, job, store, flow, faults, outs>> /\ End(d, c, TRUE)
  BY DEF Accepted
<1>2. token' \in [Pairs -> TokenType]
  BY RevokedType DEF Accepted, TypeInv, ServerType
<1>3. AppType'
  BY <1>1, EndType DEF TypeInv, AppType
<1> QED
  BY <1>1, <1>2, <1>3, SameJobs, SameBounds DEF TypeInv, ServerType, JobsOK

LEMMA DeleteType ==
  ASSUME TypeInv, NEW d \in Devices, NEW c \in Calls, NEW h \in Handlers, Delete(d, c, h)
  PROVE  TypeInv'
<1> DEFINE j == [NoJob EXCEPT !.op = "delete", !.device = d, !.heard = TRUE]
<1>1. j \in JobType /\ j.device = d /\ j.op = "delete" /\ j.pair = None
  BY DEF NoJob, JobType, PairOrNone
<1>2. Serve(h, "revokeAll", j)
  BY DEF Delete
<1> HIDE DEF j
<1>3. pc' \in [Handlers -> Statements] /\ job' \in [Handlers -> JobType] /\ JobsOK'
  BY <1>1, <1>2, ServeJob DEF Statements
<1>4. UNCHANGED <<token, stale, account, store, session, flow, faults, outs>> /\ Await(d, c, "served")
  BY DEF Delete, Await
<1>5. AppType'
  BY <1>4, AwaitType DEF TypeInv, AppType, CallPCs
<1> QED
  BY <1>3, <1>4, <1>5, SameBounds DEF TypeInv, ServerType, JobsOK

LEMMA StartRefreshType ==
  ASSUME TypeInv, NEW d \in Devices, NEW c \in Calls, StartRefresh(d, c)
  PROVE  TypeInv'
<1>1. UNCHANGED <<token, stale, account, store, session, faults, outs>>
  BY DEF StartRefresh
<1>2. CASE store[d].refresh = None
  <2>1. Await(d, c, "clearAccess") /\ UNCHANGED <<pc, job, flow>>
    BY <1>2 DEF StartRefresh
  <2>2. AppType'
    BY <1>1, <2>1, AwaitType DEF TypeInv, AppType, CallPCs
  <2> QED
    BY <1>1, <2>1, <2>2, SameJobs, SameBounds DEF TypeInv, ServerType, JobsOK
<1>3. CASE store[d].refresh # None
  <2> DEFINE j == [NoJob EXCEPT !.op = "refresh", !.device = d, !.pair = store[d].refresh, !.heard = TRUE]
  <2>1. store[d].refresh \in Pairs
    BY <1>3 DEF TypeInv, AppType, StoreType, PairOrNone
  <2>2. j \in JobType /\ j.device = d /\ j.op = "refresh" /\ j.pair \in Pairs
    BY <2>1 DEF NoJob, JobType, PairOrNone
  <2>3. PICK h \in Handlers : Serve(h, "find", j)
    BY <1>3 DEF StartRefresh
  <2>4. flow' = [flow EXCEPT ![d]["refresh"].st = "sent"] /\ Await(d, c, "waiting")
    BY <1>3 DEF StartRefresh
  <2> HIDE DEF j
  <2>5. pc' \in [Handlers -> Statements] /\ job' \in [Handlers -> JobType] /\ JobsOK'
    BY <2>2, <2>3, ServeJob DEF Statements
  <2>6. flow' \in [Devices -> [Flows -> FlowType]]
    BY <2>4, FlowStateSet DEF TypeInv, Flows
  <2>7. AppType'
    BY <1>1, <2>4, <2>6, AwaitType DEF TypeInv, AppType, CallPCs
  <2> QED
    BY <1>1, <2>5, <2>7, SameBounds DEF TypeInv, ServerType, JobsOK
<1> QED
  BY <1>2, <1>3

LEMMA GiveUpType ==
  ASSUME TypeInv, NEW d \in Devices, NEW c \in Calls, GiveUp(d, c) \/ JoinRefresh(d, c)
  PROVE  TypeInv'
<1>1. UNCHANGED <<server, store, flow, faults, outs>>
  BY DEF GiveUp, JoinRefresh
<1>2. AppType'
  <2>1. CASE GiveUp(d, c)
    BY <2>1, EndType DEF GiveUp, TypeInv, AppType
  <2>2. CASE JoinRefresh(d, c)
    BY <2>2, AwaitType DEF JoinRefresh, TypeInv, AppType, CallPCs
  <2> QED
    BY <2>1, <2>2
<1> QED
  BY <1>1, <1>2, AppOnly, SameBounds

LEMMA ClearType ==
  ASSUME TypeInv, NEW d \in Devices, NEW c \in Calls, ClearAccess(d, c) \/ ClearRefresh(d, c)
  PROVE  TypeInv'
<1>1. UNCHANGED <<server, flow, faults, outs>>
  BY DEF ClearAccess, ClearRefresh
<1>2. store' \in [Devices -> StoreType]
  BY StoreSet DEF ClearAccess, ClearRefresh, TypeInv, PairOrNone
<1>3. call' \in [Devices -> [Calls -> CallType]] /\ session' \in [Devices -> {"unknown", "in", "out"}]
  <2>1. CASE ClearAccess(d, c)
    BY <2>1, AwaitType DEF ClearAccess, TypeInv, AppType, CallPCs
  <2>2. CASE ClearRefresh(d, c)
    <3>1. call[d][c] \in CallType
      BY DEF TypeInv, AppType
    <3>2. [call[d][c] EXCEPT !.pc = "outAccess"] \in CallType
      BY <3>1, CallFields DEF CallPCs
    <3>3. \/ call' = [call EXCEPT ![d][c] = [call[d][c] EXCEPT !.pc = "outAccess"]]
          \/ call' = [call EXCEPT ![d][c] = NoCall]
      BY <2>2 DEF ClearRefresh
    <3>4. call' \in [Devices -> [Calls -> CallType]]
      BY <3>2, <3>3, NoCallType, CallSet DEF TypeInv
    <3> QED
      BY <2>2, <3>4 DEF ClearRefresh, TypeInv, AppType
  <2> QED
    BY <2>1, <2>2
<1> QED
  BY <1>1, <1>2, <1>3, AppOnly, SameBounds DEF TypeInv, AppType

LEMMA CallStepType ==
  ASSUME TypeInv, NEW d \in Devices, NEW c \in Calls, CallStep(d, c)
  PROVE  TypeInv'
BY AcceptedType, DeleteType, StartRefreshType, GiveUpType, ClearType DEF CallStep

LEMMA SaveType ==
  ASSUME TypeInv, NEW d \in Devices, NEW f \in Flows, SaveAccess(d, f) \/ SaveRefresh(d, f)
  PROVE  TypeInv'
<1>1. UNCHANGED <<server, session, faults, outs>>
  BY DEF SaveAccess, SaveRefresh
<1>2. flow[d][f].pair \in PairOrNone /\ store[d].access \in PairOrNone
  BY DEF TypeInv, AppType, FlowType, StoreType
<1>3. store' \in [Devices -> StoreType]
  BY <1>2, StoreSet DEF SaveAccess, SaveRefresh, TypeInv
<1>4. NoFlow \in FlowType /\ [st |-> "me", pair |-> None] \in FlowType
  BY DEF NoFlow, FlowType, PairOrNone
<1>5. flow' \in [Devices -> [Flows -> FlowType]]
  BY <1>4, FlowSet, FlowStateSet DEF SaveAccess, SaveRefresh, TypeInv
<1>6. call' \in [Devices -> [Calls -> CallType]]
  <2>1. \/ call' = call
        \/ call' = Resume(d, "sent", flow[d][f].pair)
        \/ call' = Resume(d, "sent", store[d].access)
    BY DEF SaveAccess, SaveRefresh
  <2>2. "sent" \in CallPCs
    BY DEF CallPCs
  <2> QED
    BY <1>2, <2>1, <2>2, ResumeType DEF TypeInv, AppType
<1> QED
  BY <1>1, <1>3, <1>5, <1>6, AppOnly, SameBounds DEF TypeInv, AppType

\* A call that is sent with the access token in storage.
LEMMA SentType ==
  ASSUME TypeInv, NEW d \in Devices, NEW k \in Kinds
  PROVE  [NoCall EXCEPT !.kind = k, !.pc = "sent", !.token = store[d].access] \in CallType
<1>1. store[d].access \in PairOrNone
  BY DEF TypeInv, AppType, StoreType
<1> QED
  BY <1>1 DEF NoCall, CallType

LEMMA SendMeType ==
  ASSUME TypeInv, NEW d \in Devices, NEW c \in Calls, SendMe(d, c) \/ Restore(d, c)
  PROVE  TypeInv'
<1>1. UNCHANGED <<server, store, faults, outs>>
  BY DEF SendMe, Restore
<1>2. NoFlow \in FlowType
  BY DEF NoFlow, FlowType, PairOrNone
<1>3. flow' \in [Devices -> [Flows -> FlowType]]
  BY <1>2, FlowSet DEF SendMe, Restore, TypeInv, AppType, Flows
<1>4. call' \in [Devices -> [Calls -> CallType]]
  <2>1. \/ call' = call
        \/ \E k \in Kinds : call' = [call EXCEPT ![d][c] =
             [NoCall EXCEPT !.kind = k, !.pc = "sent", !.token = store[d].access]]
    BY DEF SendMe, Restore, Kinds
  <2> QED
    BY <2>1, SentType, CallSet DEF TypeInv, AppType
<1>5. session' \in [Devices -> {"unknown", "in", "out"}]
  BY DEF SendMe, Restore, TypeInv, AppType
<1> QED
  BY <1>1, <1>3, <1>4, <1>5, AppOnly, SameBounds DEF TypeInv, AppType

LEMMA StartCallType ==
  ASSUME TypeInv, NEW d \in Devices, NEW c \in Calls, NEW k \in Kinds, StartCall(d, c, k)
  PROVE  TypeInv'
<1>1. UNCHANGED <<server, store, session, flow, faults>>
  BY DEF StartCall
<1>2. call' \in [Devices -> [Calls -> CallType]]
  BY SentType, CallSet DEF StartCall, TypeInv
<1>3. BoundType'
  BY SessionsAssumption DEF StartCall, TypeInv, BoundType
<1> QED
  BY <1>1, <1>2, <1>3, AppOnly DEF TypeInv, AppType

LEMMA LoginType ==
  ASSUME TypeInv, NEW d \in Devices, NEW h \in Handlers, Login(d, h)
  PROVE  TypeInv'
<1> DEFINE j == [NoJob EXCEPT !.op = "login", !.device = d, !.heard = TRUE]
<1>1. j \in JobType /\ j.device = d /\ j.op = "login" /\ j.pair = None
  BY DEF NoJob, JobType, PairOrNone
<1>2. Serve(h, "insert", j)
  BY DEF Login
<1> HIDE DEF j
<1>3. pc' \in [Handlers -> Statements] /\ job' \in [Handlers -> JobType] /\ JobsOK'
  BY <1>1, <1>2, ServeJob DEF Statements
<1>4. flow' \in [Devices -> [Flows -> FlowType]]
  BY FlowStateSet DEF Login, TypeInv, Flows
<1>5. UNCHANGED <<token, stale, account, store, session, call, faults, outs>>
  BY DEF Login
<1> QED
  BY <1>3, <1>4, <1>5, SameBounds DEF TypeInv, ServerType, AppType, JobsOK

-----------------------------------------------------------------------------
(* What happens to them. *)

\* Requests that the app lets go of stay the requests they are.
LEMMA UnheardJobs ==
  ASSUME TypeInv, NEW S,
         job' = [h \in Handlers |-> IF h \in S THEN [job[h] EXCEPT !.heard = FALSE] ELSE job[h]],
         \A h \in S \intersect Handlers : pc[h] # "idle", UNCHANGED pc
  PROVE  job' \in [Handlers -> JobType] /\ JobsOK'
<1>1. job \in [Handlers -> JobType] /\ \A k \in JobType : [k EXCEPT !.heard = FALSE] \in JobType
  BY DEF TypeInv, ServerType, JobType
<1>2. \A h \in Handlers : /\ job'[h].op = job[h].op /\ job'[h].device = job[h].device
                          /\ job'[h].pair = job[h].pair
                          /\ h \notin S => job'[h] = job[h]
  BY <1>1 DEF JobType
<1>3. ASSUME NEW h \in Handlers PROVE JobOK(h)'
  <2>1. CASE h \in S
    <3>1. pc[h] # "idle" /\ pc'[h] = pc[h] /\ JobOK(h)
      BY <2>1 DEF TypeInv
    <3>2. job'[h].device # NoJob.device
      BY <1>2, <3>1, SessionsAssumption DEF JobOK, NoJob
    <3> QED
      BY <1>2, <3>1, <3>2 DEF JobOK
  <2>2. CASE h \notin S
    BY <1>2, <2>2 DEF TypeInv, JobOK
  <2> QED
    BY <2>1, <2>2
<1> QED
  BY <1>1, <1>3 DEF JobsOK

LEMMA KillType ==
  ASSUME TypeInv, NEW d \in Devices, Kill(d)
  PROVE  TypeInv'
<1>1. UNCHANGED <<token, stale, account, pc, store, outs>>
  BY DEF Kill
<1> DEFINE S == {h \in Handlers : job[h].device = d}
<1>2. \A h \in S : pc[h] # "idle"
  BY SessionsAssumption DEF TypeInv, JobOK, NoJob
<1>3. job' = [h \in Handlers |-> IF h \in S THEN [job[h] EXCEPT !.heard = FALSE] ELSE job[h]]
  BY DEF Kill
<1>4. job' \in [Handlers -> JobType] /\ JobsOK'
  <2> HIDE DEF S
  <2> QED
    BY <1>1, <1>2, <1>3, UnheardJobs
<1>5. NoFlow \in FlowType
  BY DEF NoFlow, FlowType, PairOrNone
<1>6. AppType'
  BY <1>5, NoCallType DEF Kill, TypeInv, AppType, NoFlows
<1>7. BoundType'
  BY SessionsAssumption DEF Kill, TypeInv, BoundType
<1> QED
  BY <1>1, <1>4, <1>6, <1>7 DEF TypeInv, ServerType, JobsOK

LEMMA DisconnectType ==
  ASSUME TypeInv, NEW h \in Handlers, Disconnect(h)
  PROVE  TypeInv'
<1>1. UNCHANGED <<token, stale, account, pc, store, outs>>
  BY DEF Disconnect
<1>2. pc[h] # "idle" /\ job[h].device \in Devices /\ job[h].op \in {"login", "refresh", "delete"}
  <2>1. job[h].heard
    BY DEF Disconnect
  <2>2. pc[h] \in Statements /\ JobOK(h)
    BY DEF TypeInv, ServerType
  <2> QED
    BY <2>1, <2>2 DEF JobOK, NoJob, Statements
<1>3. job' \in [Handlers -> JobType] /\ JobsOK'
  <2> DEFINE S == {h}
  <2>1. job' = [g \in Handlers |-> IF g \in S THEN [job[g] EXCEPT !.heard = FALSE] ELSE job[g]]
    BY DEF Disconnect, TypeInv, ServerType
  <2>2. \A g \in S \intersect Handlers : pc[g] # "idle"
    BY <1>2
  <2> HIDE DEF S
  <2> QED
    BY <1>1, <2>1, <2>2, UnheardJobs
<1>4. NoFlow \in FlowType /\ "login" \in Flows /\ "refresh" \in Flows
  BY DEF NoFlow, FlowType, PairOrNone, Flows
<1>5. AppType'
  <2>1. CASE job[h].op = "login"
    BY <1>1, <1>2, <1>4, <2>1, FlowSet DEF Disconnect, TypeInv, AppType
  <2>2. CASE job[h].op = "refresh"
    <3>1. /\ flow' = [flow EXCEPT ![job[h].device]["refresh"] = NoFlow]
          /\ call' = Resume(job[h].device, "clearAccess", None) /\ UNCHANGED session
      BY <2>2 DEF Disconnect
    <3>2. call' \in [Devices -> [Calls -> CallType]]
      BY <1>2, <3>1, ResumeType DEF TypeInv, CallPCs, PairOrNone
    <3> QED
      BY <1>1, <1>2, <1>4, <3>1, <3>2, FlowSet DEF TypeInv, AppType
  <2>3. CASE job[h].op = "delete"
    BY <1>1, <1>2, <2>3, EndType DEF Disconnect, TypeInv, AppType
  <2> QED
    BY <1>2, <2>1, <2>2, <2>3
<1>6. BoundType'
  BY SessionsAssumption DEF Disconnect, TypeInv, BoundType
<1> QED
  BY <1>1, <1>3, <1>5, <1>6 DEF TypeInv, ServerType, JobsOK

LEMMA LoseType ==
  ASSUME TypeInv, NEW d \in Devices, NEW c \in Calls, Lose(d, c)
  PROVE  TypeInv'
<1>1. UNCHANGED <<stale, account, pc, job, store, flow, outs>> /\ End(d, c, FALSE)
  BY DEF Lose
<1>2. token' \in [Pairs -> TokenType]
  BY RevokedType DEF Lose, TypeInv, ServerType
<1>3. AppType'
  BY <1>1, EndType DEF TypeInv, AppType
<1>4. BoundType'
  BY SessionsAssumption DEF Lose, TypeInv, BoundType
<1> QED
  BY <1>1, <1>2, <1>3, <1>4, SameJobs DEF TypeInv, ServerType, JobsOK

LEMMA ExpiryType ==
  ASSUME TypeInv,
         (\E p \in Pairs : AccessExpires(p)) \/ (\E S \in SUBSET Pairs : TokensEnd(S)) \/ UNCHANGED vars
  PROVE  TypeInv'
<1>1. UNCHANGED <<account, pc, job, app, faults>>
  BY DEF AccessExpires, TokensEnd, vars, server
<1>2. token' \in [Pairs -> TokenType] /\ stale' \subseteq Pairs
  BY RevokedType DEF AccessExpires, TokensEnd, vars, server, TypeInv, ServerType
<1>3. BoundType'
  BY SessionsAssumption DEF AccessExpires, TokensEnd, vars, TypeInv, BoundType
<1> QED
  BY <1>1, <1>2, <1>3, SameApp, SameJobs DEF TypeInv, ServerType, JobsOK

LEMMA TypeStep == TypeInv /\ [Next]_vars => TypeInv'
<1> SUFFICES ASSUME TypeInv, [Next]_vars PROVE TypeInv'
  OBVIOUS
<1>1. CASE \E h \in Handlers : ServerStep(h) \/ Disconnect(h)
  BY <1>1, ServerStepType, DisconnectType
<1>2. CASE \E d \in Devices, c \in Calls : CallStep(d, c) \/ Lose(d, c)
  BY <1>2, CallStepType, LoseType
<1>3. CASE \E d \in Devices : FlowStep(d) \/ UserStep(d) \/ Kill(d)
  BY <1>3, SaveType, SendMeType, StartCallType, LoginType, KillType DEF FlowStep, UserStep
<1>4. CASE (\E p \in Pairs : AccessExpires(p) \/ TokensEnd({p})) \/ TokensEnd(Pairs) \/ UNCHANGED vars
  BY <1>4, ExpiryType
<1> QED
  BY <1>1, <1>2, <1>3, <1>4 DEF Next

LEMMA TypeAlways == Spec => []TypeInv
BY TypeInit, TypeStep, PTL DEF Spec

\* Every table, every request and every app's memory stays well formed, and a request slot is
\* busy exactly as long as it has a request, whatever is lost, killed or refused.
THEOREM TypeCorrect == Spec => []TypeOK
BY TypeAlways, TypeInvTypeOK, PTL

-----------------------------------------------------------------------------
(* DeletedStaysOut: only Find lets a request know the user, and it looks   *)
(* at the account; only Insert makes a pair, and its request is over.      *)

Out == Knowing' \subseteq Knowing /\ (Live' \subseteq Live \/ Knowing' # Knowing)

LEMMA RevokedShrinks ==
  ASSUME TypeInv, NEW S, token' = Revoked(S)
  PROVE  Live' \subseteq Live
BY DEF TypeInv, ServerType, TokenType, Revoked, Live

LEMMA SameKnowing ==
  ASSUME UNCHANGED pc, \A g \in Handlers : job'[g].known = job[g].known
  PROVE  Knowing' = Knowing
BY DEF Knowing

LEMMA ServerStepOut ==
  ASSUME TypeInv, account = "deleted", NEW h \in Handlers, ServerStep(h)
  PROVE  Out
<1>1. pc \in [Handlers -> Statements] /\ job \in [Handlers -> JobType] /\ token \in [Pairs -> TokenType]
  BY DEF TypeInv, ServerType
<1>2. CASE Find(h)
  <2>1. UNCHANGED token /\ pc[h] = "find"
    BY <1>2 DEF Find
  <2>2. h \notin Knowing'
    <3>1. CASE token[job[h].pair].live
      <4>1. (account = "active") = FALSE
        OBVIOUS
      <4>2. job' = [job EXCEPT ![h].known = FALSE]
        BY <1>2, <3>1, <4>1 DEF Find
      <4>3. ~job'[h].known
        BY <1>1, <4>2 DEF JobType
      <4> QED
        BY <4>3 DEF Knowing
    <3>2. CASE ~token[job[h].pair].live
      BY <1>1, <1>2, <3>2 DEF Find, Leave, Knowing
    <3> QED
      BY <3>1, <3>2
  <2>3. \A g \in Handlers \ {h} : pc'[g] = pc[g] /\ job'[g] = job[g]
    BY <1>1, <1>2 DEF Find, Step, Leave
  <2> QED
    BY <2>1, <2>2, <2>3 DEF Out, Knowing, Live
<1>3. CASE Revoke(h)
  <2>1. Live' \subseteq Live
    BY <1>3, RevokedShrinks DEF Revoke
  <2>2. UNCHANGED job /\ pc[h] = "revoke" /\ pc' = [pc EXCEPT ![h] = "insert"]
    BY <1>3 DEF Revoke, Step
  <2> QED
    BY <1>1, <2>1, <2>2 DEF Out, Knowing
<1>4. CASE Insert(h)
  <2>1. pc[h] = "insert" /\ pc' = [pc EXCEPT ![h] = "idle"] /\ job' = [job EXCEPT ![h] = NoJob]
    BY <1>4 DEF Insert, Leave
  <2>2. Knowing' \subseteq Knowing /\ h \notin Knowing'
    BY <1>1, <2>1 DEF Knowing
  <2>3. CASE job[h].known
    BY <2>1, <2>2, <2>3 DEF Out, Knowing
  <2>4. CASE ~job[h].known
    BY <1>4, <2>2, <2>4 DEF Insert, Out, Live
  <2> QED
    BY <2>3, <2>4
<1>5. CASE RevokeAll(h)
  <2>1. Live' \subseteq Live
    BY <1>5, RevokedShrinks DEF RevokeAll
  <2>2. UNCHANGED job /\ pc[h] = "revokeAll" /\ pc' = [pc EXCEPT ![h] = "softDelete"]
    BY <1>5 DEF RevokeAll, Step
  <2> QED
    BY <1>1, <2>1, <2>2 DEF Out, Knowing
<1>6. CASE SoftDelete(h)
  BY <1>1, <1>6 DEF SoftDelete, Leave, Out, Knowing, Live
<1> QED
  BY <1>2, <1>3, <1>4, <1>5, <1>6 DEF ServerStep

LEMMA StartRefreshOut ==
  ASSUME TypeInv, NEW d \in Devices, NEW c \in Calls, StartRefresh(d, c)
  PROVE  Out
<1>1. UNCHANGED token
  BY DEF StartRefresh
<1>2. \/ UNCHANGED <<pc, job>>
      \/ \E h \in Handlers, j \in {[NoJob EXCEPT !.op = "refresh", !.device = d,
                                    !.pair = store[d].refresh, !.heard = TRUE]} : Serve(h, "find", j)
  BY DEF StartRefresh
<1>3. Knowing' \subseteq Knowing
  BY <1>2 DEF Serve, Knowing, TypeInv, ServerType
<1> QED
  BY <1>1, <1>3 DEF Out, Live

LEMMA OthersOut ==
  ASSUME TypeInv, UNCHANGED pc, \A g \in Handlers : job'[g].known = job[g].known,
         Live' \subseteq Live
  PROVE  Out
BY SameKnowing DEF Out

LEMMA OutStep == TypeInv /\ account = "deleted" /\ [Next]_vars => Out
<1> SUFFICES ASSUME TypeInv, account = "deleted", [Next]_vars PROVE Out
  OBVIOUS
<1>1. CASE \E h \in Handlers : ServerStep(h)
  BY <1>1, ServerStepOut
<1>2. CASE \E d \in Devices, c \in Calls : StartRefresh(d, c)
  BY <1>2, StartRefreshOut
<1>3. CASE \E h \in Handlers : Disconnect(h)
  <2>1. UNCHANGED <<pc, token>> /\ \A g \in Handlers : job'[g].known = job[g].known
    BY <1>3 DEF Disconnect, TypeInv, ServerType, JobType
  <2> QED
    BY <2>1, OthersOut DEF Live
<1>4. CASE \E d \in Devices : Kill(d)
  <2>1. UNCHANGED <<pc, token>> /\ \A g \in Handlers : job'[g].known = job[g].known
    BY <1>4 DEF Kill, TypeInv, ServerType, JobType
  <2> QED
    BY <2>1, OthersOut DEF Live
<1>5. CASE \/ \E d \in Devices, c \in Calls : Accepted(d, c) \/ Lose(d, c)
           \/ \E S \in SUBSET Pairs : TokensEnd(S)
  <2>1. UNCHANGED <<pc, job>> /\ (UNCHANGED token \/ \E S \in SUBSET Pairs : token' = Revoked(S))
    BY <1>5 DEF Accepted, Lose, TokensEnd, OfDevice
  <2>2. Live' \subseteq Live
    BY <2>1, RevokedShrinks DEF Live
  <2> QED
    BY <2>1, <2>2, OthersOut
<1>6. CASE UNCHANGED <<pc, job, token>>
  BY <1>6, OthersOut DEF Live
<1>7. ASSUME NEW d \in Devices
      PROVE  /\ \A c \in Calls : CallStep(d, c) =>
                  Accepted(d, c) \/ StartRefresh(d, c) \/ UNCHANGED <<pc, job, token>>
             /\ FlowStep(d) \/ UserStep(d) => UNCHANGED <<pc, job, token>>
  <2>1. ASSUME NEW c \in Calls, CallStep(d, c)
        PROVE  Accepted(d, c) \/ StartRefresh(d, c) \/ UNCHANGED <<pc, job, token>>
    BY <2>1 DEF CallStep, Delete, GiveUp, JoinRefresh, ClearAccess, ClearRefresh, server
  <2>2. ASSUME FlowStep(d) \/ UserStep(d)
        PROVE  UNCHANGED <<pc, job, token>>
    BY <2>2 DEF FlowStep, UserStep, SaveAccess, SaveRefresh, SendMe, Restore, StartCall, Login, server
  <2> QED
    BY <2>1, <2>2
<1>8. ASSUME NEW p \in Pairs, AccessExpires(p)
      PROVE  UNCHANGED <<pc, job, token>>
  BY <1>8 DEF AccessExpires
<1>9. UNCHANGED vars => UNCHANGED <<pc, job, token>>
  BY DEF vars, server
<1> QED
  BY <1>1, <1>2, <1>3, <1>4, <1>5, <1>6, <1>7, <1>8, <1>9 DEF Next

\* Once an account is deleted no request gets to know its user, and a device whose refresh token
\* outlived the account cannot prolong its session (AuthService.refresh, softDeleteUser).
THEOREM DeletedOut == Spec => DeletedStaysOut
<1>1. TypeInv /\ [Next]_vars =>
        [account = "deleted" => Knowing' \subseteq Knowing /\ (Live' \subseteq Live \/ Knowing' # Knowing)]_vars
  BY OutStep DEF Out
<1> QED
  BY <1>1, TypeAlways, PTL DEF Spec, DeletedStaysOut

-----------------------------------------------------------------------------
(* SingleUse.  As long as nothing has failed, the app waits for every      *)
(* refresh it asked for (Asks) and asks for one at a time (Alone), so the  *)
(* check and the revocation of a row cannot be interleaved with those of   *)
(* another request for the same row, and a used row is dead (Once).        *)

Asks(h) ==
  /\ job[h].op # "none" => job[h].heard
  /\ job[h].op = "login" => job[h].known
  /\ job[h].op = "refresh" =>
       /\ flow[job[h].device]["refresh"].st = "sent"
       /\ token[job[h].pair].device = job[h].device
       /\ pc[h] \in {"revoke", "insert"} => token[job[h].pair].uses = 0
       /\ pc[h] = "insert" => ~token[job[h].pair].live

Alone ==
  \A g, h \in Handlers :
    job[g].op = "refresh" /\ job[h].op = "refresh" /\ job[g].device = job[h].device => g = h

\* What a device keeps or is about to keep was issued to it.
Owns(d) ==
  /\ store[d].refresh # None => token[store[d].refresh].device = d
  /\ \A f \in Flows : flow[d][f].pair # None => token[flow[d][f].pair].device = d

Once == \A p \in Pairs : token[p].uses <= 1 /\ (token[p].uses = 1 => ~token[p].live)

Rotation ==
  /\ Alone /\ Once
  /\ \A h \in Handlers : Asks(h)
  /\ \A d \in Devices : Owns(d)

LEMMA SameRotation ==
  ASSUME TypeInv, Rotation, UNCHANGED <<token, pc, job, flow>>,
         \A d \in Devices : store'[d].refresh \in {store[d].refresh, None}
  PROVE  Rotation'
<1>1. Alone' /\ Once' /\ \A h \in Handlers : Asks(h)'
  BY DEF Rotation, Alone, Once, Asks
<1>2. ASSUME NEW d \in Devices PROVE Owns(d)'
  BY <1>2 DEF Rotation, Owns
<1> QED
  BY <1>1, <1>2 DEF Rotation

LEMMA RevokedRotation ==
  ASSUME TypeInv, Rotation, NEW S, token' = Revoked(S), UNCHANGED <<pc, job, flow, store>>
  PROVE  Rotation'
<1>1. \A p \in Pairs : /\ token'[p].device = token[p].device /\ token'[p].uses = token[p].uses
                       /\ token'[p].live => token[p].live
  BY DEF TypeInv, ServerType, TokenType, Revoked
<1>2. Alone' /\ Once'
  BY <1>1 DEF Rotation, Alone, Once
<1>3. ASSUME NEW h \in Handlers PROVE Asks(h)'
  <2>1. job[h].op = "refresh" => job[h].pair \in Pairs
    BY DEF TypeInv, ServerType, JobType, JobOK, PairOrNone
  <2> QED
    BY <1>1, <2>1 DEF Rotation, Asks
<1>4. ASSUME NEW d \in Devices PROVE Owns(d)'
  <2>1. store[d].refresh \in PairOrNone /\ \A f \in Flows : flow[d][f].pair \in PairOrNone
    BY DEF TypeInv, AppType, StoreType, FlowType
  <2> QED
    BY <1>1, <2>1 DEF Rotation, Owns, PairOrNone
<1> QED
  BY <1>2, <1>3, <1>4 DEF Rotation

\* A request ends that asked for no refresh, or whose app no longer waits for it.
LEMMA LeaveRotation ==
  ASSUME TypeInv, Rotation, NEW h \in Handlers, Leave(h), UNCHANGED <<token, store>>,
         \/ flow' = flow
         \/ /\ job[h].op = "refresh"
            /\ flow' = [flow EXCEPT ![job[h].device]["refresh"] = NoFlow]
  PROVE  Rotation'
<1>1. /\ pc \in [Handlers -> Statements] /\ job \in [Handlers -> JobType]
      /\ flow \in [Devices -> [Flows -> FlowType]]
  BY DEF TypeInv, ServerType, AppType
<1>2. /\ pc'[h] = "idle" /\ job'[h].op = "none"
      /\ \A g \in Handlers \ {h} : pc'[g] = pc[g] /\ job'[g] = job[g]
  BY <1>1 DEF Leave, NoJob
<1>3. Alone' /\ Once'
  BY <1>2 DEF Rotation, Alone, Once
<1>4. ASSUME NEW g \in Handlers PROVE Asks(g)'
  <2>1. CASE g = h
    BY <1>2, <2>1 DEF Asks
  <2>2. CASE g # h
    <3>1. job'[g] = job[g] /\ pc'[g] = pc[g]
      BY <1>2, <2>2
    <3>2. job[g].op = "refresh" => job[g].device \in Devices
      BY DEF TypeInv, JobOK, NoJob
    <3>3. job[g].op = "refresh" => flow'[job[g].device]["refresh"] = flow[job[g].device]["refresh"]
      BY <1>1, <2>2, <3>2 DEF Rotation, Alone
    <3> QED
      BY <3>1, <3>3 DEF Rotation, Asks
  <2> QED
    BY <2>1, <2>2
<1>5. ASSUME NEW d \in Devices PROVE Owns(d)'
  <2>1. ASSUME NEW f \in Flows PROVE flow'[d][f].pair \in {flow[d][f].pair, None}
    BY <1>1, <2>1 DEF NoFlow
  <2> QED
    BY <2>1 DEF Rotation, Owns
<1> QED
  BY <1>3, <1>4, <1>5 DEF Rotation

\* A request goes on: nothing it or another one has asked for changes.
LEMMA FindRotation ==
  ASSUME TypeInv, Rotation, NEW h \in Handlers, Find(h)
  PROVE  Rotation'
<1>1. /\ pc \in [Handlers -> Statements] /\ job \in [Handlers -> JobType]
      /\ pc[h] = "find" /\ job[h].op = "refresh" /\ job[h].heard /\ job[h].pair \in Pairs
  BY DEF Find, TypeInv, ServerType, JobType, JobOK, PairOrNone, Rotation, Asks
<1>2. CASE token[job[h].pair].live
  <2>1. /\ UNCHANGED <<token, flow, store>>
        /\ pc' = [pc EXCEPT ![h] = "revoke"]
        /\ job' = [job EXCEPT ![h].known = (account = "active")]
    BY <1>2 DEF Find, Step, app
  <2>2. /\ \A g \in Handlers : /\ job'[g].op = job[g].op /\ job'[g].device = job[g].device
                               /\ job'[g].pair = job[g].pair /\ job'[g].heard = job[g].heard
        /\ \A g \in Handlers \ {h} : job'[g] = job[g] /\ pc'[g] = pc[g]
        /\ pc'[h] = "revoke"
    BY <1>1, <2>1 DEF JobType
  <2>3. token[job[h].pair].uses = 0
    <3>1. token[job[h].pair].uses \in Nat
      BY <1>1 DEF TypeInv, ServerType, TokenType
    <3>2. token[job[h].pair].uses <= 1 /\ token[job[h].pair].uses # 1
      BY <1>1, <1>2 DEF Rotation, Once
    <3> QED
      BY <3>1, <3>2
  <2>4. Alone' /\ Once' /\ \A d \in Devices : Owns(d)'
    BY <2>1, <2>2 DEF Rotation, Alone, Once, Owns
  <2>5. ASSUME NEW g \in Handlers PROVE Asks(g)'
    BY <1>1, <2>1, <2>2, <2>3 DEF Rotation, Asks
  <2> QED
    BY <2>4, <2>5 DEF Rotation
<1>3. CASE ~token[job[h].pair].live
  BY <1>1, <1>3, LeaveRotation DEF Find, HearRefusal
<1> QED
  BY <1>2, <1>3

LEMMA RevokeRotation ==
  ASSUME TypeInv, Rotation, NEW h \in Handlers, Revoke(h)
  PROVE  Rotation'
<1>1. /\ pc \in [Handlers -> Statements] /\ job[h].op = "refresh" /\ job[h].pair \in Pairs
      /\ pc[h] = "revoke" /\ pc' = [pc EXCEPT ![h] = "insert"]
      /\ token' = Revoked({job[h].pair}) /\ UNCHANGED <<job, flow, store>>
  BY DEF Revoke, Step, app, TypeInv, ServerType, JobType, JobOK, PairOrNone
<1>2. /\ \A p \in Pairs : /\ token'[p].device = token[p].device /\ token'[p].uses = token[p].uses
                          /\ token'[p].live => token[p].live
      /\ ~token'[job[h].pair].live
      /\ pc'[h] = "insert" /\ \A g \in Handlers \ {h} : pc'[g] = pc[g]
  BY <1>1 DEF TypeInv, ServerType, TokenType, Revoked
<1>3. Alone' /\ Once'
  BY <1>1, <1>2 DEF Rotation, Alone, Once
<1>4. ASSUME NEW g \in Handlers PROVE Asks(g)'
  <2>1. job[g].op = "refresh" => job[g].pair \in Pairs
    BY DEF TypeInv, ServerType, JobType, JobOK, PairOrNone
  <2>2. /\ Asks(g) /\ job'[g] = job[g] /\ flow' = flow
        /\ job[g].op = "refresh" =>
             /\ token'[job[g].pair].device = token[job[g].pair].device
             /\ token'[job[g].pair].uses = token[job[g].pair].uses
             /\ token'[job[g].pair].live => token[job[g].pair].live
    BY <1>1, <1>2, <2>1 DEF Rotation
  <2>3. CASE g = h
    <3>1. pc[g] = "revoke" /\ ~token'[job[g].pair].live
      BY <1>1, <1>2, <2>3
    <3> QED
      BY <2>2, <3>1 DEF Asks
  <2>4. CASE g # h
    <3>1. pc'[g] = pc[g]
      BY <1>2, <2>4
    <3> QED
      BY <2>2, <3>1 DEF Asks
  <2> QED
    BY <2>3, <2>4
<1>5. ASSUME NEW d \in Devices PROVE Owns(d)'
  <2>1. store[d].refresh \in PairOrNone /\ \A f \in Flows : flow[d][f].pair \in PairOrNone
    BY DEF TypeInv, AppType, StoreType, FlowType
  <2> QED
    BY <1>1, <1>2, <2>1 DEF Rotation, Owns, PairOrNone
<1> QED
  BY <1>3, <1>4, <1>5 DEF Rotation

\* The new row takes the place of one that nobody holds, so what is held keeps its row.
LEMMA IssueRotation ==
  ASSUME TypeInv, Rotation, NEW h \in Handlers, Insert(h), job[h].known
  PROVE  Rotation'
<1> DEFINE q == CHOOSE p \in Unused : TRUE
           d0 == job[h].device
           o0 == job[h].op
<1>1. /\ q \in Pairs /\ ~Held(q)
      /\ flow' = IF job[h].heard THEN [flow EXCEPT ![d0][o0] = [st |-> "saveAccess", pair |-> q]]
                                 ELSE flow
      /\ store' = store
  BY DEF Insert, Unused, HearPair
<1>2. \A p \in Pairs :
        token'[p] = IF p = q THEN [device |-> d0, live |-> TRUE, uses |-> 0]
                    ELSE IF p = job[h].pair THEN [token[p] EXCEPT !.uses = token[p].uses + 1]
                    ELSE IF p \in Unused THEN NoToken ELSE token[p]
  BY DEF Insert
<1>a. \A p \in Pairs : p = q => token'[p] = [device |-> d0, live |-> TRUE, uses |-> 0]
  BY <1>2
<1>b. \A p \in Pairs :
        p # q /\ p = job[h].pair => token'[p] = [token[p] EXCEPT !.uses = token[p].uses + 1]
  BY <1>2
<1>c. \A p \in Pairs : p # q /\ p # job[h].pair => token'[p] = token[p] \/ token'[p] = NoToken
  BY <1>2
<1>d. \A p \in Pairs : p # q /\ p # job[h].pair /\ Held(p) => token'[p] = token[p]
  BY <1>2 DEF Unused
<1> HIDE DEF q
<1>3. /\ pc \in [Handlers -> Statements] /\ job \in [Handlers -> JobType]
      /\ token \in [Pairs -> TokenType]
      /\ flow \in [Devices -> [Flows -> FlowType]] /\ store \in [Devices -> StoreType]
  BY DEF TypeInv, ServerType, AppType
<1>4. /\ pc[h] = "insert" /\ pc' = [pc EXCEPT ![h] = "idle"] /\ job' = [job EXCEPT ![h] = NoJob]
  BY DEF Insert, Leave
<1>5. /\ o0 \in Flows /\ d0 \in Devices /\ job[h].heard
  BY <1>4 DEF TypeInv, JobOK, Flows, Rotation, Asks
<1>6. /\ pc'[h] = "idle" /\ job'[h].op = "none"
      /\ \A g \in Handlers \ {h} : pc'[g] = pc[g] /\ job'[g] = job[g]
  BY <1>3, <1>4 DEF NoJob
<1>7. \A p \in Pairs : Held(p) => token'[p].device = token[p].device
  <2>1. ASSUME NEW p \in Pairs, p = job[h].pair, p # q PROVE token'[p].device = token[p].device
    <3>1. token'[p] = [token[p] EXCEPT !.uses = token[p].uses + 1]
      BY <1>b, <2>1
    <3> QED
      BY <1>3, <3>1 DEF TokenType
  <2> QED
    BY <1>1, <1>d, <2>1
<1>8. Alone'
  BY <1>6 DEF Rotation, Alone
<1>9. ASSUME NEW p \in Pairs PROVE token'[p].uses <= 1 /\ (token'[p].uses = 1 => ~token'[p].live)
  <2>1. CASE p = q
    <3>1. token'[p].uses = 0
      BY <1>a, <2>1
    <3> QED
      BY <3>1
  <2>2. CASE p # q /\ p = job[h].pair
    <3>1. o0 = "refresh"
      BY <2>2, SessionsAssumption DEF TypeInv, JobOK
    <3>2. token[p].uses = 0 /\ ~token[p].live
      BY <1>4, <2>2, <3>1 DEF Rotation, Asks
    <3>3. token'[p] = [token[p] EXCEPT !.uses = token[p].uses + 1]
      BY <1>b, <2>2
    <3>4. token'[p].uses = token[p].uses + 1 /\ token'[p].live = token[p].live
      BY <1>3, <3>3 DEF TokenType
    <3> QED
      BY <3>2, <3>4
  <2>3. CASE token'[p] = token[p]
    BY <2>3 DEF Rotation, Once
  <2>4. CASE token'[p] = NoToken
    <3>1. token'[p].uses = 0
      BY <2>4 DEF NoToken
    <3> QED
      BY <3>1
  <2> QED
    BY <1>c, <2>1, <2>2, <2>3, <2>4
<1>10. ASSUME NEW g \in Handlers PROVE Asks(g)'
  <2>1. CASE g = h
    BY <1>6, <2>1 DEF Asks
  <2>2. CASE g # h /\ job[g].op = "refresh"
    <3>1. job[g].pair \in Pairs /\ Held(job[g].pair) /\ job[g].device \in Devices
      BY <1>3, <2>2 DEF TypeInv, JobOK, NoJob, Held, JobType, PairOrNone
    <3>2. job[g].pair # job[h].pair /\ (o0 = "refresh" => job[g].device # d0)
      BY <2>2, <3>1, SessionsAssumption DEF Rotation, Alone, Asks, TypeInv, JobOK
    <3>3. token'[job[g].pair] = token[job[g].pair]
      BY <1>1, <1>d, <3>1, <3>2
    <3>4. flow'[job[g].device]["refresh"] = flow[job[g].device]["refresh"]
      BY <1>1, <1>3, <1>5, <3>1, <3>2 DEF Flows
    <3> QED
      BY <1>6, <2>2, <3>3, <3>4 DEF Rotation, Asks
  <2>3. CASE g # h /\ job[g].op # "refresh"
    BY <1>6, <2>3 DEF Rotation, Asks
  <2> QED
    BY <2>1, <2>2, <2>3
<1>11. ASSUME NEW d \in Devices PROVE Owns(d)'
  <2>1. store[d].refresh # None => token'[store[d].refresh].device = d
    BY <1>3, <1>7 DEF Rotation, Owns, Held, StoreType, PairOrNone
  <2>2. ASSUME NEW f \in Flows, flow'[d][f].pair # None
        PROVE  token'[flow'[d][f].pair].device = d
    <3>1. CASE d = d0 /\ f = o0
      <4>1. flow'[d][f].pair = q
        BY <1>1, <1>3, <1>5, <3>1
      <4> QED
        BY <1>1, <1>a, <3>1, <4>1
    <3>2. CASE ~(d = d0 /\ f = o0)
      <4>1. flow'[d][f] = flow[d][f]
        BY <1>1, <1>3, <1>5, <3>2
      <4>2. flow[d][f].pair \in Pairs
        BY <1>3, <2>2, <4>1 DEF FlowType, PairOrNone
      <4>3. Held(flow[d][f].pair)
        BY <2>2 DEF Held, Flows
      <4> QED
        BY <1>7, <2>2, <4>1, <4>2, <4>3 DEF Rotation, Owns
    <3> QED
      BY <3>1, <3>2
  <2> QED
    BY <1>1, <2>1, <2>2 DEF Owns
<1> QED
  BY <1>8, <1>9, <1>10, <1>11 DEF Rotation, Once

LEMMA InsertRotation ==
  ASSUME TypeInv, Rotation, NEW h \in Handlers, Insert(h)
  PROVE  Rotation'
<1>1. CASE job[h].known
  BY <1>1, IssueRotation
<1>2. CASE ~job[h].known
  <2>1. job[h].op = "refresh" /\ job[h].heard
    BY <1>2 DEF Insert, TypeInv, JobOK, Rotation, Asks
  <2> QED
    BY <1>2, <2>1, LeaveRotation DEF Insert, HearRefusal
<1> QED
  BY <1>1, <1>2

LEMMA DeletionRotation ==
  ASSUME TypeInv, Rotation, NEW h \in Handlers, RevokeAll(h) \/ SoftDelete(h)
  PROVE  Rotation'
<1>1. CASE RevokeAll(h)
  <2>1. /\ pc \in [Handlers -> Statements] /\ job[h].op = "delete"
        /\ pc' = [pc EXCEPT ![h] = "softDelete"]
        /\ token' = Revoked(Pairs) /\ UNCHANGED <<job, flow, store>>
    BY <1>1 DEF RevokeAll, Step, app, TypeInv, ServerType, JobOK
  <2>2. \A p \in Pairs : /\ token'[p].device = token[p].device /\ token'[p].uses = token[p].uses
                         /\ token'[p].live => token[p].live
    BY <2>1 DEF TypeInv, ServerType, TokenType, Revoked
  <2>3. Alone' /\ Once'
    BY <2>1, <2>2 DEF Rotation, Alone, Once
  <2>4. ASSUME NEW g \in Handlers PROVE Asks(g)'
    <3>1. job[g].op = "refresh" => job[g].pair \in Pairs /\ g # h
      BY <2>1 DEF TypeInv, ServerType, JobType, JobOK, PairOrNone
    <3> QED
      BY <2>1, <2>2, <3>1 DEF Rotation, Asks
  <2>5. ASSUME NEW d \in Devices PROVE Owns(d)'
    <3>1. store[d].refresh \in PairOrNone /\ \A f \in Flows : flow[d][f].pair \in PairOrNone
      BY DEF TypeInv, AppType, StoreType, FlowType
    <3> QED
      BY <2>1, <2>2, <3>1 DEF Rotation, Owns, PairOrNone
  <2> QED
    BY <2>3, <2>4, <2>5 DEF Rotation
<1>2. CASE SoftDelete(h)
  BY <1>2, LeaveRotation DEF SoftDelete
<1> QED
  BY <1>1, <1>2

\* A request begins that is not a refresh.
LEMMA ServeRotation ==
  ASSUME TypeInv, Rotation, NEW h \in Handlers, NEW p \in Statements, NEW j \in JobType,
         Serve(h, p, j), j.op \in {"login", "delete"}, j.heard, j.known, NEW d \in Devices,
         UNCHANGED <<token, store>>,
         flow' = flow \/ flow' = [flow EXCEPT ![d]["login"].st = "sent"]
  PROVE  Rotation'
<1>1. /\ pc \in [Handlers -> Statements] /\ job \in [Handlers -> JobType]
      /\ flow \in [Devices -> [Flows -> FlowType]]
  BY DEF TypeInv, ServerType, AppType
<1>2. job'[h] = j /\ \A g \in Handlers \ {h} : pc'[g] = pc[g] /\ job'[g] = job[g]
  BY <1>1 DEF Serve
<1>3. \A e \in Devices : /\ flow'[e]["refresh"] = flow[e]["refresh"]
                         /\ \A f \in Flows : flow'[e][f].pair = flow[e][f].pair
  BY <1>1 DEF Flows, FlowType
<1>4. Alone' /\ Once' /\ \A e \in Devices : Owns(e)'
  BY <1>2, <1>3 DEF Rotation, Alone, Once, Owns
<1>5. ASSUME NEW g \in Handlers PROVE Asks(g)'
  <2>1. CASE g = h
    BY <1>2, <2>1 DEF Asks
  <2>2. CASE g # h
    <3>1. job[g].op = "refresh" => job[g].device \in Devices
      BY DEF TypeInv, JobOK, NoJob
    <3> QED
      BY <1>2, <1>3, <2>2, <3>1 DEF Rotation, Asks
  <2> QED
    BY <2>1, <2>2
<1> QED
  BY <1>4, <1>5 DEF Rotation

\* Calls that wait share one refresh: none is under way when the next one is asked for.
LEMMA StartRefreshRotation ==
  ASSUME TypeInv, Rotation, NEW d \in Devices, NEW c \in Calls, StartRefresh(d, c)
  PROVE  Rotation'
<1>1. CASE UNCHANGED <<pc, job, flow>>
  BY <1>1, SameRotation DEF StartRefresh
<1>2. CASE ~UNCHANGED <<pc, job, flow>>
  <2> DEFINE j == [NoJob EXCEPT !.op = "refresh", !.device = d, !.pair = store[d].refresh,
                                !.heard = TRUE]
  <2>1. /\ store[d].refresh # None /\ UNCHANGED <<token, store>> /\ ~Refreshing(d)
        /\ flow' = [flow EXCEPT ![d]["refresh"].st = "sent"]
    BY <1>2 DEF StartRefresh
  <2>2. PICK h \in Handlers : Serve(h, "find", j)
    BY <1>2 DEF StartRefresh
  <2>3. /\ j.op = "refresh" /\ j.device = d /\ j.pair = store[d].refresh /\ j.heard
    BY DEF NoJob
  <2>4. /\ pc \in [Handlers -> Statements] /\ job \in [Handlers -> JobType]
        /\ flow \in [Devices -> [Flows -> FlowType]]
    BY DEF TypeInv, ServerType, AppType
  <2>5. /\ job'[h] = j /\ pc'[h] = "find"
        /\ \A g \in Handlers \ {h} : pc'[g] = pc[g] /\ job'[g] = job[g]
    BY <2>2, <2>4 DEF Serve
  <2> HIDE DEF j
  <2>6. \A g \in Handlers : job[g].op = "refresh" => job[g].device \in Devices \ {d}
    BY <2>1 DEF TypeInv, JobOK, NoJob, Rotation, Asks, Refreshing
  <2>7. Alone'
    BY <2>3, <2>5, <2>6 DEF Rotation, Alone
  <2>8. Once'
    BY <2>1 DEF Rotation, Once
  <2>9. \A e \in Devices, f \in Flows : flow'[e][f].pair = flow[e][f].pair
    BY <2>1, <2>4 DEF FlowType
  <2>10. \A e \in Devices : Owns(e)'
    BY <2>1, <2>9 DEF Rotation, Owns
  <2>11. /\ flow'[d]["refresh"].st = "sent"
         /\ \A e \in Devices \ {d} : flow'[e] = flow[e]
    BY <2>1, <2>4 DEF Flows, FlowType
  <2>12. ASSUME NEW g \in Handlers PROVE Asks(g)'
    <3>1. CASE g = h
      <4>1. token[store[d].refresh].device = d
        BY <2>1 DEF Rotation, Owns
      <4> QED
        BY <2>1, <2>3, <2>5, <2>11, <3>1, <4>1 DEF Asks
    <3>2. CASE g # h
      BY <2>1, <2>5, <2>6, <2>11, <3>2 DEF Rotation, Asks
    <3> QED
      BY <3>1, <3>2
  <2> QED
    BY <2>7, <2>8, <2>10, <2>12 DEF Rotation
<1> QED
  BY <1>1, <1>2

\* The app goes on with a pair it was answered: nobody is asked for another one.
LEMMA FlowRotation ==
  ASSUME TypeInv, Rotation, UNCHANGED <<token, pc, job>>,
         NEW d \in Devices, NEW f \in Flows, NEW x \in FlowType,
         flow' = [flow EXCEPT ![d][f] = x], x.pair \in {flow[d][f].pair, None},
         flow[d][f].st # "sent",
         \A e \in Devices : \/ store'[e].refresh = store[e].refresh
                            \/ e = d /\ store'[e].refresh = flow[d][f].pair
  PROVE  Rotation'
<1>1. flow \in [Devices -> [Flows -> FlowType]]
  BY DEF TypeInv, AppType
<1>2. Alone' /\ Once'
  BY DEF Rotation, Alone, Once
<1>3. ASSUME NEW e \in Devices PROVE Owns(e)'
  <2>1. \A g \in Flows : flow'[e][g].pair \in {flow[e][g].pair, None}
    BY <1>1
  <2> QED
    BY <2>1 DEF Rotation, Owns
<1>4. ASSUME NEW g \in Handlers PROVE Asks(g)'
  <2>1. job[g].op = "refresh" => job[g].device \in Devices /\ flow[job[g].device]["refresh"].st = "sent"
    BY DEF TypeInv, JobOK, NoJob, Rotation, Asks
  <2>2. job[g].op = "refresh" => flow'[job[g].device]["refresh"] = flow[job[g].device]["refresh"]
    BY <1>1, <2>1 DEF Flows
  <2> QED
    BY <2>2 DEF Rotation, Asks
<1> QED
  BY <1>2, <1>3, <1>4 DEF Rotation

LEMMA FlowStepRotation ==
  ASSUME TypeInv, Rotation, NEW d \in Devices, FlowStep(d)
  PROVE  Rotation'
<1>1. /\ flow \in [Devices -> [Flows -> FlowType]] /\ store \in [Devices -> StoreType]
      /\ NoFlow \in FlowType /\ NoFlow.pair = None /\ "login" \in Flows
  BY DEF TypeInv, AppType, NoFlow, FlowType, PairOrNone, Flows
<1>2. ASSUME NEW f \in Flows, SaveAccess(d, f) PROVE Rotation'
  <2> DEFINE x == [flow[d][f] EXCEPT !.st = "saveRefresh"]
  <2>1. x \in FlowType /\ x.pair = flow[d][f].pair
    BY <1>1 DEF FlowType
  <2>2. flow' = [flow EXCEPT ![d][f] = x] /\ flow[d][f].st # "sent"
    BY <1>1, <1>2 DEF SaveAccess
  <2>3. \A e \in Devices : store'[e].refresh = store[e].refresh
    BY <1>1, <1>2 DEF SaveAccess, StoreType
  <2>4. UNCHANGED <<token, pc, job>>
    BY <1>2 DEF SaveAccess, server
  <2> HIDE DEF x
  <2> QED
    BY <2>1, <2>2, <2>3, <2>4, FlowRotation
<1>3. ASSUME NEW f \in Flows, SaveRefresh(d, f) PROVE Rotation'
  <2>1. UNCHANGED <<token, pc, job>> /\ flow[d][f].st # "sent"
    BY <1>3 DEF SaveRefresh, server
  <2>2. PICK x \in {NoFlow, [st |-> "me", pair |-> None]} : flow' = [flow EXCEPT ![d][f] = x]
    BY <1>3 DEF SaveRefresh
  <2>3. x \in FlowType /\ x.pair = None
    BY <1>1 DEF FlowType, PairOrNone
  <2>4. \A e \in Devices : \/ store'[e].refresh = store[e].refresh
                           \/ e = d /\ store'[e].refresh = flow[d][f].pair
    BY <1>1, <1>3 DEF SaveRefresh, StoreType
  <2> QED
    BY <2>1, <2>2, <2>3, <2>4, FlowRotation
<1>4. ASSUME NEW c \in Calls, SendMe(d, c) PROVE Rotation'
  <2>1. /\ UNCHANGED <<token, pc, job, store>> /\ flow[d]["login"].st # "sent"
        /\ flow' = [flow EXCEPT ![d]["login"] = NoFlow]
    BY <1>4 DEF SendMe, server
  <2> QED
    BY <1>1, <2>1, FlowRotation
<1>5. ASSUME NEW c \in Calls, Restore(d, c) PROVE Rotation'
  BY <1>5, SameRotation DEF Restore, server
<1> QED
  BY <1>2, <1>3, <1>4, <1>5 DEF FlowStep

LEMMA CallStepRotation ==
  ASSUME TypeInv, Rotation, NEW d \in Devices, NEW c \in Calls, CallStep(d, c)
  PROVE  Rotation'
<1>1. CASE Accepted(d, c)
  <2>1. UNCHANGED <<pc, job, flow, store>> /\ (token' = token \/ token' = Revoked(OfDevice(d)))
    BY <1>1 DEF Accepted
  <2> QED
    BY <2>1, RevokedRotation, SameRotation
<1>2. ASSUME NEW h \in Handlers, Delete(d, c, h) PROVE Rotation'
  <2> DEFINE j == [NoJob EXCEPT !.op = "delete", !.device = d, !.heard = TRUE]
  <2>1. Serve(h, "revokeAll", j) /\ UNCHANGED <<token, store, flow>>
    BY <1>2 DEF Delete
  <2>2. j \in JobType /\ j.op = "delete" /\ j.heard /\ j.known
    BY DEF NoJob, JobType, PairOrNone
  <2> HIDE DEF j
  <2> QED
    BY <2>1, <2>2, ServeRotation DEF Statements
<1>3. CASE GiveUp(d, c) \/ JoinRefresh(d, c)
  BY <1>3, SameRotation DEF GiveUp, JoinRefresh, server
<1>4. CASE StartRefresh(d, c)
  BY <1>4, StartRefreshRotation
<1>5. CASE ClearAccess(d, c) \/ ClearRefresh(d, c)
  <2>1. UNCHANGED <<token, pc, job, flow>>
    BY <1>5 DEF ClearAccess, ClearRefresh, server
  <2>2. \A e \in Devices : store'[e].refresh \in {store[e].refresh, None}
    BY <1>5 DEF ClearAccess, ClearRefresh, TypeInv, AppType, StoreType
  <2> QED
    BY <2>1, <2>2, SameRotation
<1> QED
  BY <1>1, <1>2, <1>3, <1>4, <1>5 DEF CallStep

LEMMA UserStepRotation ==
  ASSUME TypeInv, Rotation, NEW d \in Devices, UserStep(d)
  PROVE  Rotation'
<1>1. ASSUME NEW c \in Calls, NEW k \in Kinds \ UserCalls, StartCall(d, c, k) PROVE Rotation'
  BY <1>1, SameRotation DEF StartCall, server
<1>2. ASSUME NEW h \in Handlers, Login(d, h) PROVE Rotation'
  <2> DEFINE j == [NoJob EXCEPT !.op = "login", !.device = d, !.heard = TRUE]
  <2>1. /\ Serve(h, "insert", j) /\ UNCHANGED <<token, store>>
        /\ flow' = [flow EXCEPT ![d]["login"].st = "sent"]
    BY <1>2 DEF Login
  <2>2. j \in JobType /\ j.op = "login" /\ j.heard /\ j.known
    BY DEF NoJob, JobType, PairOrNone
  <2> HIDE DEF j
  <2> QED
    BY <2>1, <2>2, ServeRotation DEF Statements
<1> QED
  BY <1>1, <1>2 DEF UserStep

Healthy == faults = 0 => Rotation

LEMMA RotationInit == Init => Rotation
<1> SUFFICES ASSUME Init PROVE Rotation
  OBVIOUS
<1>1. \A h \in Handlers : job[h].op = "none"
  BY DEF Init, NoJob
<1>2. \A p \in Pairs : token[p].uses = 0
  BY DEF Init, NoToken
<1>3. \A d \in Devices : store[d].refresh = None /\ \A f \in Flows : flow[d][f].pair = None
  BY DEF Init, NoStore, NoFlows, NoFlow
<1> QED
  BY <1>1, <1>2, <1>3 DEF Rotation, Alone, Once, Asks, Owns

LEMMA HealthyStep == TypeInv /\ Healthy /\ [Next]_vars => Healthy'
<1> SUFFICES ASSUME TypeInv, Healthy, [Next]_vars, faults' = 0 PROVE Rotation'
  BY DEF Healthy
<1>1. faults \in Nat
  BY SessionsAssumption DEF TypeInv, BoundType
<1>2. /\ \A h \in Handlers : ~Disconnect(h)
      /\ \A d \in Devices : ~Kill(d) /\ \A c \in Calls : ~Lose(d, c)
  <2>1. faults' # faults + 1
    BY <1>1
  <2> QED
    BY <2>1 DEF Disconnect, Kill, Lose
<1>3. CASE \E h \in Handlers : ServerStep(h)
  <2>1. PICK h \in Handlers : ServerStep(h)
    BY <1>3
  <2>2. Rotation
    BY <2>1 DEF ServerStep, Find, Revoke, Insert, RevokeAll, SoftDelete, Healthy
  <2> QED
    BY <2>1, <2>2, FindRotation, RevokeRotation, InsertRotation, DeletionRotation DEF ServerStep
<1>4. ASSUME NEW d \in Devices, NEW c \in Calls, CallStep(d, c) PROVE Rotation'
  <2>1. UNCHANGED faults
    BY <1>4 DEF CallStep, Accepted, Delete, GiveUp, JoinRefresh, StartRefresh, ClearAccess, ClearRefresh
  <2> QED
    BY <1>4, <2>1, CallStepRotation DEF Healthy
<1>5. ASSUME NEW d \in Devices, FlowStep(d) \/ UserStep(d) PROVE Rotation'
  <2>1. UNCHANGED faults
    BY <1>5 DEF FlowStep, SaveAccess, SaveRefresh, SendMe, Restore, UserStep, StartCall, Login
  <2> QED
    BY <1>5, <2>1, FlowStepRotation, UserStepRotation DEF Healthy
<1>6. ASSUME NEW p \in Pairs, AccessExpires(p) PROVE Rotation'
  BY <1>6, SameRotation DEF AccessExpires, app, Healthy
<1>7. ASSUME NEW S \in SUBSET Pairs, TokensEnd(S) PROVE Rotation'
  BY <1>7, RevokedRotation DEF TokensEnd, app, Healthy
<1>8. CASE UNCHANGED vars
  BY <1>8, SameRotation DEF vars, server, app, Healthy
<1> QED
  BY <1>2, <1>3, <1>4, <1>5, <1>6, <1>7, <1>8 DEF Next

\* A refresh token is exchanged at most once for as long as no connection is lost and no app is
\* killed, although AuthService.refresh checks a row and revokes it in two statements.
THEOREM UsedOnce == Spec => []SingleUse
<1>1. Init => Healthy
  BY RotationInit DEF Healthy
<1>2. Healthy => SingleUse
  BY DEF Healthy, Rotation, Once, SingleUse
<1> QED
  BY <1>1, <1>2, HealthyStep, TypeAlways, PTL DEF Spec
-----------------------------------------------------------------------------
(* NeverForcedOut.  As long as nothing has failed and nobody has logged    *)
(* out, no request that an app waits for is refused (AskOK), as the token  *)
(* it presents was issued to its device and nobody else exchanges it       *)
(* (Rotation); and between two refreshes the halves in storage are those   *)
(* of one pair that can still be exchanged (StoreOK), although they are    *)
(* written one after the other while calls go on (FlowOK).                 *)

\* A call ends, or waits to be repeated; who is not logged in only asks who he is.
CallOK(d, c) ==
  /\ call[d][c].pc \in {"idle", "sent", "waiting"} /\ call[d][c].kind \in {"api", "me"}
  /\ session[d] = "unknown" \/ flow[d]["login"].st # "none" => call[d][c].pc = "idle"
  /\ call[d][c].pc # "idle" /\ session[d] # "in" => call[d][c].kind = "me"

Busy(d) == \E c \in Calls : call[d][c].pc # "idle"
Usable(p) == p \in Pairs /\ token[p].live

PlaceOK(d) ==
  /\ session[d] = "unknown" => store[d].access = None
  /\ session[d] \in {"unknown", "in"} => flow[d]["login"].st = "none"
  /\ flow[d]["refresh"].st # "none" => \E c \in Calls : call[d][c].pc = "waiting"

StoreOK(d) ==
  flow[d]["refresh"].st = "none" /\ (session[d] = "in" \/ Busy(d) \/ flow[d]["login"].st = "me") =>
    store[d].access = store[d].refresh /\ Usable(store[d].refresh)

FlowOK(d, f) ==
  /\ flow[d][f].st \in {"saveAccess", "saveRefresh"} => Usable(flow[d][f].pair)
  /\ flow[d][f].st = "saveRefresh" => store[d].access = flow[d][f].pair

DeviceOK(d) ==
  /\ PlaceOK(d) /\ StoreOK(d)
  /\ \A c \in Calls : CallOK(d, c)
  /\ \A f \in Flows : FlowOK(d, f)

AskOK(h) ==
  /\ job[h].op \in {"none", "login", "refresh"}
  /\ job[h].op = "login" => flow[job[h].device]["login"].st = "sent"
  /\ pc[h] = "find" => token[job[h].pair].live
  /\ pc[h] \in {"revoke", "insert"} => job[h].known

LoginAlone ==
  \A g, h \in Handlers :
    job[g].op = "login" /\ job[h].op = "login" /\ job[g].device = job[h].device => g = h

Answered == LoginAlone /\ \A h \in Handlers : AskOK(h)

Undisturbed == account = "active" /\ Answered /\ \A d \in Devices : DeviceOK(d)
\* The pairs device d relies on.
Relies(d, p) ==
  \/ flow[d]["refresh"].st = "none" /\ p = store[d].refresh
  \/ \E f \in Flows : flow[d][f].st \in {"saveAccess", "saveRefresh"} /\ p = flow[d][f].pair

LEMMA SameDevice ==
  ASSUME NEW d \in Devices, DeviceOK(d),
         store'[d] = store[d], session'[d] = session[d], flow'[d] = flow[d], call'[d] = call[d],
         \A p \in Pairs : token[p].live /\ Relies(d, p) => token'[p].live
  PROVE  DeviceOK(d)'
<1>1. PlaceOK(d)' /\ \A c \in Calls : CallOK(d, c)'
  BY DEF DeviceOK, PlaceOK, CallOK
<1>2. StoreOK(d)'
  BY DEF DeviceOK, StoreOK, Busy, Usable, Relies
<1>3. \A f \in Flows : FlowOK(d, f)'
  BY DEF DeviceOK, FlowOK, Usable, Relies
<1> QED
  BY <1>1, <1>2, <1>3 DEF DeviceOK

\* A request is at work on no pair that a device relies on.
LEMMA ReliedOnApart ==
  ASSUME TypeInv, Rotation, NEW h \in Handlers, job[h].op = "refresh",
         NEW d \in Devices, DeviceOK(d), NEW p \in Pairs, Relies(d, p)
  PROVE  job[h].pair # p
<1> SUFFICES ASSUME job[h].pair = p PROVE FALSE
  OBVIOUS
<1>0. p # None
  BY SessionsAssumption
<1>1. token[p].device = d
  BY <1>0 DEF Relies, Rotation, Owns
<1>2. job[h].device = d /\ flow[d]["refresh"].st = "sent"
  BY <1>1 DEF Rotation, Asks
<1>3. flow[d]["login"].st = "none"
  BY <1>2 DEF DeviceOK, PlaceOK, CallOK
<1> QED
  BY <1>2, <1>3 DEF Relies, Flows

LEMMA SameAnswered ==
  ASSUME TypeInv, Rotation, Answered, UNCHANGED <<token, pc, job>>,
         \A d \in Devices : flow[d]["login"].st = "sent" => flow'[d]["login"].st = "sent"
  PROVE  Answered'
<1>1. LoginAlone'
  BY DEF Answered, LoginAlone
<1>2. ASSUME NEW h \in Handlers PROVE AskOK(h)'
  <2>1. job[h].op = "login" => job[h].device \in Devices
    BY DEF TypeInv, JobOK, NoJob
  <2> QED
    BY <2>1 DEF Answered, AskOK
<1> QED
  BY <1>1, <1>2 DEF Answered

LEMMA FindUndisturbed ==
  ASSUME TypeInv, Rotation, Undisturbed, NEW h \in Handlers, Find(h)
  PROVE  Undisturbed'
<1>1. /\ pc \in [Handlers -> Statements] /\ job \in [Handlers -> JobType]
      /\ pc[h] = "find" /\ token[job[h].pair].live /\ account = "active"
  BY DEF Find, TypeInv, ServerType, Undisturbed, Answered, AskOK
<1>2. /\ UNCHANGED <<token, account, app>>
      /\ pc' = [pc EXCEPT ![h] = "revoke"] /\ job' = [job EXCEPT ![h].known = TRUE]
  BY <1>1 DEF Find, Step
<1>3. /\ \A g \in Handlers : /\ job'[g].op = job[g].op /\ job'[g].device = job[g].device
                             /\ job'[g].pair = job[g].pair
      /\ \A g \in Handlers \ {h} : job'[g] = job[g] /\ pc'[g] = pc[g]
      /\ pc'[h] = "revoke" /\ job'[h].known
  BY <1>1, <1>2 DEF JobType
<1>4. LoginAlone'
  BY <1>3 DEF Undisturbed, Answered, LoginAlone
<1>5. ASSUME NEW g \in Handlers PROVE AskOK(g)'
  BY <1>2, <1>3 DEF Undisturbed, Answered, AskOK, app
<1>6. ASSUME NEW d \in Devices PROVE DeviceOK(d)'
  BY <1>2, SameDevice DEF Undisturbed, app
<1> QED
  BY <1>1, <1>2, <1>4, <1>5, <1>6 DEF Undisturbed, Answered

LEMMA RevokeUndisturbed ==
  ASSUME TypeInv, Rotation, Undisturbed, NEW h \in Handlers, Revoke(h)
  PROVE  Undisturbed'
<1>1. /\ pc \in [Handlers -> Statements] /\ job[h].op = "refresh" /\ job[h].pair \in Pairs
      /\ pc[h] = "revoke" /\ pc' = [pc EXCEPT ![h] = "insert"]
      /\ token' = Revoked({job[h].pair}) /\ UNCHANGED <<account, job, app>>
  BY DEF Revoke, Step, TypeInv, ServerType, JobType, JobOK, PairOrNone
<1>2. /\ \A p \in Pairs \ {job[h].pair} : token'[p] = token[p]
      /\ pc'[h] = "insert" /\ \A g \in Handlers \ {h} : pc'[g] = pc[g]
  BY <1>1 DEF Revoked
<1>3. LoginAlone'
  BY <1>1 DEF Undisturbed, Answered, LoginAlone
<1>4. ASSUME NEW g \in Handlers PROVE AskOK(g)'
  <2>1. AskOK(g) /\ job' = job /\ flow' = flow
    BY <1>1 DEF Undisturbed, Answered, app
  <2>2. CASE g = h
    BY <1>1, <1>2, <2>1, <2>2 DEF AskOK
  <2>3. CASE g # h
    <3>1. pc[g] = "find" => /\ job[g].op = "refresh" /\ job[g].pair \in Pairs
                            /\ job[g].pair # job[h].pair
      BY <1>1, <2>3 DEF TypeInv, ServerType, JobType, JobOK, PairOrNone, Rotation, Alone, Asks
    <3> QED
      BY <1>2, <2>1, <2>3, <3>1 DEF AskOK
  <2> QED
    BY <2>2, <2>3
<1>5. ASSUME NEW d \in Devices PROVE DeviceOK(d)'
  <2>1. \A p \in Pairs : token[p].live /\ Relies(d, p) => token'[p].live
    BY <1>1, <1>2, ReliedOnApart DEF Undisturbed
  <2> QED
    BY <1>1, <2>1, SameDevice DEF Undisturbed, app
<1> QED
  BY <1>1, <1>3, <1>4, <1>5 DEF Undisturbed, Answered

\* The new pair goes to the device that has waited for it, in place of one that nobody holds.
LEMMA InsertUndisturbed ==
  ASSUME TypeInv, Rotation, Undisturbed, NEW h \in Handlers, Insert(h)
  PROVE  Undisturbed'
<1> DEFINE d0 == job[h].device
           o0 == job[h].op
<1>1. /\ pc \in [Handlers -> Statements] /\ job \in [Handlers -> JobType]
      /\ token \in [Pairs -> TokenType]
      /\ flow \in [Devices -> [Flows -> FlowType]] /\ store \in [Devices -> StoreType]
  BY DEF TypeInv, ServerType, AppType
<1>2. /\ job[h].known /\ job[h].heard /\ o0 \in Flows /\ d0 \in Devices
      /\ flow[d0][o0].st = "sent" /\ UNCHANGED <<account, store, session, call>>
      /\ pc' = [pc EXCEPT ![h] = "idle"] /\ job' = [job EXCEPT ![h] = NoJob]
  BY DEF Insert, Leave, HearPair, TypeInv, JobOK, Flows, Rotation, Asks, Undisturbed, Answered, AskOK
<1>3. PICK q \in Pairs :
        /\ flow' = [flow EXCEPT ![d0][o0] = [st |-> "saveAccess", pair |-> q]]
        /\ token'[q].live
        /\ \A p \in Pairs : Held(p) => token'[p].live = token[p].live
  <2> DEFINE q == CHOOSE p \in Unused : TRUE
  <2>1. /\ q \in Pairs /\ ~Held(q)
        /\ flow' = [flow EXCEPT ![d0][o0] = [st |-> "saveAccess", pair |-> q]]
    BY <1>2 DEF Insert, Unused, HearPair
  <2>2. \A p \in Pairs :
          token'[p] = IF p = q THEN [device |-> d0, live |-> TRUE, uses |-> 0]
                      ELSE IF p = job[h].pair THEN [token[p] EXCEPT !.uses = token[p].uses + 1]
                      ELSE IF p \in Unused THEN NoToken ELSE token[p]
    BY <1>2 DEF Insert
  <2> HIDE DEF q
  <2>3. token'[q].live
    <3>1. token'[q] = [device |-> d0, live |-> TRUE, uses |-> 0]
      BY <2>1, <2>2
    <3> QED
      BY <3>1
  <2>4. ASSUME NEW p \in Pairs, Held(p) PROVE token'[p].live = token[p].live
    <3>1. CASE p = job[h].pair
      <4>1. token'[p] = [token[p] EXCEPT !.uses = token[p].uses + 1]
        BY <2>1, <2>2, <2>4, <3>1
      <4> QED
        BY <1>1, <4>1 DEF TokenType
    <3>2. CASE p # job[h].pair
      BY <2>1, <2>2, <2>4, <3>2 DEF Unused
    <3> QED
      BY <3>1, <3>2
  <2> QED
    BY <2>1, <2>3, <2>4
<1>4. /\ pc'[h] = "idle" /\ job'[h].op = "none"
      /\ \A g \in Handlers \ {h} : pc'[g] = pc[g] /\ job'[g] = job[g]
  BY <1>1, <1>2 DEF NoJob
<1>5. /\ flow'[d0][o0].st = "saveAccess" /\ flow'[d0][o0].pair = q
      /\ \A d \in Devices, f \in Flows : d # d0 \/ f # o0 => flow'[d][f] = flow[d][f]
  BY <1>1, <1>2, <1>3
<1>6. LoginAlone'
  BY <1>4 DEF Undisturbed, Answered, LoginAlone
<1>7. ASSUME NEW g \in Handlers PROVE AskOK(g)'
  <2>1. CASE g = h
    BY <1>4, <2>1 DEF AskOK
  <2>2. CASE g # h
    <3>1. pc[g] = "find" => job[g].pair \in Pairs /\ Held(job[g].pair)
      BY <1>1 DEF TypeInv, JobOK, Held, JobType, PairOrNone
    <3>2. job[g].op = "login" => job[g].device \in Devices /\ (o0 # "login" \/ job[g].device # d0)
      BY <2>2 DEF TypeInv, JobOK, NoJob, Undisturbed, Answered, LoginAlone
    <3>3. "login" \in Flows
      BY DEF Flows
    <3> QED
      BY <1>3, <1>4, <1>5, <2>2, <3>1, <3>2, <3>3 DEF Undisturbed, Answered, AskOK
  <2> QED
    BY <2>1, <2>2
<1>8. ASSUME NEW d \in Devices PROVE DeviceOK(d)'
  <2>1. \A p \in Pairs : token[p].live /\ Relies(d, p) => token'[p].live
    <3>1. \A p \in Pairs : Relies(d, p) => Held(p)
      BY DEF Relies, Held, Flows
    <3> QED
      BY <1>3, <3>1
  <2>2. CASE d # d0
    <3>1. flow'[d] = flow[d]
      BY <1>2, <1>3, <2>2
    <3> QED
      BY <1>2, <2>1, <3>1, SameDevice DEF Undisturbed
  <2>3. CASE d = d0
    <3>1. DeviceOK(d) /\ "login" \in Flows /\ "refresh" \in Flows
      BY DEF Undisturbed, Flows
    <3>2. o0 \in {"login", "refresh"}
      BY <1>2 DEF Flows
    <3>3. /\ flow'[d]["login"].st # "none" => flow[d]["login"].st # "none"
          /\ flow'[d]["login"].st = "me" => flow[d]["login"].st = "me"
          /\ flow'[d]["refresh"].st # "none" <=> flow[d]["refresh"].st # "none"
      BY <1>2, <1>5, <2>3, <3>1
    <3>4. PlaceOK(d)' /\ \A c \in Calls : CallOK(d, c)'
      BY <1>2, <3>1, <3>3 DEF DeviceOK, PlaceOK, CallOK
    <3>5. StoreOK(d)'
      BY <1>2, <2>1, <3>1, <3>3 DEF DeviceOK, StoreOK, Busy, Usable, Relies
    <3>6. ASSUME NEW f \in Flows PROVE FlowOK(d, f)'
      <4>1. CASE f = o0
        BY <1>3, <1>5, <2>3, <4>1 DEF FlowOK, Usable
      <4>2. CASE f # o0
        <5>1. flow'[d][f] = flow[d][f]
          BY <1>5, <4>2
        <5> QED
          BY <1>2, <2>1, <3>1, <5>1 DEF DeviceOK, FlowOK, Usable, Relies
      <4> QED
        BY <4>1, <4>2
    <3> QED
      BY <3>4, <3>5, <3>6 DEF DeviceOK
  <2> QED
    BY <2>2, <2>3
<1> QED
  BY <1>2, <1>6, <1>7, <1>8 DEF Undisturbed, Answered

LEMMA ServerStepUndisturbed ==
  ASSUME TypeInv, Rotation, Undisturbed, NEW h \in Handlers, ServerStep(h)
  PROVE  Undisturbed'
<1>1. ~RevokeAll(h) /\ ~SoftDelete(h)
  BY DEF RevokeAll, SoftDelete, Step, TypeInv, JobOK, Undisturbed, Answered, AskOK
<1> QED
  BY <1>1, FindUndisturbed, RevokeUndisturbed, InsertUndisturbed DEF ServerStep

\* The calls of device d, after one of them has changed.
LEMMA OneCall ==
  ASSUME TypeInv, NEW d \in Devices, NEW c \in Calls, NEW k, call' = [call EXCEPT ![d][c] = k]
  PROVE  /\ call'[d][c] = k /\ \A b \in Calls \ {c} : call'[d][b] = call[d][b]
         /\ \A e \in Devices \ {d} : call'[e] = call[e]
BY DEF TypeInv, AppType

LEMMA WaitingCall ==
  ASSUME TypeInv, NEW d \in Devices, NEW c \in Calls, Await(d, c, "waiting")
  PROVE  /\ call'[d][c].pc = "waiting" /\ call'[d][c].kind = call[d][c].kind
         /\ \A b \in Calls \ {c} : call'[d][b] = call[d][b]
         /\ \A e \in Devices \ {d} : call'[e] = call[e]
<1>1. call[d][c] \in CallType
  BY DEF TypeInv, AppType
<1>2. call' = [call EXCEPT ![d][c] = [call[d][c] EXCEPT !.pc = "waiting"]]
  BY DEF Await
<1>3. \A k \in CallType : /\ [k EXCEPT !.pc = "waiting"].pc = "waiting"
                          /\ [k EXCEPT !.pc = "waiting"].kind = k.kind
  BY DEF CallType
<1>4. /\ call'[d][c] = [call[d][c] EXCEPT !.pc = "waiting"]
      /\ \A b \in Calls \ {c} : call'[d][b] = call[d][b]
      /\ \A e \in Devices \ {d} : call'[e] = call[e]
  BY <1>2 DEF TypeInv, AppType
<1> QED
  BY <1>1, <1>3, <1>4

\* A call that is answered, or given up, ends.
LEMMA CallEnds ==
  ASSUME TypeInv, Undisturbed, NEW d \in Devices, NEW c \in Calls, Sent(d, c), NEW ok \in BOOLEAN,
         End(d, c, ok), UNCHANGED <<token, store, flow>>
  PROVE  \A e \in Devices : DeviceOK(e)'
<1>1. DeviceOK(d) /\ call[d][c].pc = "sent" /\ call[d][c].kind \in {"api", "me"}
  BY DEF Undisturbed, DeviceOK, CallOK, Sent
<1>2. /\ call'[d][c] = NoCall /\ \A b \in Calls \ {c} : call'[d][b] = call[d][b]
      /\ \A e \in Devices \ {d} : call'[e] = call[e]
  <2>1. call' = [call EXCEPT ![d][c] = NoCall]
    BY <1>1 DEF End
  <2> QED
    BY <2>1, OneCall
<1>3. /\ session'[d] \in {session[d], "in"}
      /\ \A e \in Devices \ {d} : session'[e] = session[e]
  BY DEF End, TypeInv, AppType
<1>4. NoCall.pc = "idle" /\ NoCall.kind = "api"
  BY DEF NoCall
<1>5. flow[d]["login"].st = "none" /\ session[d] # "unknown"
  BY <1>1 DEF DeviceOK, CallOK
<1>6. PlaceOK(d)'
  BY <1>1, <1>2, <1>3, <1>5 DEF DeviceOK, PlaceOK
<1>7. StoreOK(d)'
  BY <1>1, <1>2, <1>4 DEF DeviceOK, StoreOK, Busy, Usable
<1>8. ASSUME NEW b \in Calls PROVE CallOK(d, b)'
  BY <1>1, <1>2, <1>3, <1>4, <1>5 DEF DeviceOK, CallOK
<1>9. \A f \in Flows : FlowOK(d, f)'
  BY <1>1 DEF DeviceOK, FlowOK, Usable
<1>10. ASSUME NEW e \in Devices, e # d PROVE DeviceOK(e)'
  BY <1>2, <1>3, <1>10, SameDevice DEF Undisturbed
<1> QED
  BY <1>6, <1>7, <1>8, <1>9, <1>10 DEF DeviceOK

\* A call that is refused waits for the refresh, or asks for one with a token that will do.
LEMMA JoinUndisturbed ==
  ASSUME TypeInv, Rotation, Undisturbed, NEW d \in Devices, NEW c \in Calls, JoinRefresh(d, c)
  PROVE  Undisturbed'
<1>1. /\ DeviceOK(d) /\ call[d][c].pc = "sent" /\ Await(d, c, "waiting")
      /\ UNCHANGED <<server, store, session, flow>>
  BY DEF Undisturbed, JoinRefresh, Unauthorized, Sent
<1>2. /\ call'[d][c].pc = "waiting" /\ call'[d][c].kind = call[d][c].kind
      /\ \A b \in Calls \ {c} : call'[d][b] = call[d][b]
      /\ \A e \in Devices \ {d} : call'[e] = call[e]
  BY <1>1, WaitingCall
<1>3. PlaceOK(d)' /\ \A b \in Calls : CallOK(d, b)'
  BY <1>1, <1>2 DEF DeviceOK, PlaceOK, CallOK
<1>4. StoreOK(d)' /\ \A f \in Flows : FlowOK(d, f)'
  BY <1>1, <1>2 DEF DeviceOK, StoreOK, FlowOK, Busy, Usable, server
<1>5. ASSUME NEW e \in Devices, e # d PROVE DeviceOK(e)'
  BY <1>1, <1>2, <1>5, SameDevice DEF Undisturbed, server
<1>6. Answered'
  BY <1>1, SameAnswered DEF Undisturbed, server
<1> QED
  BY <1>1, <1>3, <1>4, <1>5, <1>6 DEF Undisturbed, DeviceOK, server

LEMMA StartRefreshUndisturbed ==
  ASSUME TypeInv, Rotation, Undisturbed, NEW d \in Devices, NEW c \in Calls, StartRefresh(d, c)
  PROVE  Undisturbed'
<1> DEFINE j == [NoJob EXCEPT !.op = "refresh", !.device = d, !.pair = store[d].refresh,
                              !.heard = TRUE]
<1>1. DeviceOK(d) /\ call[d][c].pc = "sent" /\ flow[d]["refresh"].st = "none"
  BY DEF Undisturbed, StartRefresh, Unauthorized, Sent, Refreshing
<1>2. store[d].access = store[d].refresh /\ Usable(store[d].refresh)
  BY <1>1 DEF DeviceOK, StoreOK, Busy
<1>3. /\ flow' = [flow EXCEPT ![d]["refresh"].st = "sent"] /\ Await(d, c, "waiting")
      /\ UNCHANGED <<token, account, store, session>>
  BY <1>2, SessionsAssumption DEF StartRefresh, Usable
<1>4. PICK h \in Handlers : Serve(h, "find", j)
  BY <1>2, SessionsAssumption DEF StartRefresh, Usable
<1>5. j.op = "refresh" /\ j.device = d /\ j.pair = store[d].refresh
  BY DEF NoJob
<1>6. /\ pc \in [Handlers -> Statements] /\ job \in [Handlers -> JobType]
      /\ flow \in [Devices -> [Flows -> FlowType]]
  BY DEF TypeInv, ServerType, AppType
<1>7. /\ job'[h] = j /\ pc'[h] = "find"
      /\ \A g \in Handlers \ {h} : pc'[g] = pc[g] /\ job'[g] = job[g]
  BY <1>4, <1>6 DEF Serve
<1> HIDE DEF j
<1>8. /\ flow'[d]["refresh"].st = "sent" /\ flow'[d]["login"] = flow[d]["login"]
      /\ \A e \in Devices \ {d} : flow'[e] = flow[e]
  BY <1>3, <1>6 DEF Flows, FlowType
<1>9. /\ call'[d][c].pc = "waiting" /\ call'[d][c].kind = call[d][c].kind
      /\ \A b \in Calls \ {c} : call'[d][b] = call[d][b]
      /\ \A e \in Devices \ {d} : call'[e] = call[e]
  BY <1>3, WaitingCall
<1>10. PlaceOK(d)' /\ \A b \in Calls : CallOK(d, b)'
  BY <1>1, <1>3, <1>8, <1>9 DEF DeviceOK, PlaceOK, CallOK
<1>11. StoreOK(d)' /\ \A f \in Flows : FlowOK(d, f)'
  BY <1>1, <1>3, <1>8 DEF DeviceOK, StoreOK, FlowOK, Usable, Flows
<1>12. ASSUME NEW e \in Devices, e # d PROVE DeviceOK(e)'
  BY <1>3, <1>8, <1>9, <1>12, SameDevice DEF Undisturbed
<1>13. LoginAlone'
  BY <1>5, <1>7 DEF Undisturbed, Answered, LoginAlone
<1>14. ASSUME NEW g \in Handlers PROVE AskOK(g)'
  <2>1. CASE g = h
    BY <1>2, <1>3, <1>5, <1>7, <2>1 DEF AskOK, Usable
  <2>2. CASE g # h
    <3>1. job[g].op = "login" => job[g].device \in Devices
      BY DEF TypeInv, JobOK, NoJob
    <3> QED
      BY <1>3, <1>7, <1>8, <2>2, <3>1 DEF Undisturbed, Answered, AskOK
  <2> QED
    BY <2>1, <2>2
<1> QED
  BY <1>3, <1>10, <1>11, <1>12, <1>13, <1>14 DEF Undisturbed, Answered, DeviceOK

LEMMA CallStepUndisturbed ==
  ASSUME TypeInv, Rotation, Undisturbed, NEW d \in Devices, NEW c \in Calls, CallStep(d, c)
  PROVE  Undisturbed'
<1>1. DeviceOK(d) /\ CallOK(d, c)
  BY DEF Undisturbed, DeviceOK
<1>2. CASE Accepted(d, c)
  <2>1. /\ Sent(d, c) /\ End(d, c, TRUE)
        /\ UNCHANGED <<token, account, pc, job, store, flow>>
    BY <1>1, <1>2 DEF Accepted, CallOK
  <2> QED
    BY <2>1, CallEnds, SameAnswered DEF Undisturbed
<1>3. CASE GiveUp(d, c)
  <2>1. /\ Sent(d, c) /\ End(d, c, FALSE)
        /\ UNCHANGED <<token, account, pc, job, store, flow>>
    BY <1>3 DEF GiveUp, Unauthorized, server
  <2> QED
    BY <2>1, CallEnds, SameAnswered DEF Undisturbed
<1>4. ~(\E h \in Handlers : Delete(d, c, h)) /\ ~ClearAccess(d, c) /\ ~ClearRefresh(d, c)
  BY <1>1 DEF CallOK, Delete, ClearAccess, ClearRefresh
<1> QED
  BY <1>2, <1>3, <1>4, JoinUndisturbed, StartRefreshUndisturbed DEF CallStep

\* A pair is saved: the first half, then the second, which ends the refresh or the login.
LEMMA SaveAccessUndisturbed ==
  ASSUME TypeInv, Rotation, Undisturbed, NEW d \in Devices, NEW f \in Flows, SaveAccess(d, f)
  PROVE  Undisturbed'
<1>1. /\ DeviceOK(d) /\ flow[d][f].st = "saveAccess" /\ UNCHANGED <<server, session, call>>
      /\ store' = [store EXCEPT ![d].access = flow[d][f].pair]
      /\ flow' = [flow EXCEPT ![d][f].st = "saveRefresh"]
      /\ flow \in [Devices -> [Flows -> FlowType]] /\ store \in [Devices -> StoreType]
  BY DEF Undisturbed, SaveAccess, TypeInv, AppType
<1>2. /\ store'[d].access = flow[d][f].pair
      /\ flow'[d][f].st = "saveRefresh" /\ flow'[d][f].pair = flow[d][f].pair
      /\ \A g \in Flows \ {f} : flow'[d][g] = flow[d][g]
      /\ \A e \in Devices \ {d} : store'[e] = store[e] /\ flow'[e] = flow[e]
  BY <1>1 DEF FlowType, StoreType
<1>3. /\ \E g \in Flows : g # f /\ flow[d][g].st = "none"
      /\ \A g \in Flows \ {f} : flow[d][g].st = "none"
      /\ f = "login" => flow[d]["login"].st # "none" /\ flow[d]["refresh"].st = "none"
      /\ f = "refresh" => flow[d]["refresh"].st # "none" /\ flow[d]["login"].st = "none"
      /\ session[d] # "unknown"
  BY <1>1 DEF DeviceOK, PlaceOK, CallOK, Flows
<1>4. PlaceOK(d)' /\ \A b \in Calls : CallOK(d, b)'
  BY <1>1, <1>2, <1>3 DEF DeviceOK, PlaceOK, CallOK, Flows
<1>5. StoreOK(d)'
  <2>1. CASE f = "refresh"
    BY <1>2, <2>1 DEF StoreOK
  <2>2. CASE f = "login"
    <3>1. session'[d] # "in" /\ \A c \in Calls : call'[d][c].pc = "idle"
      BY <1>1, <1>3, <2>2 DEF DeviceOK, PlaceOK, CallOK
    <3> QED
      BY <1>2, <2>2, <3>1 DEF StoreOK, Busy
  <2> QED
    BY <2>1, <2>2 DEF Flows
<1>6. ASSUME NEW g \in Flows PROVE FlowOK(d, g)'
  <2>1. CASE g = f
    BY <1>1, <1>2, <2>1 DEF DeviceOK, FlowOK, Usable, server
  <2>2. CASE g # f
    BY <1>2, <1>3, <2>2 DEF FlowOK
  <2> QED
    BY <2>1, <2>2
<1>7. ASSUME NEW e \in Devices, e # d PROVE DeviceOK(e)'
  BY <1>1, <1>2, <1>7, SameDevice DEF Undisturbed, server
<1>8. Answered'
  <2>1. \A e \in Devices : flow[e]["login"].st = "sent" => flow'[e]["login"].st = "sent"
    BY <1>1, <1>2 DEF Flows
  <2> QED
    BY <1>1, <2>1, SameAnswered DEF Undisturbed, server
<1> QED
  BY <1>1, <1>4, <1>5, <1>6, <1>7, <1>8 DEF Undisturbed, DeviceOK, server

LEMMA ResumedCalls ==
  ASSUME TypeInv, NEW d \in Devices, NEW p \in PairOrNone, call' = Resume(d, "sent", p)
  PROVE  /\ \A c \in Calls : /\ call'[d][c].kind = call[d][c].kind
                             /\ call'[d][c].pc = IF call[d][c].pc = "waiting" THEN "sent"
                                                 ELSE call[d][c].pc
         /\ \A e \in Devices \ {d} : call'[e] = call[e]
<1> DEFINE of == [c \in Calls |->
             IF call[d][c].pc # "waiting" THEN call[d][c]
             ELSE [call[d][c] EXCEPT !.pc = "sent", !.token = p, !.retried = TRUE]]
<1>1. call \in [Devices -> [Calls -> CallType]] /\ \A c \in Calls : call[d][c] \in CallType
  BY DEF TypeInv, AppType
<1>2. call' = [call EXCEPT ![d] = of]
  BY DEF Resume
<1>3. \A k \in CallType :
        /\ [k EXCEPT !.pc = "sent", !.token = p, !.retried = TRUE].kind = k.kind
        /\ [k EXCEPT !.pc = "sent", !.token = p, !.retried = TRUE].pc = "sent"
  BY DEF CallType
<1>4. \A c \in Calls : /\ of[c].kind = call[d][c].kind
                       /\ of[c].pc = IF call[d][c].pc = "waiting" THEN "sent" ELSE call[d][c].pc
  BY <1>1, <1>3
<1> HIDE DEF of
<1> QED
  BY <1>1, <1>2, <1>4

LEMMA SaveRefreshUndisturbed ==
  ASSUME TypeInv, Rotation, Undisturbed, NEW d \in Devices, NEW f \in Flows, SaveRefresh(d, f)
  PROVE  Undisturbed'
<1> DEFINE p == flow[d][f].pair
<1>1. /\ DeviceOK(d) /\ flow[d][f].st = "saveRefresh" /\ UNCHANGED <<server, session>>
      /\ store' = [store EXCEPT ![d].refresh = p]
      /\ flow \in [Devices -> [Flows -> FlowType]] /\ store \in [Devices -> StoreType]
  BY DEF Undisturbed, SaveRefresh, TypeInv, AppType
<1>2. store[d].access = p /\ Usable(p)
  BY <1>1 DEF DeviceOK, FlowOK
<1>3. /\ store'[d].access = p /\ store'[d].refresh = p
      /\ \A e \in Devices \ {d} : store'[e] = store[e]
  BY <1>1, <1>2 DEF StoreType
<1>4. StoreOK(d)'
  BY <1>1, <1>2, <1>3 DEF StoreOK, Usable, server
<1>5. /\ \A g \in Flows \ {f} : flow[d][g].st = "none"
      /\ session[d] # "unknown"
  BY <1>1 DEF DeviceOK, PlaceOK, CallOK, Flows
<1>6. CASE f = "refresh"
  <2>1. /\ flow' = [flow EXCEPT ![d]["refresh"] = NoFlow]
        /\ \E q \in PairOrNone : call' = Resume(d, "sent", q)
    BY <1>1, <1>2, <1>6 DEF SaveRefresh, StoreType, PairOrNone, Usable
  <2>2. /\ flow'[d]["refresh"].st = "none" /\ flow'[d]["login"] = flow[d]["login"]
        /\ flow[d]["login"].st = "none"
        /\ \A e \in Devices \ {d} : flow'[e] = flow[e]
    BY <1>1, <1>5, <1>6, <2>1 DEF Flows, NoFlow
  <2>3. /\ \A c \in Calls : /\ call'[d][c].kind = call[d][c].kind
                            /\ call'[d][c].pc = IF call[d][c].pc = "waiting" THEN "sent"
                                                ELSE call[d][c].pc
        /\ \A e \in Devices \ {d} : call'[e] = call[e]
    BY <2>1, ResumedCalls
  <2>4. PlaceOK(d)' /\ \A c \in Calls : CallOK(d, c)'
    BY <1>1, <1>5, <2>2, <2>3 DEF DeviceOK, PlaceOK, CallOK
  <2>5. \A g \in Flows : FlowOK(d, g)'
    BY <2>2 DEF FlowOK, Flows
  <2>6. ASSUME NEW e \in Devices, e # d PROVE DeviceOK(e)'
    BY <1>1, <1>3, <2>2, <2>3, <2>6, SameDevice DEF Undisturbed, server
  <2>7. Answered'
    <3>1. \A e \in Devices : flow[e]["login"].st = "sent" => flow'[e]["login"].st = "sent"
      BY <2>2
    <3> QED
      BY <1>1, <3>1, SameAnswered DEF Undisturbed, server
  <2> QED
    BY <1>1, <1>4, <2>4, <2>5, <2>6, <2>7 DEF Undisturbed, DeviceOK, server
<1>7. CASE f = "login"
  <2>1. flow' = [flow EXCEPT ![d]["login"] = [st |-> "me", pair |-> None]] /\ call' = call
    BY <1>7 DEF SaveRefresh
  <2>2. /\ flow'[d]["login"].st = "me" /\ flow'[d]["refresh"] = flow[d]["refresh"]
        /\ flow[d]["refresh"].st = "none"
        /\ \A e \in Devices \ {d} : flow'[e] = flow[e]
    BY <1>1, <1>5, <1>7, <2>1 DEF Flows
  <2>3. PlaceOK(d)' /\ \A c \in Calls : CallOK(d, c)'
    BY <1>1, <1>5, <1>7, <2>1, <2>2 DEF DeviceOK, PlaceOK, CallOK
  <2>4. \A g \in Flows : FlowOK(d, g)'
    BY <2>2 DEF FlowOK, Flows
  <2>5. ASSUME NEW e \in Devices, e # d PROVE DeviceOK(e)'
    BY <1>1, <1>3, <2>1, <2>2, <2>5, SameDevice DEF Undisturbed, server
  <2>6. Answered'
    <3>1. \A e \in Devices : flow[e]["login"].st = "sent" => flow'[e]["login"].st = "sent"
      BY <1>1, <1>7, <2>2
    <3> QED
      BY <1>1, <3>1, SameAnswered DEF Undisturbed, server
  <2> QED
    BY <1>1, <1>4, <2>3, <2>4, <2>5, <2>6 DEF Undisturbed, DeviceOK, server
<1> QED
  BY <1>6, <1>7 DEF Flows

\* The app asks who has logged in, or finds at its start that nobody has.
LEMMA SendMeUndisturbed ==
  ASSUME TypeInv, Rotation, Undisturbed, NEW d \in Devices, NEW c \in Calls, SendMe(d, c)
  PROVE  Undisturbed'
<1> DEFINE k == [NoCall EXCEPT !.kind = "me", !.pc = "sent", !.token = store[d].access]
<1>1. /\ DeviceOK(d) /\ flow[d]["login"].st = "me" /\ UNCHANGED <<server, store, session>>
      /\ flow' = [flow EXCEPT ![d]["login"] = NoFlow] /\ call' = [call EXCEPT ![d][c] = k]
      /\ flow \in [Devices -> [Flows -> FlowType]]
  BY DEF Undisturbed, SendMe, TypeInv, AppType
<1>2. /\ flow'[d]["login"].st = "none" /\ flow'[d]["refresh"] = flow[d]["refresh"]
      /\ \A e \in Devices \ {d} : flow'[e] = flow[e]
  BY <1>1 DEF Flows, NoFlow
<1>3. k.pc = "sent" /\ k.kind = "me"
  BY DEF NoCall
<1> HIDE DEF k
<1>4. /\ call'[d][c] = k /\ \A b \in Calls \ {c} : call'[d][b] = call[d][b]
      /\ \A e \in Devices \ {d} : call'[e] = call[e]
  BY <1>1, OneCall
<1>5. /\ session[d] = "out" /\ \A b \in Calls : call[d][b].pc = "idle"
      /\ flow[d]["refresh"].st = "none"
  BY <1>1 DEF DeviceOK, PlaceOK, CallOK, TypeInv, AppType
<1>6. PlaceOK(d)' /\ \A b \in Calls : CallOK(d, b)'
  BY <1>1, <1>2, <1>3, <1>4, <1>5 DEF DeviceOK, PlaceOK, CallOK
<1>7. StoreOK(d)' /\ \A f \in Flows : FlowOK(d, f)'
  BY <1>1, <1>2, <1>5 DEF DeviceOK, StoreOK, FlowOK, Usable, Flows, server
<1>8. ASSUME NEW e \in Devices, e # d PROVE DeviceOK(e)'
  BY <1>1, <1>2, <1>4, <1>8, SameDevice DEF Undisturbed, server
<1>9. Answered'
  <2>1. \A e \in Devices : flow[e]["login"].st = "sent" => flow'[e]["login"].st = "sent"
    BY <1>1, <1>2
  <2> QED
    BY <1>1, <2>1, SameAnswered DEF Undisturbed, server
<1> QED
  BY <1>1, <1>6, <1>7, <1>8, <1>9 DEF Undisturbed, DeviceOK, server

LEMMA RestoreUndisturbed ==
  ASSUME TypeInv, Rotation, Undisturbed, NEW d \in Devices, NEW c \in Calls, Restore(d, c)
  PROVE  Undisturbed'
<1>1. /\ DeviceOK(d) /\ session[d] = "unknown" /\ UNCHANGED <<server, store, flow, call>>
      /\ session' = [session EXCEPT ![d] = "out"]
  BY DEF Undisturbed, DeviceOK, PlaceOK, Restore
<1>2. session'[d] = "out" /\ \A e \in Devices \ {d} : session'[e] = session[e]
  BY <1>1 DEF TypeInv, AppType
<1>3. /\ flow[d]["login"].st = "none" /\ flow[d]["refresh"].st = "none"
      /\ \A b \in Calls : call[d][b].pc = "idle"
  BY <1>1 DEF DeviceOK, PlaceOK, CallOK
<1>4. PlaceOK(d)' /\ \A b \in Calls : CallOK(d, b)'
  BY <1>1, <1>2, <1>3 DEF DeviceOK, PlaceOK, CallOK
<1>5. StoreOK(d)' /\ \A f \in Flows : FlowOK(d, f)'
  BY <1>1, <1>2, <1>3 DEF StoreOK, FlowOK, Busy, Flows
<1>6. ASSUME NEW e \in Devices, e # d PROVE DeviceOK(e)'
  BY <1>1, <1>2, <1>6, SameDevice DEF Undisturbed, server
<1>7. Answered'
  BY <1>1, SameAnswered DEF Undisturbed, server
<1> QED
  BY <1>1, <1>4, <1>5, <1>6, <1>7 DEF Undisturbed, DeviceOK, server

LEMMA StartCallUndisturbed ==
  ASSUME TypeInv, Rotation, Undisturbed, NEW d \in Devices, NEW c \in Calls, StartCall(d, c, "api")
  PROVE  Undisturbed'
<1> DEFINE k == [NoCall EXCEPT !.kind = "api", !.pc = "sent", !.token = store[d].access]
<1>1. /\ DeviceOK(d) /\ session[d] = "in" /\ call[d][c].pc = "idle"
      /\ UNCHANGED <<server, store, session, flow>> /\ call' = [call EXCEPT ![d][c] = k]
  BY DEF Undisturbed, StartCall
<1>2. k.pc = "sent" /\ k.kind = "api"
  BY DEF NoCall
<1> HIDE DEF k
<1>3. /\ call'[d][c] = k /\ \A b \in Calls \ {c} : call'[d][b] = call[d][b]
      /\ \A e \in Devices \ {d} : call'[e] = call[e]
  BY <1>1, OneCall
<1>4. PlaceOK(d)' /\ \A b \in Calls : CallOK(d, b)'
  BY <1>1, <1>2, <1>3 DEF DeviceOK, PlaceOK, CallOK
<1>5. StoreOK(d)' /\ \A f \in Flows : FlowOK(d, f)'
  BY <1>1 DEF DeviceOK, StoreOK, FlowOK, Usable, server
<1>6. ASSUME NEW e \in Devices, e # d PROVE DeviceOK(e)'
  BY <1>1, <1>3, <1>6, SameDevice DEF Undisturbed, server
<1>7. Answered'
  BY <1>1, SameAnswered DEF Undisturbed, server
<1> QED
  BY <1>1, <1>4, <1>5, <1>6, <1>7 DEF Undisturbed, DeviceOK, server

LEMMA LoginUndisturbed ==
  ASSUME TypeInv, Rotation, Undisturbed, NEW d \in Devices, NEW h \in Handlers, Login(d, h)
  PROVE  Undisturbed'
<1> DEFINE j == [NoJob EXCEPT !.op = "login", !.device = d, !.heard = TRUE]
<1>1. /\ DeviceOK(d) /\ session[d] = "out" /\ flow[d]["login"].st = "none"
      /\ \A c \in Calls : call[d][c].kind # "me"
      /\ Serve(h, "insert", j) /\ flow' = [flow EXCEPT ![d]["login"].st = "sent"]
      /\ UNCHANGED <<token, account, store, session, call>>
      /\ pc \in [Handlers -> Statements] /\ job \in [Handlers -> JobType]
      /\ flow \in [Devices -> [Flows -> FlowType]]
  BY DEF Undisturbed, Login, TypeInv, ServerType, AppType
<1>2. j.op = "login" /\ j.device = d /\ j.known
  BY DEF NoJob
<1>3. /\ job'[h] = j /\ pc'[h] = "insert"
      /\ \A g \in Handlers \ {h} : pc'[g] = pc[g] /\ job'[g] = job[g]
  BY <1>1 DEF Serve
<1> HIDE DEF j
<1>4. /\ flow'[d]["login"].st = "sent" /\ flow'[d]["refresh"] = flow[d]["refresh"]
      /\ \A e \in Devices \ {d} : flow'[e] = flow[e]
  BY <1>1 DEF Flows, FlowType
<1>5. (\A c \in Calls : call[d][c].pc = "idle") /\ flow[d]["refresh"].st = "none"
  BY <1>1 DEF DeviceOK, PlaceOK, CallOK
<1>6. PlaceOK(d)' /\ \A c \in Calls : CallOK(d, c)'
  BY <1>1, <1>4, <1>5 DEF DeviceOK, PlaceOK, CallOK
<1>7. StoreOK(d)' /\ \A f \in Flows : FlowOK(d, f)'
  BY <1>1, <1>4, <1>5 DEF StoreOK, FlowOK, Busy, Flows
<1>8. ASSUME NEW e \in Devices, e # d PROVE DeviceOK(e)'
  BY <1>1, <1>4, <1>8, SameDevice DEF Undisturbed
<1>9. \A g \in Handlers : job[g].op = "login" => job[g].device \in Devices \ {d}
  BY <1>1 DEF TypeInv, JobOK, NoJob, Undisturbed, Answered, AskOK
<1>10. LoginAlone'
  BY <1>2, <1>3, <1>9 DEF Undisturbed, Answered, LoginAlone
<1>11. ASSUME NEW g \in Handlers PROVE AskOK(g)'
  <2>1. CASE g = h
    BY <1>2, <1>3, <1>4, <2>1 DEF AskOK
  <2>2. CASE g # h
    BY <1>1, <1>3, <1>4, <1>9, <2>2 DEF Undisturbed, Answered, AskOK
  <2> QED
    BY <2>1, <2>2
<1> QED
  BY <1>1, <1>6, <1>7, <1>8, <1>10, <1>11 DEF Undisturbed, Answered, DeviceOK

LEMMA SameUndisturbed ==
  ASSUME TypeInv, Rotation, Undisturbed, UNCHANGED <<token, account, pc, job, app>>
  PROVE  Undisturbed'
<1>1. Answered'
  BY SameAnswered DEF Undisturbed, app
<1>2. \A d \in Devices : DeviceOK(d)'
  BY SameDevice DEF Undisturbed, app
<1> QED
  BY <1>1, <1>2 DEF Undisturbed

StaysIn == faults = 0 /\ outs = 0 => Undisturbed

LEMMA UndisturbedInit == Init => Undisturbed
<1> SUFFICES ASSUME Init PROVE Undisturbed
  OBVIOUS
<1>1. \A h \in Handlers : job[h].op = "none" /\ pc[h] = "idle"
  BY DEF Init, NoJob
<1>2. \A d \in Devices : /\ \A c \in Calls : call[d][c].pc = "idle" /\ call[d][c].kind = "api"
                         /\ \A f \in Flows : flow[d][f].st = "none"
                         /\ session[d] = "unknown" /\ store[d].access = None
  BY DEF Init, NoCall, NoFlows, NoFlow, NoStore
<1>3. "login" \in Flows /\ "refresh" \in Flows
  BY DEF Flows
<1>4. Answered
  BY <1>1 DEF Answered, LoginAlone, AskOK
<1>5. ASSUME NEW d \in Devices PROVE DeviceOK(d)
  BY <1>2, <1>3 DEF DeviceOK, PlaceOK, StoreOK, CallOK, FlowOK, Busy
<1> QED
  BY <1>4, <1>5 DEF Init, Undisturbed

LEMMA StaysInStep == TypeInv /\ Healthy /\ StaysIn /\ [Next]_vars => StaysIn'
<1> SUFFICES ASSUME TypeInv, Healthy, StaysIn, [Next]_vars, faults' = 0, outs' = 0
             PROVE  Undisturbed'
  BY DEF StaysIn
<1>1. faults \in Nat /\ outs \in Nat
  BY SessionsAssumption DEF TypeInv, BoundType
<1>2. faults' # faults + 1 /\ outs' # outs + 1
  BY <1>1
<1>3. /\ \A h \in Handlers : ~Disconnect(h)
      /\ \A d \in Devices : ~Kill(d) /\ \A c \in Calls : ~Lose(d, c)
      /\ \A S : ~TokensEnd(S)
  BY <1>2 DEF Disconnect, Kill, Lose, TokensEnd
<1>4. ASSUME NEW h \in Handlers, ServerStep(h) PROVE Undisturbed'
  <2>1. UNCHANGED <<faults, outs>>
    BY <1>4 DEF ServerStep, Find, Revoke, Insert, RevokeAll, SoftDelete
  <2> QED
    BY <1>4, <2>1, ServerStepUndisturbed DEF Healthy, StaysIn
<1>5. ASSUME NEW d \in Devices, NEW c \in Calls, CallStep(d, c) PROVE Undisturbed'
  <2>1. UNCHANGED <<faults, outs>>
    BY <1>5 DEF CallStep, Accepted, Delete, GiveUp, JoinRefresh, StartRefresh, ClearAccess, ClearRefresh
  <2> QED
    BY <1>5, <2>1, CallStepUndisturbed DEF Healthy, StaysIn
<1>6. ASSUME NEW d \in Devices, FlowStep(d) PROVE Undisturbed'
  <2>1. UNCHANGED <<faults, outs>>
    BY <1>6 DEF FlowStep, SaveAccess, SaveRefresh, SendMe, Restore
  <2> QED
    BY <1>6, <2>1, SaveAccessUndisturbed, SaveRefreshUndisturbed, SendMeUndisturbed,
       RestoreUndisturbed DEF FlowStep, Healthy, StaysIn
<1>7. ASSUME NEW d \in Devices, UserStep(d) PROVE Undisturbed'
  <2>1. UNCHANGED faults /\ (outs' = outs \/ outs' = outs + 1)
    BY <1>7 DEF UserStep, StartCall, Login
  <2>2. Rotation /\ Undisturbed
    BY <1>2, <2>1 DEF Healthy, StaysIn
  <2>3. ASSUME NEW c \in Calls, NEW k \in Kinds \ UserCalls, StartCall(d, c, k) PROVE k = "api"
    BY <1>2, <2>3 DEF StartCall
  <2> QED
    BY <1>7, <2>2, <2>3, StartCallUndisturbed, LoginUndisturbed DEF UserStep
<1>8. ASSUME NEW p \in Pairs, AccessExpires(p) PROVE Undisturbed'
  BY <1>8, SameUndisturbed DEF AccessExpires, Healthy, StaysIn
<1>9. CASE UNCHANGED vars
  BY <1>9, SameUndisturbed DEF vars, server, app, Healthy, StaysIn
<1> QED
  BY <1>3, <1>4, <1>5, <1>6, <1>7, <1>8, <1>9 DEF Next

\* A user whose app has lost no connection and who has not logged out is never sent back to the
\* login screen, and between two refreshes the app holds a pair it can exchange, whichever calls
\* AuthInterceptor finds refused while tokens are rotated, written and expire.
THEOREM NotForcedOut == Spec => []NeverForcedOut
<1>1. Init => StaysIn
  BY UndisturbedInit DEF StaysIn
<1>2. StaysIn => NeverForcedOut
  BY DEF StaysIn, Undisturbed, DeviceOK, CallOK, StoreOK, Usable, NeverForcedOut
<1>3. Init => Healthy
  BY RotationInit DEF Healthy
<1> QED
  BY <1>1, <1>2, <1>3, StaysInStep, HealthyStep, TypeAlways, PTL DEF Spec
=============================================================================
