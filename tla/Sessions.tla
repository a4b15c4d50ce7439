------------------------------ MODULE Sessions ------------------------------
(***************************************************************************)
(* One user's sessions: the server's AuthService (login, rotation of       *)
(* refresh tokens, logout, deletion of the account) and, on each of the    *)
(* user's devices, the app's AuthInterceptor, SecureTokenStorage and       *)
(* AuthRepository.                                                         *)
(*                                                                         *)
(* A pair is an access token and a refresh token issued together; the row  *)
(* of table refresh_tokens is its refresh half, the access half is only    *)
(* signed.  On the server and in the app every `await` lets others run:    *)
(* each action below is what happens between two of them.  The row of a    *)
(* pair that nobody holds any more can play no part; its name is used      *)
(* again.                                                                  *)
(***************************************************************************)
EXTENDS Naturals, FiniteSets

CONSTANTS
  Devices,
  Calls,      \* calls an app may have in progress at once
  Handlers,   \* requests the server may have in progress at once
  Pairs,      \* names of token pairs
  MaxFaults,  \* bound: lost connections and apps that are killed
  MaxOuts,    \* bound: logouts, deletions and refresh tokens that expire
  None

ASSUME SessionsAssumption ==
  /\ MaxFaults \in Nat /\ MaxOuts \in Nat
  /\ None \notin Pairs /\ None \notin Devices

VARIABLES
  token,     \* table refresh_tokens: device, whether live, and successors issued for each pair
  stale,     \* pairs whose access token has expired
  account,   \* table users: deleted_at set or not
  pc, job,   \* next statement and memory of each request on the server
  store,     \* secure storage of each device
  session,   \* AuthState of each app
  flow,      \* the app's login and its _refreshFuture
  call,      \* the app's calls
  faults, outs

server == <<token, stale, account, pc, job>>
app == <<store, session, flow, call>>
vars == <<server, app, faults, outs>>

-----------------------------------------------------------------------------
Kinds == {"api", "me", "restore", "logout", "delete"}

NoToken == [device |-> None, live |-> FALSE, uses |-> 0]
NoJob == [op |-> "none", device |-> None, pair |-> None, known |-> TRUE, heard |-> FALSE]
Flows == {"login", "refresh"}
NoFlow == [st |-> "none", pair |-> None]
NoFlows == [f \in Flows |-> NoFlow]
NoCall == [kind |-> "api", pc |-> "idle", token |-> None, retried |-> FALSE]
NoStore == [access |-> None, refresh |-> None]

Init ==
  /\ token = [p \in Pairs |-> NoToken]
  /\ stale = {} /\ account = "active"
  /\ pc = [h \in Handlers |-> "idle"]
  /\ job = [h \in Handlers |-> NoJob]
  /\ store = [d \in Devices |-> NoStore]
  /\ session = [d \in Devices |-> "unknown"]
  /\ flow = [d \in Devices |-> NoFlows]
  /\ call = [d \in Devices |-> [c \in Calls |-> NoCall]]
  /\ faults = 0 /\ outs = 0

Held(p) ==
  \/ \E h \in Handlers : job[h].pair = p
  \/ \E d \in Devices :
       \/ p \in {store[d].access, store[d].refresh, flow[d]["login"].pair, flow[d]["refresh"].pair}
       \/ \E c \in Calls : call[d][c].token = p

Unused == {p \in Pairs : ~Held(p)}

\* JwtStrategy looks only at signature and expiry.
Authorized(p) == p # None /\ p \notin stale

Revoked(S) == [p \in Pairs |-> IF p \in S THEN [token[p] EXCEPT !.live = FALSE] ELSE token[p]]
OfDevice(d) == {p \in Pairs : token[p].device = d}

-----------------------------------------------------------------------------
(* AuthService *)

Serve(h, p, j) ==
  /\ pc[h] = "idle"
  /\ pc' = [pc EXCEPT ![h] = p]
  /\ job' = [job EXCEPT ![h] = j]

Step(h, from, to) ==
  /\ pc[h] = from
  /\ pc' = [pc EXCEPT ![h] = to]

Leave(h) ==
  /\ pc' = [pc EXCEPT ![h] = "idle"]
  /\ job' = [job EXCEPT ![h] = NoJob]

\* Device d's calls that wait for the refresh go on with pc to and access token p.
Resume(d, to, p) ==
  [call EXCEPT ![d] = [c \in Calls |->
     IF call[d][c].pc # "waiting" THEN call[d][c]
     ELSE [call[d][c] EXCEPT !.pc = to, !.token = p, !.retried = TRUE]]]

\* A call of device d ends, with an answer or without: AuthRepository and AuthNotifier.
End(d, c, ok) ==
  LET k == call[d][c].kind
      leaves == k = "logout" \/ (k = "restore" /\ ~ok) \/ (k = "delete" /\ ok)
  IN
  /\ call' = [call EXCEPT ![d][c] = IF leaves THEN [@ EXCEPT !.pc = "outAccess"] ELSE NoCall]
  /\ session' = IF k \in {"me", "restore"} /\ ok THEN [session EXCEPT ![d] = "in"] ELSE session

\* The app hears of a new pair, or that there is none.
HearPair(h, q) ==
  LET d == job[h].device IN
  /\ flow' = IF job[h].heard THEN [flow EXCEPT ![d][job[h].op] = [st |-> "saveAccess", pair |-> q]]
                             ELSE flow
  /\ UNCHANGED <<store, session, call>>

HearRefusal(h) ==
  LET d == job[h].device IN
  /\ flow' = IF job[h].heard THEN [flow EXCEPT ![d]["refresh"] = NoFlow] ELSE flow
  /\ call' = IF job[h].heard THEN Resume(d, "clearAccess", None) ELSE call
  /\ UNCHANGED <<store, session>>

\* refresh.  Mutant: the user row is not loaded with the token.
FindAlone(h) ==
  /\ pc[h] = "find"
  /\ IF token[job[h].pair].live
     THEN Step(h, "find", "revoke") /\ UNCHANGED <<job, app>>
     ELSE Leave(h) /\ HearRefusal(h)
  /\ UNCHANGED <<token, stale, account, faults, outs>>

Find(h) ==
  /\ pc[h] = "find"
  /\ IF token[job[h].pair].live
     THEN /\ Step(h, "find", "revoke")
          /\ job' = [job EXCEPT ![h].known = (account = "active")]   \* the relation `user`
          /\ UNCHANGED app
     ELSE Leave(h) /\ HearRefusal(h)
  /\ UNCHANGED <<token, stale, account, faults, outs>>

Revoke(h) ==
  /\ Step(h, "revoke", "insert")
  /\ token' = Revoked({job[h].pair})
  /\ UNCHANGED <<stale, account, job, app, faults, outs>>

\* issueTokenPair, for login and refresh; it throws if the user was not found.
Insert(h) ==
  /\ pc[h] = "insert"
  /\ Leave(h)
  /\ \/ /\ job[h].known
        /\ Unused # {}
        /\ LET q == CHOOSE p \in Unused : TRUE
               issued == [device |-> job[h].device, live |-> TRUE, uses |-> 0]
           IN
           /\ token' = [p \in Pairs |->
                IF p = q THEN issued
                ELSE IF p = job[h].pair THEN [token[p] EXCEPT !.uses = @ + 1]
                ELSE IF p \in Unused THEN NoToken ELSE token[p]]
           /\ stale' = stale \ Unused
           /\ HearPair(h, q)
     \/ /\ ~job[h].known
        /\ HearRefusal(h)
        /\ UNCHANGED <<token, stale>>
  /\ UNCHANGED <<account, faults, outs>>

\* deleteAccount
RevokeAll(h) ==
  /\ Step(h, "revokeAll", "softDelete")
  /\ token' = Revoked(Pairs)
  /\ UNCHANGED <<stale, account, job, app, faults, outs>>

SoftDelete(h) ==
  LET d == job[h].device IN
  /\ pc[h] = "softDelete"
  /\ Leave(h)
  /\ account' = "deleted"
  /\ IF job[h].heard
     THEN \E c \in Calls : call[d][c].pc = "served" /\ End(d, c, TRUE)
     ELSE UNCHANGED <<session, call>>
  /\ UNCHANGED <<token, stale, store, flow, faults, outs>>

-----------------------------------------------------------------------------
(* The app's calls.  A call is sent with the access token in storage.      *)

StartCall(d, c, k) ==
  /\ session[d] = "in" /\ call[d][c].pc = "idle"
  /\ k # "api" => outs < MaxOuts /\ \A b \in Calls : call[d][b].kind \notin {"logout", "delete"}
  /\ outs' = IF k = "api" THEN outs ELSE outs + 1
  /\ call' = [call EXCEPT ![d][c] =
       [NoCall EXCEPT !.kind = k, !.pc = "sent", !.token = store[d].access]]
  /\ UNCHANGED <<server, store, session, flow, faults>>

Sent(d, c) == call[d][c].pc = "sent"

UserCalls == {"me", "restore"}   \* GET /auth/me

\* Answered with success.  logout revokes the device's live rows.
Accepted(d, c) ==
  LET k == call[d][c].kind IN
  /\ Sent(d, c) /\ k # "delete" /\ Authorized(call[d][c].token)
  /\ k \in UserCalls => account = "active"
  /\ token' = IF k = "logout" THEN Revoked(OfDevice(d)) ELSE token
  /\ End(d, c, TRUE)
  /\ UNCHANGED <<stale, account, pc, job, store, flow, faults, outs>>

Delete(d, c, h) ==
  /\ Sent(d, c) /\ call[d][c].kind = "delete" /\ Authorized(call[d][c].token)
  /\ account = "active"
  /\ Serve(h, "revokeAll", [NoJob EXCEPT !.op = "delete", !.device = d, !.heard = TRUE])
  /\ call' = [call EXCEPT ![d][c].pc = "served"]
  /\ UNCHANGED <<token, stale, account, store, session, flow, faults, outs>>

\* 401, which a wrong password is answered with, too.
Unauthorized(d, c) ==
  Sent(d, c) /\ \/ ~Authorized(call[d][c].token)
                \/ call[d][c].kind = "delete"
                \/ call[d][c].kind \in UserCalls /\ account = "deleted"

\* onError: a call is repeated once.  Mutant: as often as it is refused.
AlreadyRetriedNever(d, c) == FALSE
AlreadyRetried(d, c) == call[d][c].retried

GiveUp(d, c) ==
  /\ Unauthorized(d, c) /\ AlreadyRetried(d, c)
  /\ End(d, c, FALSE)
  /\ UNCHANGED <<server, store, flow, faults, outs>>

Await(d, c, to) == call' = [call EXCEPT ![d][c].pc = to]

\* _refreshFuture is shared.  Mutants: each call starts a refresh of its own; the future is
\* forgotten before its tokens are saved.
RefreshingAlone(d) == FALSE
RefreshingSent(d) == flow[d]["refresh"].st = "sent"
Refreshing(d) == flow[d]["refresh"].st # "none"

JoinRefresh(d, c) ==
  /\ Unauthorized(d, c) /\ ~AlreadyRetried(d, c) /\ Refreshing(d)
  /\ Await(d, c, "waiting")
  /\ UNCHANGED <<server, store, session, flow, faults, outs>>

StartRefresh(d, c) ==
  /\ Unauthorized(d, c) /\ ~AlreadyRetried(d, c) /\ ~Refreshing(d)
  /\ \/ /\ store[d].refresh = None
        /\ Await(d, c, "clearAccess")
        /\ UNCHANGED <<pc, job, flow>>
     \/ /\ store[d].refresh # None
        /\ \E h \in Handlers : Serve(h, "find",
             [NoJob EXCEPT !.op = "refresh", !.device = d, !.pair = store[d].refresh, !.heard = TRUE])
        /\ flow' = [flow EXCEPT ![d]["refresh"].st = "sent"]
        /\ Await(d, c, "waiting")
  /\ UNCHANGED <<token, stale, account, store, session, faults, outs>>

-----------------------------------------------------------------------------
(* SecureTokenStorage: two writes, two deletions. *)

SaveAccess(d, f) ==
  /\ flow[d][f].st = "saveAccess"
  /\ store' = [store EXCEPT ![d].access = flow[d][f].pair]
  /\ flow' = [flow EXCEPT ![d][f].st = "saveRefresh"]
  /\ UNCHANGED <<server, session, call, faults, outs>>

\* A login goes on to GET /auth/me, a refresh to the calls that wait for it, whose repetition
\* takes the token in storage again (onRequest).
SaveRefresh(d, f) ==
  LET p == flow[d][f].pair IN
  /\ flow[d][f].st = "saveRefresh"
  /\ store' = [store EXCEPT ![d].refresh = p]
  /\ \/ /\ f = "refresh"
        /\ flow' = [flow EXCEPT ![d][f] = NoFlow]
        /\ call' = Resume(d, "sent", IF store[d].access # None THEN store[d].access ELSE p)
     \/ /\ f = "login"
        /\ flow' = [flow EXCEPT ![d][f] = [st |-> "me", pair |-> None]]
        /\ UNCHANGED call
  /\ UNCHANGED <<server, session, faults, outs>>

ClearAccess(d, c) ==
  /\ call[d][c].pc \in {"clearAccess", "outAccess"}
  /\ store' = [store EXCEPT ![d].access = None]
  /\ Await(d, c, IF call[d][c].pc = "clearAccess" THEN "clearRefresh" ELSE "outRefresh")
  /\ UNCHANGED <<server, session, flow, faults, outs>>

ClearRefresh(d, c) ==
  LET forced == call[d][c].pc = "clearRefresh"
      k == call[d][c].kind
  IN
  /\ call[d][c].pc \in {"clearRefresh", "outRefresh"}
  /\ store' = [store EXCEPT ![d].refresh = None]
  /\ session' = [session EXCEPT ![d] = "out"]
  /\ call' = [call EXCEPT ![d][c] =
       IF forced /\ k \in {"logout", "restore"} THEN [@ EXCEPT !.pc = "outAccess"] ELSE NoCall]
  /\ UNCHANGED <<server, flow, faults, outs>>

-----------------------------------------------------------------------------
(* Login, start of the app. *)

\* The server has found the user and compared the password.
Login(d, h) ==
  /\ session[d] = "out" /\ flow[d]["login"].st = "none" /\ account = "active"
  /\ \A c \in Calls : call[d][c].kind # "me"
  /\ Serve(h, "insert", [NoJob EXCEPT !.op = "login", !.device = d, !.heard = TRUE])
  /\ flow' = [flow EXCEPT ![d]["login"].st = "sent"]
  /\ UNCHANGED <<token, stale, account, store, session, call, faults, outs>>

SendMe(d, c) ==
  /\ flow[d]["login"].st = "me" /\ call[d][c].pc = "idle"
  /\ flow' = [flow EXCEPT ![d]["login"] = NoFlow]
  /\ call' = [call EXCEPT ![d][c] =
       [NoCall EXCEPT !.kind = "me", !.pc = "sent", !.token = store[d].access]]
  /\ UNCHANGED <<server, store, session, faults, outs>>

\* restoreSession
Restore(d, c) ==
  /\ session[d] = "unknown" /\ call[d] = [b \in Calls |-> NoCall]
  /\ IF store[d].access = None
     THEN session' = [session EXCEPT ![d] = "out"] /\ UNCHANGED call
     ELSE /\ call' = [call EXCEPT ![d][c] =
               [NoCall EXCEPT !.kind = "restore", !.pc = "sent", !.token = store[d].access]]
          /\ UNCHANGED session
  /\ UNCHANGED <<server, store, flow, faults, outs>>

-----------------------------------------------------------------------------
(* What happens to them. *)

\* The app is killed and started again; its requests on the server go on.
Kill(d) ==
  /\ session[d] # "unknown" /\ faults < MaxFaults
  /\ session' = [session EXCEPT ![d] = "unknown"]
  /\ flow' = [flow EXCEPT ![d] = NoFlows]
  /\ call' = [call EXCEPT ![d] = [c \in Calls |-> NoCall]]
  /\ job' = [h \in Handlers |-> IF job[h].device = d THEN [job[h] EXCEPT !.heard = FALSE] ELSE job[h]]
  /\ faults' = faults + 1
  /\ UNCHANGED <<token, stale, account, pc, store, outs>>

\* The app loses the connection to a request that the server goes on with.
Disconnect(h) ==
  LET d == job[h].device IN
  /\ job[h].heard /\ faults < MaxFaults
  /\ faults' = faults + 1
  /\ job' = [job EXCEPT ![h].heard = FALSE]
  /\ CASE job[h].op = "login"   -> /\ flow' = [flow EXCEPT ![d]["login"] = NoFlow]
                                   /\ UNCHANGED <<session, call>>
       [] job[h].op = "refresh" -> /\ flow' = [flow EXCEPT ![d]["refresh"] = NoFlow]
                                   /\ call' = Resume(d, "clearAccess", None)
                                   /\ UNCHANGED session
       [] job[h].op = "delete"  -> /\ \E c \in Calls : call[d][c].pc = "served" /\ End(d, c, FALSE)
                                   /\ UNCHANGED flow
  /\ UNCHANGED <<token, stale, account, pc, store, outs>>

\* A call fails without an answer, whether the server has served it or not.
Lose(d, c) ==
  /\ Sent(d, c) /\ faults < MaxFaults
  /\ faults' = faults + 1
  /\ \/ UNCHANGED token
     \/ /\ call[d][c].kind = "logout" /\ Authorized(call[d][c].token)
        /\ token' = Revoked(OfDevice(d))
  /\ End(d, c, FALSE)
  /\ UNCHANGED <<stale, account, pc, job, store, flow, outs>>

AccessExpires(p) ==
  /\ Held(p) /\ p \notin stale
  /\ stale' = stale \union {p}
  /\ UNCHANGED <<token, account, pc, job, app, faults, outs>>

\* Refresh tokens end without the app: after their time, or by logout-all from elsewhere.
TokensEnd(S) ==
  /\ outs < MaxOuts /\ \E p \in S : token[p].live
  /\ token' = Revoked(S)
  /\ outs' = outs + 1
  /\ UNCHANGED <<stale, account, pc, job, app, faults>>

ServerStep(h) == Find(h) \/ Revoke(h) \/ Insert(h) \/ RevokeAll(h) \/ SoftDelete(h)

\* The next step of a call: an answer of the server, or one of the app.
CallStep(d, c) ==
  \/ Accepted(d, c) \/ (\E h \in Handlers : Delete(d, c, h))
  \/ GiveUp(d, c) \/ JoinRefresh(d, c) \/ StartRefresh(d, c)
  \/ ClearAccess(d, c) \/ ClearRefresh(d, c)

FlowStep(d) ==
  \/ \E f \in Flows : SaveAccess(d, f) \/ SaveRefresh(d, f)
  \/ \E c \in Calls : SendMe(d, c) \/ Restore(d, c)

UserStep(d) ==
  \/ \E c \in Calls, k \in Kinds \ UserCalls : StartCall(d, c, k)
  \/ \E h \in Handlers : Login(d, h)

Next ==
  \/ \E h \in Handlers : ServerStep(h) \/ Disconnect(h)
  \/ \E d \in Devices, c \in Calls : CallStep(d, c) \/ Lose(d, c)
  \/ \E d \in Devices : FlowStep(d) \/ UserStep(d) \/ Kill(d)
  \/ \E p \in Pairs : AccessExpires(p) \/ TokensEnd({p})
  \/ TokensEnd(Pairs)

Spec == Init /\ [][Next]_vars

(* The server works on what it accepted and answers, and the app goes on   *)
(* with what it was answered.  Users promise nothing.                      *)
Fairness ==
  /\ \A h \in Handlers : WF_vars(ServerStep(h))
  /\ \A d \in Devices : WF_vars(FlowStep(d)) /\ \A c \in Calls : WF_vars(CallStep(d, c))

FairSpec == Spec /\ Fairness
-----------------------------------------------------------------------------
(* Properties. *)

PairOrNone == Pairs \union {None}

\* A request slot is busy exactly as long as it has a request.
TypeOK ==
  /\ \A h \in Handlers : pc[h] = "idle" <=> job[h] = NoJob
  /\ token \in [Pairs -> [device : Devices \union {None}, live : BOOLEAN, uses : Nat]]
  /\ stale \subseteq Pairs /\ account \in {"active", "deleted"}
  /\ pc \in [Handlers -> {"idle", "find", "revoke", "insert", "revokeAll", "softDelete"}]
  /\ job \in [Handlers -> [op : {"none", "login", "refresh", "delete"},
                           device : Devices \union {None}, pair : PairOrNone,
                           known : BOOLEAN, heard : BOOLEAN]]
  /\ store \in [Devices -> [access : PairOrNone, refresh : PairOrNone]]
  /\ session \in [Devices -> {"unknown", "in", "out"}]
  /\ flow \in [Devices -> [Flows -> [st : {"none", "sent", "saveAccess", "saveRefresh", "me"},
                                     pair : PairOrNone]]]
  /\ call \in [Devices -> [Calls ->
       [kind : Kinds, token : PairOrNone, retried : BOOLEAN,
        pc : {"idle", "sent", "served", "waiting", "clearAccess", "clearRefresh",
              "outAccess", "outRefresh"}]]]
  /\ faults \in 0..MaxFaults /\ outs \in 0..MaxOuts

\* "the presented token is single-use" (auth.service.ts:192): no refresh token has two
\* successors, although the server's check and its revocation are two statements, as long as
\* no connection is lost and no app is killed: the app never presents a token twice.
SingleUse == faults = 0 => \A p \in Pairs : token[p].uses <= 1

\* A user who neither logs out nor loses a connection is never sent back to the login screen,
\* whatever calls are refused at once while tokens are rotated and written (AuthInterceptor).
NeverForcedOut ==
  faults = 0 /\ outs = 0 => \A d \in Devices :
    /\ \A c \in Calls : call[d][c].pc \notin {"clearAccess", "clearRefresh", "outAccess", "outRefresh"}
    /\ session[d] = "in" /\ flow[d]["refresh"].st = "none" =>
         /\ store[d].access = store[d].refresh
         /\ token[store[d].refresh].live

\* Requests that know the user and are still to issue a pair.
Knowing == {h \in Handlers : pc[h] \in {"revoke", "insert"} /\ job[h].known}
Live == {p \in Pairs : token[p].live}

\* Once the account is deleted no request gets to know the user any more, and only one that
\* did before issues another pair: a device whose refresh token outlived the account cannot
\* prolong its session (UsersService.softDeleteUser, AuthService.refresh).
DeletedStaysOut ==
  [][account = "deleted" =>
       Knowing' \subseteq Knowing /\ (Live' \subseteq Live \/ Knowing' # Knowing)]_vars

\* Every call of the app ends, and refreshing does not go round in circles ("rather than
\* looping forever", auth_interceptor.dart:8), even for a password that stays wrong.
CallsEnd == \A d \in Devices, c \in Calls : call[d][c].pc # "idle" ~> call[d][c].pc = "idle"
=============================================================================
