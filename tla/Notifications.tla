---------------------------- MODULE Notifications ----------------------------
(***************************************************************************)
(* NotificationsService and its scheduler: notifications are rows, pushed  *)
(* at once or by the digest of their channel, which a timer of the same    *)
(* process runs.  All events are of one category; the channels email and   *)
(* off are one.  The push provider is external: it may report tokens as    *)
(* invalid.                                                                *)
(***************************************************************************)
EXTENDS Server

CONSTANTS
  Digests,     \* the requests that are the timers' runs, named as their channels
  Users, Devices,
  Default,     \* DEFAULT_CHANNEL_BY_CATEGORY of the category
  MaxRows      \* bound: notifications in the table

ASSUME NotificationsAssumption ==
  Digests \subseteq Requests /\ {"push", "off"} \cap Digests = {} /\ MaxRows \in Nat

VARIABLES
  rows,        \* table notifications: [user, channel, delivered, read], oldest first
  preference,  \* table notification_preferences: the channel of each user, or None
  owner,       \* table device_push_tokens: the user of each token, or None
  deleted,     \* table users: the soft-deleted accounts, whose rows stay; a find that goes
               \* through the relation to such a user loads null or matches nothing
  pushed       \* history: how often each row was part of a push

inbox == <<rows, preference, owner, deleted, pushed>>

Channels == {"push", "off"} \cup Digests
Notification(u, channel) == [user |-> u, channel |-> channel, delivered |-> FALSE, read |-> FALSE]
DevicesOf(u) == {d \in Devices : owner[d] = u /\ u \notin deleted}
ResolveChannel(u) == IF preference[u] = None THEN Default ELSE preference[u]

\* The batches, one user's rows each, still to be pushed.
Pushing(todo) == [at |-> "findTokens", todo |-> todo]
PushNext(h, todo) == IF Len(todo) <= 1 THEN Reply(h) ELSE Goes(h, Pushing(Tail(todo)))

-----------------------------------------------------------------------------
\* notify, which nobody calls for a deleted user, reads the channel, inserts the row and may
\* push it.
Notify(h) ==
  \E u \in Users \ deleted :
    /\ Arrives(h, "notify") /\ Len(rows) < MaxRows
    /\ Start(h, [at |-> "insert", row |-> Notification(u, ResolveChannel(u))])
    /\ UNCHANGED inbox

Insert(h) ==
  LET row == req[h].row
  IN /\ req[h].at = "insert" /\ Len(rows) < MaxRows
     /\ rows' = Append(rows, row)
     /\ pushed' = Append(pushed, 0)
     /\ IF row.channel = "push" THEN Goes(h, Pushing(<<{Len(rows) + 1}>>)) ELSE Reply(h)
     /\ UNCHANGED <<preference, owner, deleted>>

\* runDigestBatch: the rows of the channel that are not delivered, a batch for each user.  A row
\* without its user throws while they are grouped: the run ends before it pushes anything.
Pending(channel) == {i \in DOMAIN rows : rows[i].channel = channel /\ ~rows[i].delivered}
Stuck(channel) == \E i \in Pending(channel) : rows[i].user \in deleted
Batches(channel) == {{i \in Pending(channel) : rows[i].user = u} : u \in Users} \ {{}}
RunDigest(h) ==
  \E todo \in SetToSeqs(Batches(h)) :
    /\ h \in Digests /\ req[h] = Idle /\ Pending(h) # {} /\ ~Stuck(h)
    /\ IsSorted(todo, LAMBDA a, b : Min(a) < Min(b))
    /\ Goes(h, Pushing(todo))
    /\ UNCHANGED inbox

\* pushNow, statement by statement; without a device there is nothing to do.
UserOfBatch(batch) == rows[Min(batch)].user

\* Mutant: a user without a device ends the run.
SkipAll(h, todo) == Reply(h)
Skip(h, todo) == PushNext(h, todo)

FindTokens(h) ==
  LET m == req[h]
      tokens == DevicesOf(UserOfBatch(m.todo[1]))
  IN /\ m.at = "findTokens"
     /\ IF tokens = {} THEN Skip(h, m.todo)
        ELSE Goes(h, [at |-> "send", todo |-> m.todo, tokens |-> tokens])
     /\ UNCHANGED inbox

Send(h) ==
  LET m == req[h]
  IN /\ m.at = "send"
     /\ pushed' = [i \in DOMAIN pushed |-> IF i \in m.todo[1] THEN pushed[i] + 1 ELSE pushed[i]]
     /\ \E invalid \in SUBSET m.tokens : Goes(h, [at |-> "prune", todo |-> m.todo, invalid |-> invalid])
     /\ UNCHANGED <<rows, preference, owner, deleted>>

Prune(h) ==
  LET m == req[h]
  IN /\ m.at = "prune"
     /\ owner' = [d \in Devices |-> IF d \in m.invalid THEN None ELSE owner[d]]
     /\ Goes(h, [at |-> "deliver", todo |-> m.todo])
     /\ UNCHANGED <<rows, preference, deleted, pushed>>

\* Mutant: the first row of the batch stands for all of them.
DeliveredFirst(batch) == [i \in DOMAIN rows |-> IF i = Min(batch) THEN [rows[i] EXCEPT !.delivered = TRUE] ELSE rows[i]]
Delivered(batch) == [i \in DOMAIN rows |-> IF i \in batch THEN [rows[i] EXCEPT !.delivered = TRUE] ELSE rows[i]]

Deliver(h) ==
  /\ req[h].at = "deliver"
  /\ rows' = Delivered(req[h].todo[1])
  /\ PushNext(h, req[h].todo)
  /\ UNCHANGED <<preference, owner, deleted, pushed>>

-----------------------------------------------------------------------------
\* markRead loads the row and saves it, with the deliveredAt it had; without the row's user it
\* throws.
MarkRead(h) ==
  \E i \in DOMAIN rows :
    /\ Arrives(h, "markRead") /\ ~rows[i].read /\ rows[i].user \notin deleted
    /\ Start(h, [at |-> "saveRead", index |-> i, row |-> [rows[i] EXCEPT !.read = TRUE]])
    /\ UNCHANGED inbox

SaveRead(h) ==
  /\ req[h].at = "saveRead"
  /\ rows' = [rows EXCEPT ![req[h].index] = req[h].row]
  /\ Reply(h)
  /\ UNCHANGED <<preference, owner, deleted, pushed>>

MarkAllRead(h) ==
  \E u \in Users :
    /\ Arrives(h, "markAllRead")
    /\ Start(h, Idle)
    /\ rows' = [i \in DOMAIN rows |-> IF rows[i].user = u THEN [rows[i] EXCEPT !.read = TRUE] ELSE rows[i]]
    /\ UNCHANGED <<preference, owner, deleted, pushed>>

\* updatePreference and registerDeviceToken look for a row and save it, or insert one: then
\* the unique index refuses a row that another call has inserted meanwhile.
UpdatePreference(h) ==
  \E u \in Users, channel \in Channels :
    /\ Arrives(h, "updatePreference")
    /\ Start(h, [at |-> "savePreference", user |-> u, channel |-> channel,
                 found |-> u \notin deleted /\ preference[u] # None])
    /\ UNCHANGED inbox

SavePreference(h) ==
  LET m == req[h]
  IN /\ m.at = "savePreference"
     /\ preference' = IF ~m.found /\ preference[m.user] # None THEN preference
                      ELSE [preference EXCEPT ![m.user] = m.channel]
     /\ Reply(h)
     /\ UNCHANGED <<rows, owner, deleted, pushed>>

RegisterDevice(h) ==
  \E u \in Users, d \in Devices :
    /\ Arrives(h, "registerDevice")
    /\ Start(h, [at |-> "saveDevice", user |-> u, device |-> d, found |-> owner[d] # None])
    /\ UNCHANGED inbox

SaveDevice(h) ==
  LET m == req[h]
  IN /\ m.at = "saveDevice"
     /\ owner' = IF ~m.found /\ owner[m.device] # None THEN owner
                 ELSE [owner EXCEPT ![m.device] = m.user]
     /\ Reply(h)
     /\ UNCHANGED <<rows, preference, deleted, pushed>>

\* deleteAccount: softDeleteUser leaves the user's notifications and devices where they are.
DeleteAccount(h) ==
  \E u \in Users \ deleted :
    /\ Arrives(h, "deleteAccount")
    /\ Start(h, Idle)
    /\ deleted' = deleted \cup {u}
    /\ UNCHANGED <<rows, preference, owner, pushed>>

\* A statement fails, or the provider rejects the push: the request, or the run, ends there.
Throws(h) ==
  /\ req[h].at \in {"insert", "findTokens", "send", "prune", "deliver", "saveRead",
                   "savePreference", "saveDevice"}
  /\ Die(h)
  /\ UNCHANGED inbox

InboxInit ==
  /\ rows = <<>> /\ pushed = <<>>
  /\ preference = [u \in Users |-> None]
  /\ owner = [d \in Devices |-> None]
  /\ deleted = {}

NotificationsStart(h) ==
  \/ Notify(h) \/ MarkRead(h) \/ MarkAllRead(h)
  \/ UpdatePreference(h) \/ RegisterDevice(h) \/ DeleteAccount(h)
NotificationsStep(h) ==
  \/ Insert(h)
  \/ FindTokens(h) \/ Send(h) \/ Prune(h) \/ Deliver(h)
  \/ SaveRead(h) \/ SavePreference(h) \/ SaveDevice(h)

-----------------------------------------------------------------------------
\* Every row of a digest channel is delivered in the end, unless its user has no device then
\* or the channel waits for ever behind a row whose user is deleted: neither a user without a
\* device nor a row that markRead saved over the mark, nor a run that died or threw, keeps the
\* others of the channel waiting.
DigestDelivered ==
  \A i \in 1..MaxRows :
    (i \in DOMAIN rows /\ rows[i].channel \in Digests)
      ~> (i \in DOMAIN rows /\ (\/ rows[i].delivered
                               \/ DevicesOf(rows[i].user) = {}
                               \/ Stuck(rows[i].channel)))

\* A notification is pushed at most once before it is read, and once more for every time the
\* process died or a statement failed: only a markRead that overlaps a push can send a row
\* again.
PushedOnce ==
  \A i \in DOMAIN rows : ~rows[i].read => pushed[i] <= 1 + deaths
=============================================================================
