------------------------------ MODULE Workflows ------------------------------
(***************************************************************************)
(* What the server does beside answering requests: it pushes notifications *)
(* and works on jobs, in the one process of both.                          *)
(***************************************************************************)
EXTENDS Notifications, Jobs

vars == <<server, inbox, jobs>>

Init == ServerInit /\ InboxInit /\ JobsInit

\* The work on an accepted request, a job or a digest goes on.
Proceed(h) ==
  \/ NotificationsStep(h) /\ UNCHANGED jobs
  \/ JobsStep(h) /\ UNCHANGED inbox

Next ==
  \/ \E h \in Requests \ Digests :
       \/ NotificationsStart(h) /\ UNCHANGED jobs
       \/ CreateJob(h) /\ UNCHANGED inbox
  \/ \E h \in Requests :
       \/ Proceed(h)
       \/ RunDigest(h) /\ UNCHANGED jobs
       \/ Throws(h) /\ UNCHANGED jobs
  \/ Crash /\ UNCHANGED <<inbox, jobs>>

\* The event loop serves whatever is in progress, and the timer of a digest fires again and
\* again; no call has to arrive.
Fairness ==
  /\ \A h \in Requests : WF_vars(Proceed(h))
  /\ \A h \in Digests : WF_vars(RunDigest(h) /\ UNCHANGED jobs)

Spec == Init /\ [][Next]_vars /\ Fairness
=============================================================================
