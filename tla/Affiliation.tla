---------------------------- MODULE Affiliation -----------------------------
(***************************************************************************)
(* The teacher's profile and its place in an institute:                    *)
(* TeacherProfilesService, VerificationReviewService, TeacherInvites-      *)
(* Service, InstitutesService.archive and PayoutsService.markPaid.         *)
(*                                                                         *)
(* None of these handlers has a transaction: each statement commits on its *)
(* own.  The relation to an archived (soft-deleted) institute loads as     *)
(* null.                                                                   *)
(***************************************************************************)
EXTENDS School

CONSTANTS
  Codes,      \* the codes of invites
  Payouts,    \* the rows of institute_teacher_payouts
  PaidBy      \* the institute of each payout

ASSUME InvitesAssumption == None \notin [institute : Institutes, redeemedBy : Teachers \cup {None}]

VARIABLES
  archived,   \* the institutes that are soft-deleted
  invites,    \* table teacher_institute_invites: [institute, redeemedBy], or None
  expired,    \* the codes that have expired
  verifications, \* table verification_requests: [teacher, status], oldest first
  payments    \* table institute_teacher_payouts: how often each row was saved as paid

paperwork == <<verifications, payments>>
affiliation == <<archived, invites, expired, paperwork>>

Invite(i, t) == [institute |-> i, redeemedBy |-> t]
Request(t, s) == [teacher |-> t, status |-> s]
Loaded(i) == IF i \in archived THEN None ELSE i

\* assertInstituteAccess
Manages(q) == {i \in Institutes : q.role = "super_admin" \/ Administers(q, i)}

-----------------------------------------------------------------------------
CreateProfile(h) ==
  \E q \in Callers(h, "createProfile", "teacher_profile_manage"), t \in Teachers :
    /\ UserOf[t] = q.user /\ profile[t] = None
    /\ Start(h, [at |-> "insertProfile", teacher |-> t])
    /\ UNCHANGED <<school, affiliation>>

\* UNIQUE (user) refuses a second profile.
InsertProfile(h) ==
  LET t == req[h].teacher
  IN /\ req[h].at = "insertProfile"
     /\ profile' = IF profile[t] # None THEN profile
                   ELSE [profile EXCEPT ![t] = ProfileRow(None, "unverified")]
     /\ Reply(h)
     /\ UNCHANGED <<people, enrolled, told, affiliation>>

\* update saves what findById selects: the verification status with it, not the institute.
UpdateProfile(h) ==
  \E q \in Callers(h, "updateProfile", "teacher_profile_manage") : \E t \in ProfileOf(q) :
    /\ Start(h, [at |-> "saveProfile", teacher |-> t,
                                  verification |-> profile[t].verification])
    /\ UNCHANGED <<school, affiliation>>

SaveProfile(h) ==
  LET m == req[h]
  IN /\ m.at = "saveProfile"
     /\ profile' = [profile EXCEPT ![m.teacher].verification = m.verification]
     /\ Reply(h)
     /\ UNCHANGED <<people, enrolled, told, affiliation>>

\* submitVerificationRequest inserts the request and then saves the profile as pending.
SubmitVerification(h) ==
  \E q \in Callers(h, "submitVerification", "teacher_profile_manage") : \E t \in ProfileOf(q) :
    /\ Start(h, [at |-> "saveProfile", teacher |-> t,
                                       verification |-> "pending"])
    /\ verifications' = Append(verifications, Request(t, "pending"))
    /\ UNCHANGED <<school, archived, invites, expired, payments>>

\* Mutants: any decision verifies; a code that was redeemed is open again.
VerdictAny(decision) == "verified"
RedeemableAgain(c) == invites[c] # None /\ c \notin expired
\* review loads a pending request, saves it with the decision and then updates the profile.
Verdict(decision) == IF decision = "approved" THEN "verified" ELSE "unverified"
Review(h) ==
  \E q \in Callers(h, "review", "verification_review"), i \in DOMAIN verifications, decision \in {"approved", "rejected"} :
    /\ verifications[i].status = "pending"
    /\ Start(h, [at |-> "saveRequest", request |-> i, decision |-> decision])
    /\ UNCHANGED <<school, affiliation>>

SaveRequest(h) ==
  LET m == req[h]
  IN /\ m.at = "saveRequest"
     /\ verifications' = [verifications EXCEPT ![m.request].status = m.decision]
     /\ Goes(h, [at |-> "saveProfile", teacher |-> verifications[m.request].teacher,
                 verification |-> Verdict(m.decision)])
     /\ UNCHANGED <<school, archived, invites, expired, payments>>

-----------------------------------------------------------------------------
CreateInvite(h) ==
  \E q \in Callers(h, "createInvite", "teacher_invite_manage"), c \in Codes : \E i \in Manages(q) \ archived :
    /\ invites[c] = None
    /\ Start(h, Idle)
    /\ invites' = [invites EXCEPT ![c] = Invite(i, None)]
    /\ UNCHANGED <<school, archived, expired, paperwork>>

Expire(c) ==
  /\ invites[c] # None /\ c \notin expired
  /\ expired' = expired \cup {c}
  /\ UNCHANGED <<server, school, archived, invites, paperwork>>

\* redeemInvite: an open code and a teacher without an institute ...
Redeemable(c) == invites[c] # None /\ c \notin expired /\ invites[c].redeemedBy = None
Redeem(h) ==
  \E q \in Callers(h, "redeemInvite", "teacher_invite_redeem"), c \in Codes : \E t \in ProfileOf(q) :
    /\ Redeemable(c) /\ Loaded(profile[t].institute) = None
    /\ Start(h, [at |-> "affiliate", code |-> c, teacher |-> t,
                                 institute |-> Loaded(invites[c].institute)])
    /\ UNCHANGED <<school, affiliation>>

\* ... the profile is updated ...
Affiliate(h) ==
  LET m == req[h]
  IN /\ m.at = "affiliate"
     /\ profile' = [profile EXCEPT ![m.teacher].institute = m.institute]
     /\ Goes(h, [m EXCEPT !.at = "redeemed"])
     /\ UNCHANGED <<people, enrolled, told, affiliation>>

\* ... and then the invite is saved as redeemed, which fails without its institute (NOT NULL).
Redeemed(h) ==
  LET m == req[h]
  IN /\ m.at = "redeemed"
     /\ invites' = IF m.institute = None THEN invites
                   ELSE [invites EXCEPT ![m.code] = Invite(m.institute, m.teacher)]
     /\ Reply(h)
     /\ UNCHANGED <<school, archived, expired, paperwork>>

Archive(h) ==
  \E q \in Callers(h, "archiveInstitute", "institute_manage") : \E i \in Manages(q) \ archived :
    /\ Start(h, Idle)
    /\ archived' = archived \cup {i}
    /\ UNCHANGED <<school, invites, expired, paperwork>>

\* markPaid loads a payout that is not paid and saves it as paid.
MarkPaid(h) ==
  \E q \in Callers(h, "markPaid", "payout_manage"), p \in Payouts :
    /\ PaidBy[p] \in Manages(q) /\ payments[p] = 0
    /\ Start(h, [at |-> "savePayout", payout |-> p])
    /\ UNCHANGED <<school, affiliation>>

SavePayout(h) ==
  /\ req[h].at = "savePayout"
  /\ payments' = [payments EXCEPT ![req[h].payout] = @ + 1]
  /\ Reply(h)
  /\ UNCHANGED <<school, archived, invites, expired, verifications>>

AffiliationInit ==
  /\ archived = {} /\ expired = {}
  /\ invites = [c \in Codes |-> None]
  /\ verifications = <<>>
  /\ payments = [p \in Payouts |-> 0]

AffiliationStep(h) ==
  \/ CreateProfile(h) \/ InsertProfile(h) \/ UpdateProfile(h) \/ SaveProfile(h)
  \/ SubmitVerification(h) \/ Review(h) \/ SaveRequest(h)
  \/ CreateInvite(h) \/ Redeem(h) \/ Affiliate(h) \/ Redeemed(h) \/ Archive(h)
  \/ MarkPaid(h) \/ SavePayout(h)

-----------------------------------------------------------------------------
Resting == \A h \in Requests : req[h] = Idle

\* One call at a time, a profile is verified only by an approved request, wherever a handler
\* died; and when none did, a pending profile has a request in the queue of reviews.
Verified == {t \in Teachers : FirstProfile[t] # None /\ FirstProfile[t].verification = "verified"}
VerificationBacked ==
  Serial =>
    \A t \in {x \in Teachers : profile[x] # None} :
      LET has(status) == \E i \in DOMAIN verifications : verifications[i] = Request(t, status)
      IN /\ (profile[t].verification = "verified" /\ t \notin Verified) => has("approved")
         /\ (profile[t].verification = "pending" /\ Resting /\ deaths = 0) => has("pending")

\* A code brings one teacher to its institute and a payout is paid once, except for calls that
\* overlap or die after the profile was updated.
UsedOnce ==
  /\ \A p \in Payouts : payments[p] <= Racing
  /\ (Resting /\ archived = {}) =>
          \A i \in Institutes :
            LET joined == {t \in Teachers : /\ profile[t] # None /\ profile[t].institute = i
                                            /\ FirstProfile[t] = None \/ FirstProfile[t].institute # i}
                used == {c \in Codes : invites[c] # None /\ invites[c].institute = i /\ invites[c].redeemedBy # None}
            IN /\ Cardinality(joined) <= Racing * Cardinality(used) + deaths
               /\ Serial => Cardinality(used) <= Cardinality(joined)
=============================================================================
