------------------------------- MODULE Sharing -------------------------------
(***************************************************************************)
(* NotesService (documents, shares, downloads) and AnnouncementsService.   *)
(* Both decide on their own whom something addressed to a student, a class *)
(* or an institute reaches: NotesService in one way for what it lists and  *)
(* in another for what it opens, AnnouncementsService in a third.          *)
(***************************************************************************)
EXTENDS Classroom

CONSTANTS
  Documents,      \* the rows table documents may get
  FirstDocument   \* table documents at first

VARIABLES
  doc,         \* table documents: [uploader, institute, version], or None
  lapsed,      \* the documents whose expiryDate has passed
  shares,      \* table document_shares: the rows, oldest first
  accessLog,   \* table document_access_logs: [user, document]
  announced    \* table announcements: the targets, oldest first

library == <<doc, lapsed, shares, accessLog>>
sharing == <<library, announced>>

ToInstitute(i) == [type |-> "institute", id |-> i]
Platform == [type |-> "platform", id |-> None]
DocumentRow(u, i, n) == [uploader |-> u, institute |-> i, version |-> n]
Share(d, target, download) == [document |-> d, with |-> target, download |-> download]

-----------------------------------------------------------------------------
\* What NotesService opens.

\* assertWriteAccess
CanWriteDocument(d, q) ==
  q.role = "super_admin" \/ doc[d].uploader = q.user \/ Administers(q, doc[d].institute)

\* Mutant: the guardians are forgotten.
IsSelfOrTeacher(s, q) == s \in StudentOf(q) \/ Teaches(q, s)
IsSelfGuardianOrTeacher(s, q) == s \in StudentOf(q) \/ Teaches(q, s) \/ s \in ChildrenOf(q)

HasAccessToClass(c, q) ==
  \/ TeacherOf[c] \in ProfileOf(q)
  \/ \E s \in Roster(c) : s \in StudentOf(q) \/ s \in ChildrenOf(q)

GrantsAccess(target, q) ==
  CASE target.type = "institute" -> q.institute = target.id
    [] target.type = "student"   -> student[target.id] # None /\ IsSelfGuardianOrTeacher(target.id, q)
    [] target.type = "class"     -> class[target.id] # None /\ HasAccessToClass(target.id, q)

SharesOf(d) == {shares[i] : i \in {j \in DOMAIN shares : shares[j].document = d}}
CanReadDocument(d, q) ==
  CanWriteDocument(d, q) \/ \E x \in SharesOf(d) : GrantsAccess(x.with, q)
CanDownload(d, q) ==
  CanWriteDocument(d, q) \/ \E x \in SharesOf(d) : x.download /\ GrantsAccess(x.with, q)

\* What NotesService lists.
ReachedBy(S) == {ToStudent(s) : s \in S} \cup {ToClass(c) : c \in UNION {ClassesOf(s) : s \in S}}
Taught(q) == {s \in Students : Teaches(q, s)}
TaughtClasses(q) == {c \in Classes : class[c] # None /\ TeacherOf[c] \in ProfileOf(q)}
RelevantShareTargets(q) ==
  {ToInstitute(i) : i \in {q.institute} \ {None}}
    \cup ReachedBy(StudentOf(q)) \cup ReachedBy(ChildrenOf(q))
    \cup {ToStudent(s) : s \in Taught(q)} \cup {ToClass(c) : c \in TaughtClasses(q)}

Stored == {d \in Documents : doc[d] # None}
\* Mutant: the institute of a document is not looked at.
ListedDocumentsOfAll(q) ==
  CASE q.role \in {"super_admin", "institute_admin"} -> Stored
    [] OTHER -> {d \in Stored : \/ doc[d].uploader = q.user
                                \/ \E x \in SharesOf(d) : x.with \in RelevantShareTargets(q)}
ListedDocuments(q) ==
  CASE q.role = "super_admin"     -> Stored
    [] q.role = "institute_admin" -> {d \in Stored : doc[d].institute = q.institute}
    [] OTHER -> {d \in Stored : \/ doc[d].uploader = q.user
                                \/ \E x \in SharesOf(d) : x.with \in RelevantShareTargets(q)}

\* What AnnouncementsService lists.
InstitutesOf(S) == {ToInstitute(i) : i \in {student[s].institute : s \in S} \ {None}}
ClassTargets(S) == {ToClass(c) : c \in UNION {ClassesOf(s) : s \in S}}
RelevantTargets(q) ==
  {Platform} \cup
  CASE q.role = "institute_admin" ->
         {ToInstitute(q.institute)} \cup
         {ToClass(c) : c \in {x \in Classes : class[x] # None /\ class[x].institute = q.institute}}
    [] q.role = "teacher" ->
         {ToInstitute(i) : i \in {profile[t].institute : t \in ProfileOf(q)} \ {None}}
           \cup {ToClass(c) : c \in TaughtClasses(q)}
    [] q.role = "student" -> InstitutesOf(StudentOf(q)) \cup ClassTargets(StudentOf(q))
    [] q.role = "parent" -> InstitutesOf(ChildrenOf(q)) \cup ClassTargets(ChildrenOf(q))
    [] OTHER -> {}
ListedAnnouncements(q) ==
  IF q.role = "super_admin" THEN DOMAIN announced
  ELSE {i \in DOMAIN announced : announced[i] \in RelevantTargets(q)}

-----------------------------------------------------------------------------
\* createDocument: a first version, or the next one of a document of one's own.
CreateDocument(h) ==
  \E q \in Callers(h, "createDocument", "note_manage"), d \in Documents \ Stored :
    \E p \in {None} \cup {x \in Stored : doc[x].uploader = q.user} :
      /\ Start(h, Idle)
      /\ doc' = [doc EXCEPT ![d] =
           DocumentRow(q.user, q.institute, IF p = None THEN 1 ELSE doc[p].version + 1)]
      /\ UNCHANGED <<school, classroom, lapsed, shares, accessLog, announced>>

ShareTargets ==
  {ToStudent(s) : s \in {x \in Students : student[x] # None}}
    \cup {ToClass(c) : c \in {x \in Classes : class[x] # None}}
    \cup {ToInstitute(i) : i \in Institutes}

\* createShare saves the share and then tells the student's people.
CreateShare(h) ==
  \E q \in Callers(h, "createShare", "note_manage"), target \in ShareTargets, download \in BOOLEAN : \E d \in Stored :
    /\ CanWriteDocument(d, q)
    /\ Start(h, IF target.type = "student" THEN Tell(d, target) ELSE Idle)
    /\ shares' = Append(shares, Share(d, target, download))
    /\ UNCHANGED <<school, classroom, doc, lapsed, accessLog, announced>>

Lapse(d) ==
  /\ "getFileContent" \in plan.ops   \* bound: nothing else looks at it
  /\ doc[d] # None /\ d \notin lapsed
  /\ lapsed' = lapsed \cup {d}
  /\ UNCHANGED <<server, school, classroom, doc, shares, accessLog, announced>>

\* getFileContent checks, logs the download and then reads the file.
GetFileContent(h) ==
  \E q \in Callers(h, "getFileContent", "note_read") : \E d \in Stored \ lapsed :
    /\ CanDownload(d, q)
    /\ Start(h, Idle)
    /\ accessLog' = accessLog \cup {[user |-> q.user, document |-> d]}
    /\ UNCHANGED <<school, classroom, doc, lapsed, shares, announced>>

\* The targets q may announce something to.
AnnouncementTargets(q) ==
  CASE q.role = "super_admin"     -> {Platform}
    [] q.role = "institute_admin" -> {ToInstitute(q.institute)}
    [] OTHER                      -> {ToClass(c) : c \in TaughtClasses(q)}
CreateAnnouncement(h) ==
  \E q \in Callers(h, "createAnnouncement", "announcement_manage") : \E target \in AnnouncementTargets(q) :
    /\ Start(h, Idle)
    /\ announced' = Append(announced, target)
    /\ UNCHANGED <<school, classroom, library>>

SharingInit ==
  /\ doc = FirstDocument
  /\ lapsed = {} /\ shares = <<>> /\ accessLog = {} /\ announced = <<>>

SharingStep(h) ==
  \/ CreateDocument(h) \/ CreateShare(h)
  \/ GetFileContent(h) \/ CreateAnnouncement(h)
=============================================================================
