-------------------------------- MODULE Jobs ---------------------------------
(***************************************************************************)
(* The jobs of ReportsService (exports) and StudentImportService: the      *)
(* request inserts a row and is answered, and the work goes on in the same *)
(* process, which nothing takes up again when it dies.                     *)
(***************************************************************************)
EXTENDS Server

CONSTANTS
  Exports, Imports,   \* the jobs that may be asked for
  RowsOf              \* the number of rows of each import's file

ASSUME JobsAssumption ==
  /\ RowsOf \in [Imports -> Nat \ {0}] /\ Exports \cap Imports = {}
  /\ None \notin {"pending", "processing", "completed", "failed"}

VARIABLES
  status,     \* tables export_jobs and student_import_jobs: the status of each job, or None
  counts,     \* the saved counts of an import: [success, failure]
  stored,     \* the exports whose file is in the storage
  created     \* history: the students each import has created

jobs == <<status, counts, stored, created>>
Counts(s, f) == [success |-> s, failure |-> f]

\* createExportJob and createImportJob
CreateJob(h) ==
  \E j \in Exports \cup Imports :
    /\ Arrives(h, "createJob") /\ status[j] = None
    /\ Start(h, [at |-> "begin", job |-> j])
    /\ status' = [status EXCEPT ![j] = "pending"]
    /\ UNCHANGED <<counts, stored, created>>

Begin(h) ==
  LET j == req[h].job
  IN /\ req[h].at = "begin"
     /\ status' = [status EXCEPT ![j] = "processing"]
     /\ Goes(h, IF j \in Exports THEN [at |-> "generate", job |-> j]
                ELSE [at |-> "rows", job |-> j, counts |-> Counts(0, 0)])
     /\ UNCHANGED <<counts, stored, created>>

-----------------------------------------------------------------------------
\* processExportJob: whatever fails in the try block ends in the catch block.
Generate(h) ==
  /\ req[h].at = "generate"
  /\ Goes(h, [req[h] EXCEPT !.at = "write"])
  /\ UNCHANGED jobs

WriteObject(h) ==
  /\ req[h].at = "write"
  /\ stored' = stored \cup {req[h].job}
  /\ Goes(h, [req[h] EXCEPT !.at = "complete"])
  /\ UNCHANGED <<status, counts, created>>

Complete(h) ==
  /\ req[h].at = "complete"
  /\ status' = [status EXCEPT ![req[h].job] = "completed"]
  /\ Reply(h)
  /\ UNCHANGED <<counts, stored, created>>

Throw(h) ==
  /\ req[h].at \in {"generate", "write", "complete"}
  /\ Goes(h, [req[h] EXCEPT !.at = "catch"])
  /\ UNCHANGED jobs

\* Mutant: the error is only logged.
CatchQuietly(h) ==
  /\ req[h].at = "catch"
  /\ Reply(h)
  /\ UNCHANGED jobs

Catch(h) ==
  /\ req[h].at = "catch"
  /\ status' = [status EXCEPT ![req[h].job] = "failed"]
  /\ Reply(h)
  /\ UNCHANGED <<counts, stored, created>>

-----------------------------------------------------------------------------
\* processImportJob: each row is created or noted as an error, in a transaction of its own.
ImportRow(h) ==
  LET m == req[h]
  IN /\ m.at = "rows" /\ m.counts.success + m.counts.failure < RowsOf[m.job]
     /\ \/ /\ created' = [created EXCEPT ![m.job] = @ + 1]
           /\ Goes(h, [m EXCEPT !.counts.success = @ + 1])
        \/ /\ Goes(h, [m EXCEPT !.counts.failure = @ + 1])
           /\ UNCHANGED created
     /\ UNCHANGED <<status, counts, stored>>

\* Mutant: one bad row fails the import.
OutcomeOfAll(c) == IF c.failure > 0 THEN "failed" ELSE "completed"
Outcome(c) == IF c.success = 0 THEN "failed" ELSE "completed"

Finish(h) ==
  LET m == req[h]
  IN /\ m.at = "rows" /\ m.counts.success + m.counts.failure = RowsOf[m.job]
     /\ status' = [status EXCEPT ![m.job] = Outcome(m.counts)]
     /\ counts' = [counts EXCEPT ![m.job] = m.counts]
     /\ Reply(h)
     /\ UNCHANGED <<stored, created>>

JobsInit ==
  /\ status = [j \in Exports \cup Imports |-> None]
  /\ counts = [j \in Imports |-> Counts(0, 0)]
  /\ stored = {}
  /\ created = [j \in Imports |-> 0]

JobsStep(h) ==
  \/ Begin(h) \/ Generate(h) \/ WriteObject(h) \/ Complete(h) \/ Throw(h) \/ Catch(h)
  \/ ImportRow(h) \/ Finish(h)

-----------------------------------------------------------------------------
Running(j) == \E h \in Requests : req[h] # Idle /\ "job" \in DOMAIN req[h] /\ req[h].job = j
Ended(j) == status[j] \in {"completed", "failed"}
Abandoned(j) == ~Ended(j) /\ ~Running(j) /\ deaths > 0

\* Every accepted job ends, whatever goes wrong in it, unless the process died under it: then
\* it stays as it is, for no start of the server looks for it.
JobsEnd == \A j \in Exports \cup Imports : status[j] # None ~> Ended(j) \/ Abandoned(j)

\* What a job that has ended says is so: the file of a completed export is there, an import
\* counts the students it created and every row once, and it failed only if it created nobody.
\* Before it has ended, an import's counts say nothing of the students it has created.
JobsAccounted ==
  /\ \A j \in Exports : status[j] = "completed" => j \in stored
  /\ \A j \in Imports :
       IF Ended(j)
       THEN /\ counts[j].success = created[j]
            /\ counts[j].success + counts[j].failure = RowsOf[j]
            /\ status[j] = "failed" <=> created[j] = 0
       ELSE counts[j] = Counts(0, 0)
=============================================================================
