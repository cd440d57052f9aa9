------------------------ MODULE IngestionQueueProofs ------------------------
(***************************************************************************)
(* What holds of the ingestion queue for any number of jobs, workers,      *)
(* callers, attempts, crashes and any lease length.                        *)
(***************************************************************************)
EXTENDS IngestionQueue, FiniteSetTheorems, TLAPS

(***************************************************************************)
(* The inductive invariant: types; a busy process is busy with a job; a    *)
(* row has an owner exactly when it has a lease, which is what keeps a     *)
(* heartbeat, which looks at the owner, from giving a lease to a row that  *)
(* must not have one; and a report has loaded such a row, so it writes     *)
(* both columns or neither, and found it finished only if it still is.     *)
(***************************************************************************)
BusyHasJob ==
  \A p \in Procs : proc[p].pc \in {"selected"} \cup AtWork
                     => proc[p].job \in Jobs /\ (proc[p].pc = "selected" => p \in Workers)

Paired(row) == (row.owner # NoOwner) <=> (row.expires # NoLease)

OwnerIffLease == \A j \in Jobs : Paired(job[j])

ReportsLoaded ==
  \A p \in Procs : proc[p].pc = "reporting" =>
    /\ proc[p].outcome \in Outcomes
    /\ proc[p].outcome = "completed" => proc[p].seen = Docs[proc[p].job]
    /\ Paired(proc[p].loaded)
    /\ proc[p].loaded.status \in Terminal => job[proc[p].job].status \in Terminal

AbsentUnclaimed == \A j \in Jobs : job[j].status = "absent" => job[j].attempts = 0

QueueInv == /\ TypeOK /\ BusyHasJob /\ OwnerIffLease /\ ReportsLoaded
            /\ AbsentUnclaimed /\ AttemptsBounded /\ LeaseDiscipline

\* A row that is absent has the type of a row.
LEMMA AbsentIsRow == Absent \in JobRow
BY DEF Absent, JobRow, Statuses, NoLease

\* What a submission inserts.
LEMMA NewRowIsRow ==
  ASSUME NEW status \in {"queued", "running"}, job \in [Jobs -> JobRow]
  PROVE  /\ NewRow(status) \in JobRow
         /\ NewRow(status).status = status
         /\ NewRow(status).attempts = 0
         /\ NewRow(status).owner = NoOwner
         /\ NewRow(status).expires = NoLease
         /\ NewRow(status).seen = 0
<1>1. NextStart \in Nat
  BY QueueAssumption, FS_Subset, FS_CardinalityType DEF NextStart
<1>2. QED
  BY <1>1 DEF NewRow, Absent, JobRow, Statuses, Terminal, NoLease

\* What each write does to a row.
LEMMA ClaimedRow ==
  ASSUME NEW r \in JobRow, NEW id \in Names, NEW e \in Nat
  PROVE  /\ Claimed(r, id, e) \in JobRow
         /\ Claimed(r, id, e).status = "running"
         /\ Claimed(r, id, e).owner = id
         /\ Claimed(r, id, e).expires = e
         /\ Claimed(r, id, e).attempts = r.attempts + 1
         /\ Claimed(r, id, e).seen = r.seen
<1> DEFINE a == r.attempts + 1
<1>1. a \in Nat /\ Claimed(r, id, e) =
        [r EXCEPT !.status = "running", !.owner = id, !.expires = e, !.attempts = a]
  BY DEF Claimed, JobRow
<1> HIDE DEF a
<1>2. Claimed(r, id, e) \in JobRow
  BY <1>1 DEF JobRow, Statuses
<1>3. QED
  BY <1>1, <1>2 DEF JobRow, a

\* What recover_stale_jobs makes of a row.
LEMMA RecoveredRow ==
  ASSUME NEW r \in JobRow
  PROVE  /\ Recovered(r) \in JobRow
         /\ Recovered(r).status = IF r.attempts >= MaxAttempts
                                  THEN "quarantined" ELSE "queued"
         /\ Recovered(r).owner = NoOwner
         /\ Recovered(r).expires = NoLease
         /\ Recovered(r).attempts = r.attempts
         /\ Recovered(r).seen = r.seen
BY DEF Recovered, JobRow, Statuses, Terminal, NoLease

\* What a heartbeat makes of a row.
LEMMA RenewedRow ==
  ASSUME NEW r \in JobRow, NEW e \in Nat
  PROVE  LET s == [r EXCEPT !.expires = e] IN
         /\ s \in JobRow /\ s.expires = e
         /\ s.status = r.status /\ s.owner = r.owner
         /\ s.attempts = r.attempts /\ s.seen = r.seen
BY DEF JobRow

\* What an outcome makes of the record that it has loaded.
LEMMA ClosedRow ==
  ASSUME NEW r \in JobRow, NEW status \in Terminal, NEW n \in Nat
  PROVE  /\ Closed(r, status, n) \in JobRow
         /\ Closed(r, status, n).status = status
         /\ Closed(r, status, n).owner = NoOwner
         /\ Closed(r, status, n).expires = NoLease
         /\ Closed(r, status, n).attempts = r.attempts
         /\ Closed(r, status, n).seen = n
BY DEF Closed, JobRow, Statuses, NoLease

\* What it writes: a column that the record has as it was loaded stays.
LEMMA FlushedRow ==
  ASSUME NEW r \in JobRow, NEW old \in JobRow, NEW st \in Terminal, NEW n \in Nat,
         NEW new, new = Flushed(r, old, Closed(old, st, n))
  PROVE  /\ new \in JobRow
         /\ new.attempts = r.attempts
         /\ old.status = st => new.status = r.status
         /\ old.status # st => new.status = st
         /\ old.owner = NoOwner => new.owner = r.owner
         /\ old.owner # NoOwner => new.owner = NoOwner
         /\ old.expires = NoLease => new.expires = r.expires
         /\ old.expires # NoLease => new.expires = NoLease
         /\ old.seen = n => new.seen = r.seen
         /\ old.seen # n => new.seen = n
<1> DEFINE c == Closed(old, st, n)
<1>1. /\ c.status = st /\ c.owner = NoOwner /\ c.expires = NoLease /\ c.seen = n
      /\ c \in JobRow
  BY ClosedRow
<1> HIDE DEF c
<1>2. QED
  BY <1>1 DEF Flushed, JobRow, c

\* The row of a job that was loaded before it had this outcome.
LEMMA FinishedRow ==
  ASSUME NEW r \in JobRow, NEW old \in JobRow, NEW st \in Terminal, NEW n \in Nat,
         old.status # st
  PROVE  /\ Flushed(r, old, Closed(old, st, n)).status = st
         /\ Flushed(r, old, Closed(old, st, n)).attempts = r.attempts
<1> DEFINE new == Flushed(r, old, Closed(old, st, n))
<1>1. new = Flushed(r, old, Closed(old, st, n))
  OBVIOUS
<1> HIDE DEF new
<1>2. new.status = st /\ new.attempts = r.attempts
  BY <1>1, FlushedRow
<1> QED
  BY <1>2 DEF new

\* What a process holds after a document.
LEMMA AdvancedState ==
  ASSUME NEW r \in ProcState, NEW e \in Nat
  PROVE  LET s == [r EXCEPT !.seen = r.seen + 1, !.lease = e] IN
         /\ s \in ProcState /\ s.lease = e
         /\ s.pc = r.pc /\ s.job = r.job /\ s.seen = r.seen + 1
<1> DEFINE n == r.seen + 1
<1>1. n \in Nat
  BY DEF ProcState
<1> HIDE DEF n
<1>2. [r EXCEPT !.seen = n, !.lease = e] \in ProcState
  BY <1>1 DEF ProcState
<1>3. QED
  BY <1>2 DEF ProcState, n

\* The invariant holds of an empty queue.
LEMMA InitQueueInv == Init => QueueInv
BY QueueAssumption
   DEF Init, QueueInv, TypeOK, BusyHasJob, OwnerIffLease, Paired, ReportsLoaded,
       AbsentUnclaimed, AttemptsBounded, LeaseDiscipline, Absent, JobRow, Statuses, Terminal,
       Outcomes, ProcState, AtWork, Idle, Down, NoLease, Procs

\* Types and BusyHasJob: one step per action.
LEMMA TypeStep == QueueInv /\ [Next]_vars => (TypeOK /\ BusyHasJob)'
<1> SUFFICES ASSUME QueueInv, [Next]_vars PROVE (TypeOK /\ BusyHasJob)'
  OBVIOUS
<1> USE QueueAssumption DEF QueueInv, TypeOK, BusyHasJob, AtWork
<1>0. /\ Idle \in ProcState /\ Idle.pc = "idle"
      /\ Down \in ProcState /\ Down.pc = "down"
      /\ \A w \in Workers : WorkerId[w] \in Names
      /\ Workers \subseteq Procs /\ Callers \subseteq Procs
  BY AbsentIsRow DEF Idle, Down, ProcState, NoLease, Names, Procs
<1>1. ASSUME NEW j \in Jobs, EnqueuePath(j) PROVE (TypeOK /\ BusyHasJob)'
  BY <1>1, NewRowIsRow DEF EnqueuePath
<1>2. ASSUME NEW c \in Callers, NEW j \in Jobs, IngestPath(c, j)
      PROVE  (TypeOK /\ BusyHasJob)'
  <2> DEFINE run == [Idle EXCEPT !.pc = "processing", !.job = j]
  <2>1. run \in ProcState /\ run.pc = "processing" /\ run.job = j
    BY AbsentIsRow DEF Idle, ProcState, NoLease
  <2>2. proc' = [proc EXCEPT ![c] = run] /\ job' = [job EXCEPT ![j] = NewRow("running")]
        /\ UNCHANGED <<clock, crashes>>
    BY <1>2 DEF IngestPath
  <2> HIDE DEF run
  <2>3. QED
    BY <1>0, <2>1, <2>2, NewRowIsRow
<1>3. ASSUME NEW w \in Workers, RunWorker(w) PROVE (TypeOK /\ BusyHasJob)'
  <2>1. ASSUME NEW j \in Jobs PROVE Recovered(job[j]) \in JobRow
    BY DEF Recovered, JobRow, Statuses, Terminal, NoLease
  <2>2. QED
    BY <1>0, <1>3, <2>1 DEF RunWorker
<1>4. ASSUME NEW w \in Workers, ClaimSelect(w) PROVE (TypeOK /\ BusyHasJob)'
  <2>1. PICK j \in Jobs : proc' = [proc EXCEPT ![w] =
                [Idle EXCEPT !.pc = "selected", !.job = j, !.now = clock]]
    BY <1>4 DEF ClaimSelect
  <2> DEFINE run == [Idle EXCEPT !.pc = "selected", !.job = j, !.now = clock]
  <2>2. run \in ProcState /\ run.pc = "selected" /\ run.job = j
    BY AbsentIsRow DEF Idle, ProcState, NoLease
  <2> HIDE DEF run
  <2>3. QED
    BY <1>0, <1>4, <2>1, <2>2 DEF ClaimSelect, run
<1>5. ASSUME NEW w \in Workers, ClaimUpdate(w) PROVE (TypeOK /\ BusyHasJob)'
  <2> DEFINE j == proc[w].job
             lease == proc[w].now + LeaseTime
             run == [Idle EXCEPT !.pc = "processing", !.job = j, !.lease = lease]
  <2>1. j \in Jobs /\ lease \in Nat
    BY <1>0, <1>5 DEF ClaimUpdate, ProcState
  <2>2. proc' = [proc EXCEPT ![w] = run]
        /\ job' = [job EXCEPT ![j] = Claimed(job[j], WorkerId[w], lease)]
        /\ UNCHANGED <<clock, crashes>>
    BY <1>5, <2>1 DEF ClaimUpdate
  <2> HIDE DEF j, lease
  <2>3. run \in ProcState /\ run.pc = "processing" /\ run.job = j
    BY <2>1, AbsentIsRow DEF Idle, ProcState, NoLease
  <2> HIDE DEF run
  <2>4. Claimed(job[j], WorkerId[w], lease) \in JobRow
    BY <1>0, <2>1, ClaimedRow
  <2>5. QED
    BY <1>0, <2>1, <2>2, <2>3, <2>4
<1>6. ASSUME NEW w \in Workers, ClaimLost(w) PROVE (TypeOK /\ BusyHasJob)'
  BY <1>0, <1>6 DEF ClaimLost
<1>7. ASSUME NEW p \in Procs, ProcessDocument(p) PROVE (TypeOK /\ BusyHasJob)'
  <2> DEFINE j == proc[p].job
             lease == IF HeartbeatMatches(p) THEN clock + LeaseTime ELSE proc[p].lease
             run == [proc[p] EXCEPT !.seen = proc[p].seen + 1, !.lease = lease]
             row == [job[j] EXCEPT !.expires = lease]
  <2>1. j \in Jobs /\ lease \in Nat /\ proc[p] \in ProcState
    BY <1>0, <1>7 DEF ProcessDocument, ProcState
  <2>2. /\ proc' = [proc EXCEPT ![p] = run]
        /\ job' = IF HeartbeatMatches(p) THEN [job EXCEPT ![j] = row] ELSE job
        /\ UNCHANGED <<clock, crashes>>
        /\ proc[p].pc = "processing"
    BY <1>7 DEF ProcessDocument
  <2> HIDE DEF lease
  <2>3. run \in ProcState /\ run.pc = proc[p].pc /\ run.job = proc[p].job
    BY <2>1, AdvancedState
  <2>4. row \in JobRow
    BY <2>1, RenewedRow
  <2> HIDE DEF j, run, row
  <2>5. proc' \in [Procs -> ProcState]
    BY <2>2, <2>3
  <2>6. BusyHasJob'
    BY <2>2, <2>3
  <2>7. job' \in [Jobs -> JobRow]
    BY <2>1, <2>2, <2>4
  <2>8. QED
    BY <2>2, <2>5, <2>6, <2>7
<1>8. ASSUME NEW p \in Procs, CompleteJob(p) \/ FailJob(p)
      PROVE  (TypeOK /\ BusyHasJob)'
  <2>1. PICK outcome \in Outcomes : LoadRow(p, outcome)
    BY <1>8 DEF CompleteJob, FailJob, Outcomes
  <2> DEFINE run == [proc[p] EXCEPT !.pc = "reporting", !.outcome = outcome,
                                    !.loaded = job[proc[p].job]]
  <2>2. proc[p] \in ProcState /\ job[proc[p].job] \in JobRow
    BY <2>1 DEF LoadRow
  <2>3. run \in ProcState /\ run.pc = "reporting" /\ run.job = proc[p].job
    BY <2>2 DEF ProcState
  <2>4. proc' = [proc EXCEPT ![p] = run] /\ UNCHANGED <<job, clock, crashes>>
        /\ proc[p].pc = "processing"
    BY <2>1 DEF LoadRow
  <2> HIDE DEF run
  <2>5. QED
    BY <2>3, <2>4
<1>8a. ASSUME NEW p \in Procs, WriteOutcome(p)
       PROVE  (TypeOK /\ BusyHasJob)'
  <2> DEFINE j == proc[p].job
             row == Flushed(job[j], proc[p].loaded,
                            Closed(proc[p].loaded, proc[p].outcome, proc[p].seen))
  <2>1. /\ j \in Jobs /\ job[j] \in JobRow /\ proc[p].loaded \in JobRow
        /\ proc[p].seen \in Nat /\ proc[p].outcome \in Terminal
    BY <1>8a DEF WriteOutcome, ProcState, ReportsLoaded, Terminal
  <2>2. row \in JobRow
    <3> DEFINE r == job[j]
               old == proc[p].loaded
               o == proc[p].outcome
               n == proc[p].seen
    <3>1. /\ r \in JobRow /\ old \in JobRow /\ o \in Terminal /\ n \in Nat
          /\ row = Flushed(r, old, Closed(old, o, n))
      BY <2>1
    <3> HIDE DEF row, j, r, old, o, n
    <3> QED
      BY <3>1, FlushedRow
  <2>3. /\ job' = [job EXCEPT ![j] = row] /\ proc' = [proc EXCEPT ![p] = Idle]
        /\ UNCHANGED <<clock, crashes>>
    BY <1>8a DEF WriteOutcome
  <2> HIDE DEF j, row
  <2>4. QED
    BY <1>0, <2>1, <2>2, <2>3
<1>9. ASSUME NEW p \in Procs, LoseOutcome(p) PROVE (TypeOK /\ BusyHasJob)'
  BY <1>0, <1>9 DEF LoseOutcome
<1>10. ASSUME NEW p \in Procs, Crash(p) PROVE (TypeOK /\ BusyHasJob)'
  BY <1>0, <1>10 DEF Crash
<1>11. CASE Tick
  BY <1>11 DEF Tick
<1>12. CASE UNCHANGED vars
  BY <1>12 DEF vars
<1>13. QED
  BY <1>1, <1>2, <1>3, <1>4, <1>5, <1>6, <1>7, <1>8, <1>8a, <1>9, <1>10, <1>11, <1>12
     DEF Next, RunNextJob, ProcessJob

(***************************************************************************)
(* How one step may change a row: everything about the table alone follows *)
(* from these six cases.                                                   *)
(***************************************************************************)
Inserted(j) == /\ job[j].status = "absent"
               /\ \E status \in {"queued", "running"} : job'[j] = NewRow(status)
Taken(j) == /\ job[j].status = "queued"
            /\ \E w \in Workers, e \in Nat \ {0} :
                 job'[j] = Claimed(job[j], WorkerId[w], e)
GivenUp(j) == Expired(j) /\ job'[j] = Recovered(job[j])
Renewed(j) == /\ job[j].status = "running"
              /\ \E w \in Workers, e \in Nat \ {0} :
                   /\ Works(w, j) /\ proc'[w].lease = e
                   /\ job[j].owner = WorkerId[w]
                   /\ job'[j] = [job[j] EXCEPT !.expires = e]
Reported(j) == \E p \in Procs :
                 /\ Works(p, j) /\ proc[p].pc = "reporting" /\ proc'[p] = Idle
                 /\ \A q \in Procs \ {p} : proc'[q] = proc[q]
                 /\ job'[j] = Flushed(job[j], proc[p].loaded,
                                 Closed(proc[p].loaded, proc[p].outcome, proc[p].seen))

RowChange(j) == \/ job'[j] = job[j]
                \/ Inserted(j) \/ Taken(j) \/ GivenUp(j) \/ Renewed(j) \/ Reported(j)

\* Every step changes each row in one of the ways of RowChange, or not at all.
LEMMA RowChanges == QueueInv /\ [Next]_vars => \A j \in Jobs : RowChange(j)
<1> SUFFICES ASSUME QueueInv, [Next]_vars, NEW j \in Jobs PROVE RowChange(j)
  OBVIOUS
<1> USE QueueAssumption DEF QueueInv, TypeOK, BusyHasJob, AtWork
<1>0. Workers \subseteq Procs /\ Callers \subseteq Procs
  BY DEF Procs
<1>1. ASSUME NEW k \in Jobs, EnqueuePath(k) PROVE RowChange(j)
  BY <1>1 DEF EnqueuePath, RowChange, Inserted
<1>2. ASSUME NEW c \in Callers, NEW k \in Jobs, IngestPath(c, k) PROVE RowChange(j)
  BY <1>2 DEF IngestPath, RowChange, Inserted
<1>3. ASSUME NEW w \in Workers, RunWorker(w) PROVE RowChange(j)
  BY <1>3 DEF RunWorker, RowChange, GivenUp
<1>4. ASSUME NEW w \in Workers, ClaimUpdate(w) PROVE RowChange(j)
  <2> DEFINE e == proc[w].now + LeaseTime
  <2>1. e \in Nat \ {0}
    BY <1>0 DEF ProcState
  <2>2. job' = [job EXCEPT ![proc[w].job] = Claimed(job[proc[w].job], WorkerId[w], e)]
        /\ job[proc[w].job].status = "queued"
    BY <1>4 DEF ClaimUpdate, StillQueued
  <2> HIDE DEF e
  <2>3. QED
    BY <2>1, <2>2 DEF RowChange, Taken
<1>5. ASSUME NEW p \in Procs, ProcessDocument(p) PROVE RowChange(j)
  <2> DEFINE e == clock + LeaseTime
  <2>1. e \in Nat \ {0}
    OBVIOUS
  <2>2. job' = IF HeartbeatMatches(p)
               THEN [job EXCEPT ![proc[p].job] = [job[proc[p].job] EXCEPT !.expires = e]]
               ELSE job
    BY <1>5 DEF ProcessDocument
  <2>3. HeartbeatMatches(p) => proc'[p].lease = e
    <3> SUFFICES ASSUME HeartbeatMatches(p) PROVE proc'[p].lease = e
      OBVIOUS
    <3>1. proc' = [proc EXCEPT ![p] = [proc[p] EXCEPT !.seen = proc[p].seen + 1, !.lease = e]]
      BY <1>5 DEF ProcessDocument
    <3> HIDE DEF e
    <3> QED
      BY <2>1, <3>1, AdvancedState
  <2>4. proc[p].pc = "processing"
    BY <1>5 DEF ProcessDocument
  <2> HIDE DEF e
  <2>5. QED
    BY <2>1, <2>2, <2>3, <2>4 DEF RowChange, Renewed, HeartbeatMatches, Works
<1>6. ASSUME NEW p \in Procs, WriteOutcome(p) PROVE RowChange(j)
  BY <1>6 DEF WriteOutcome, RowChange, Reported, Works
<1>7. ASSUME job' = job PROVE RowChange(j)
  BY <1>7 DEF RowChange
<1>8. QED
  BY <1>1, <1>2, <1>3, <1>4, <1>5, <1>6, <1>7
     DEF Next, RunNextJob, ProcessJob, ClaimSelect, ClaimLost, CompleteJob, FailJob,
         LoadRow, LoseOutcome, Crash, Tick, vars

\* What a report makes of a row: it is finished, whatever has become of it since
\* the report loaded it.
LEMMA ReportedRow ==
  ASSUME QueueInv, NEW j \in Jobs, Reported(j)
  PROVE  \E p \in Procs :
           LET old == proc[p].loaded
               seen == proc[p].seen
           IN  /\ Works(p, j) /\ proc[p].pc = "reporting" /\ proc'[p] = Idle
               /\ \A q \in Procs \ {p} : proc'[q] = proc[q]
               /\ proc[p].outcome \in Outcomes
               /\ job'[j].status \in Terminal
               /\ job'[j].status = IF old.status = proc[p].outcome THEN job[j].status
                                   ELSE proc[p].outcome
               /\ Paired(job'[j])
               /\ job'[j].attempts = job[j].attempts
               /\ job'[j].seen = IF old.seen = seen THEN job[j].seen ELSE seen
<1>1. PICK p \in Procs :
             /\ Works(p, j) /\ proc[p].pc = "reporting" /\ proc'[p] = Idle
             /\ \A q \in Procs \ {p} : proc'[q] = proc[q]
             /\ job'[j] = Flushed(job[j], proc[p].loaded,
                             Closed(proc[p].loaded, proc[p].outcome, proc[p].seen))
  BY DEF Reported
<1> DEFINE old == proc[p].loaded
           new == Flushed(job[j], old, Closed(old, proc[p].outcome, proc[p].seen))
<1>2. /\ job[j] \in JobRow /\ old \in JobRow /\ proc[p].seen \in Nat
      /\ proc[p].outcome \in Outcomes /\ proc[p].outcome \in Terminal
      /\ Paired(job[j]) /\ Paired(old)
      /\ old.status \in Terminal => job[j].status \in Terminal
  BY <1>1 DEF QueueInv, TypeOK, ProcState, ReportsLoaded, OwnerIffLease, Works, Terminal
<1>3. /\ new.status = IF old.status = proc[p].outcome THEN job[j].status ELSE proc[p].outcome
      /\ new.owner = IF old.owner = NoOwner THEN job[j].owner ELSE NoOwner
      /\ new.expires = IF old.expires = NoLease THEN job[j].expires ELSE NoLease
      /\ new.attempts = job[j].attempts
      /\ new.seen = IF old.seen = proc[p].seen THEN job[j].seen ELSE proc[p].seen
  <2> DEFINE r == job[j]
             o == proc[p].outcome
             n == proc[p].seen
  <2>1. /\ r \in JobRow /\ old \in JobRow /\ o \in Terminal /\ n \in Nat
        /\ new = Flushed(r, old, Closed(old, o, n))
    BY <1>2
  <2> HIDE DEF old, new, r, o, n
  <2>2. /\ new.attempts = r.attempts
        /\ old.status = o => new.status = r.status
        /\ old.status # o => new.status = o
        /\ old.owner = NoOwner => new.owner = r.owner
        /\ old.owner # NoOwner => new.owner = NoOwner
        /\ old.expires = NoLease => new.expires = r.expires
        /\ old.expires # NoLease => new.expires = NoLease
        /\ old.seen = n => new.seen = r.seen
        /\ old.seen # n => new.seen = n
    BY <2>1, FlushedRow
  <2> QED
    BY <2>2 DEF r, o, n
<1>4. job'[j] = new
  BY <1>1
<1> HIDE DEF new, old
<1>5. new.status \in Terminal /\ Paired(new)
  BY <1>2, <1>3 DEF Paired
<1> QED
  BY <1>1, <1>2, <1>3, <1>4, <1>5 DEF old

\* What QueueInv says of one row.
SoundRow(r) ==
  /\ Paired(r)
  /\ r.status = "absent" => r.attempts = 0
  /\ r.attempts <= MaxAttempts
  /\ r.status = "queued" => r.attempts < MaxAttempts
  /\ r.status = "running" => (r.expires # NoLease <=> r.attempts > 0)
  /\ r.status = "queued" => r.expires = NoLease

\* A finished row stays finished.
LEMMA FinishedStays ==
  ASSUME QueueInv, [Next]_vars, NEW j \in Jobs, job[j].status \in Terminal
  PROVE  job'[j].status \in Terminal
<1>1. job[j] \in JobRow /\ ~Inserted(j) /\ ~Taken(j) /\ ~GivenUp(j) /\ ~Renewed(j)
  BY DEF QueueInv, TypeOK, Terminal, Outcomes, Inserted, Taken, GivenUp, Renewed, Expired
<1>2. CASE Reported(j)
  BY <1>2, ReportedRow
<1> QED
  BY <1>1, <1>2, RowChanges DEF RowChange

\* A process that reports after a step did so before, or has just loaded the row.
LEMMA StartsReporting ==
  ASSUME QueueInv, [Next]_vars, NEW p \in Procs, proc'[p].pc = "reporting"
  PROVE  proc'[p] = proc[p] \/ CompleteJob(p) \/ FailJob(p)
<1> USE QueueAssumption DEF QueueInv, TypeOK
<1>0. Workers \subseteq Procs /\ Callers \subseteq Procs
      /\ Idle.pc = "idle" /\ Down.pc = "down"
  BY DEF Procs, Idle, Down
<1>1. ASSUME NEW q \in Procs, ProcessDocument(q) PROVE proc'[p] = proc[p]
  <2> DEFINE e == IF HeartbeatMatches(q) THEN clock + LeaseTime ELSE proc[q].lease
  <2>1. proc[q] \in ProcState /\ proc[q].pc = "processing" /\ e \in Nat
    BY <1>1 DEF ProcessDocument, ProcState
  <2>2. proc' = [proc EXCEPT ![q] = [proc[q] EXCEPT !.seen = proc[q].seen + 1, !.lease = e]]
    BY <1>1 DEF ProcessDocument
  <2> HIDE DEF e
  <2> DEFINE run == [proc[q] EXCEPT !.seen = proc[q].seen + 1, !.lease = e]
  <2>3. run.pc = "processing"
    BY <2>1, AdvancedState
  <2> HIDE DEF run
  <2> QED
    BY <2>2, <2>3 DEF run
<1>2. ASSUME NEW q \in Procs, CompleteJob(q) \/ FailJob(q)
      PROVE  proc'[p] = proc[p] \/ CompleteJob(p) \/ FailJob(p)
  BY <1>2 DEF CompleteJob, FailJob, LoadRow
<1>3. ASSUME NEW q \in Procs, WriteOutcome(q) \/ LoseOutcome(q) \/ Crash(q)
      PROVE  proc'[p] = proc[p]
  BY <1>0, <1>3 DEF WriteOutcome, LoseOutcome, Crash
<1>4. ASSUME NEW w \in Workers, RunWorker(w) \/ RunNextJob(w)
      PROVE  proc'[p] = proc[p]
  BY <1>0, <1>4 DEF RunWorker, RunNextJob, ClaimSelect, ClaimUpdate, ClaimLost, Idle
<1>5. ASSUME NEW c \in Callers, NEW j \in Jobs, IngestPath(c, j) PROVE proc'[p] = proc[p]
  BY <1>0, <1>5 DEF IngestPath, Idle
<1>6. ASSUME NEW j \in Jobs, EnqueuePath(j) PROVE proc'[p] = proc[p]
  BY <1>6 DEF EnqueuePath
<1> QED
  BY <1>1, <1>2, <1>3, <1>4, <1>5, <1>6 DEF Next, ProcessJob, Tick, vars

\* Whatever a step does to the rows keeps what the invariant says of them.
LEMMA RowStep == QueueInv /\ [Next]_vars
                   => (OwnerIffLease /\ AbsentUnclaimed /\ AttemptsBounded /\ LeaseDiscipline)'
<1> SUFFICES ASSUME QueueInv, [Next]_vars, NEW j \in Jobs PROVE SoundRow(job'[j])
  BY DEF SoundRow, OwnerIffLease, AbsentUnclaimed, AttemptsBounded, LeaseDiscipline
<1> USE QueueAssumption DEF Paired
<1>0. job \in [Jobs -> JobRow] /\ job[j] \in JobRow /\ SoundRow(job[j])
  BY DEF QueueInv, TypeOK, SoundRow, OwnerIffLease, AbsentUnclaimed, AttemptsBounded,
         LeaseDiscipline
<1>1. CASE Inserted(j)
  BY <1>0, <1>1, NewRowIsRow DEF Inserted, SoundRow, NoLease
<1>2. CASE Taken(j)
  <2>1. PICK w \in Workers, e \in Nat \ {0} : job'[j] = Claimed(job[j], WorkerId[w], e)
    BY <1>2 DEF Taken
  <2>2. WorkerId[w] \in Names /\ WorkerId[w] # NoOwner
    BY DEF Names
  <2> DEFINE r == Claimed(job[j], WorkerId[w], e)
  <2>3. /\ r.status = "running" /\ r.owner = WorkerId[w] /\ r.expires = e
        /\ r.attempts = job[j].attempts + 1
    BY <1>0, <2>2, ClaimedRow
  <2> HIDE DEF r
  <2>4. job[j].attempts \in Nat /\ job[j].attempts < MaxAttempts
    BY <1>0, <1>2 DEF JobRow, Taken, SoundRow
  <2>5. SoundRow(r)
    BY <2>2, <2>3, <2>4 DEF SoundRow, NoLease
  <2>6. QED
    BY <2>1, <2>5 DEF r
<1>3. CASE GivenUp(j)
  BY <1>0, <1>3, RecoveredRow DEF GivenUp, SoundRow, NoLease, JobRow
<1>4. CASE Renewed(j)
  <2>1. PICK w \in Workers, e \in Nat \ {0} :
               /\ job[j].owner = WorkerId[w]
               /\ job'[j] = [job[j] EXCEPT !.expires = e]
    BY <1>4 DEF Renewed
  <2>2. WorkerId[w] # NoOwner
    BY DEF Names
  <2>3. QED
    BY <1>0, <1>4, <2>1, <2>2, RenewedRow DEF Renewed, SoundRow, NoLease
<1>5. CASE Reported(j)
  BY <1>0, <1>5, ReportedRow DEF SoundRow, Terminal, Outcomes
<1>6. QED
  BY <1>0, <1>1, <1>2, <1>3, <1>4, <1>5, RowChanges DEF RowChange

\* What a report has loaded stays what the invariant says of it: it is finished only if
\* the row still is, and a row that is finished stays so.
LEMMA LoadedStep == QueueInv /\ [Next]_vars => ReportsLoaded'
<1> SUFFICES ASSUME QueueInv, [Next]_vars, NEW p \in Procs, proc'[p].pc = "reporting"
             PROVE  /\ proc'[p].outcome \in Outcomes
                    /\ proc'[p].outcome = "completed" => proc'[p].seen = Docs[proc'[p].job]
                    /\ Paired(proc'[p].loaded)
                    /\ proc'[p].loaded.status \in Terminal
                         => job'[proc'[p].job].status \in Terminal
  BY DEF ReportsLoaded
<1>1. CASE CompleteJob(p) \/ FailJob(p)
  <2>1. PICK outcome \in Outcomes :
               LoadRow(p, outcome) /\ (outcome = "completed" => proc[p].seen = Docs[proc[p].job])
    BY <1>1 DEF CompleteJob, FailJob, Outcomes
  <2>2. proc[p] \in ProcState /\ proc[p].job \in Jobs
    BY <2>1 DEF LoadRow, QueueInv, TypeOK, BusyHasJob, AtWork
  <2>3. /\ proc'[p].outcome = outcome /\ proc'[p].seen = proc[p].seen
        /\ proc'[p].job = proc[p].job /\ proc'[p].loaded = job[proc[p].job]
        /\ job' = job
    BY <2>1, <2>2 DEF LoadRow, QueueInv, TypeOK, ProcState
  <2> QED
    BY <2>1, <2>2, <2>3 DEF QueueInv, OwnerIffLease
<1>2. CASE proc'[p] = proc[p]
  <2> DEFINE j == proc[p].job
  <2>1. j \in Jobs /\ (job[j].status \in Terminal => job'[j].status \in Terminal)
    BY <1>2, FinishedStays DEF QueueInv, BusyHasJob, AtWork
  <2> QED
    BY <1>2, <2>1 DEF QueueInv, ReportsLoaded
<1>3. QED
  BY <1>1, <1>2, StartsReporting

(* The invariant holds, and with it what it was made for: types, the bound  *)
(* on attempts under crashes and late workers (repository.py:106-147), and  *)
(* that leases are held by running claimed jobs only.                       *)
THEOREM QueueInvariant == Spec => []QueueInv
<1>1. QueueInv /\ [Next]_vars => QueueInv'
  BY TypeStep, RowStep, LoadedStep DEF QueueInv
<1>2. QED
  BY InitQueueInv, <1>1, PTL DEF Spec

\* Every row and every process has its type.
THEOREM TypeCorrect == Spec => []TypeOK
BY QueueInvariant, PTL DEF QueueInv

\* No job is claimed more often than INGESTION_MAX_ATTEMPTS.
THEOREM AttemptsAreBounded == Spec => []AttemptsBounded
BY QueueInvariant, PTL DEF QueueInv

\* Of the jobs that run, exactly those that a worker has claimed carry a lease, and no
\* job that waits does.
THEOREM LeasesAreDisciplined == Spec => []LeaseDiscipline
BY QueueInvariant, PTL DEF QueueInv

\* No step, of a late worker or not, takes a terminal job back (recover_stale_jobs
\* asks for the status, and a report writes a terminal one or finds one).
THEOREM TerminalIsAbsorbing == Spec => TerminalAbsorbing
<1> DEFINE Stays == \A j \in Jobs : job[j].status \in Terminal
                                     => job'[j].status \in Terminal
<1>1. QueueInv /\ [Next]_vars => [Stays]_vars
  BY FinishedStays
<1>2. QED
  BY <1>1, QueueInvariant, PTL DEF Spec, TerminalAbsorbing

-----------------------------------------------------------------------------
(* Leases *)

\* How one step may change a process that selects or processes afterwards.
ProcChange(p) ==
  \/ proc'[p] = proc[p]
  \/ proc'[p].pc \notin {"selected"} \cup AtWork
  \/ /\ p \in Workers
     /\ proc'[p].pc = "selected" /\ proc'[p].now = clock
  \/ \E j \in Jobs :
       /\ p \in Callers /\ job[j].status = "absent" /\ job'[j] = NewRow("running")
       /\ proc'[p].job = j /\ proc'[p].pc = "processing" /\ proc'[p].seen = 0
       /\ \A q \in Procs \ {p} : proc'[q] = proc[q]
  \/ /\ p \in Workers /\ ClaimUpdate(p)
     /\ proc'[p].pc = "processing" /\ proc'[p].seen = 0
     /\ proc'[p].job = proc[p].job /\ proc'[p].lease = proc[p].now + LeaseTime
     /\ \A q \in Procs \ {p} : proc'[q] = proc[q]
  \/ /\ CompleteJob(p) \/ FailJob(p)
     /\ proc[p].pc = "processing" /\ proc'[p].pc = "reporting"
     /\ proc'[p].job = proc[p].job /\ proc'[p].lease = proc[p].lease
     /\ proc'[p].seen = proc[p].seen /\ proc'[p].loaded = job[proc[p].job]
     /\ \A q \in Procs \ {p} : proc'[q] = proc[q]
     /\ job' = job
  \/ /\ ProcessDocument(p)
     /\ proc'[p].pc = "processing" /\ proc'[p].job = proc[p].job
     /\ proc'[p].seen = proc[p].seen + 1
     /\ proc'[p].lease = IF HeartbeatMatches(p) THEN clock + LeaseTime ELSE proc[p].lease

\* Every step changes each process in one of the ways of ProcChange, or not at all.
LEMMA ProcChanges == QueueInv /\ [Next]_vars => \A p \in Procs : ProcChange(p)
<1> SUFFICES ASSUME QueueInv, [Next]_vars, NEW p \in Procs PROVE ProcChange(p)
  OBVIOUS
<1> USE QueueAssumption DEF QueueInv, TypeOK, BusyHasJob, AtWork
<1>0. /\ Idle.pc = "idle" /\ Down.pc = "down"
      /\ Workers \subseteq Procs /\ Callers \subseteq Procs
  BY DEF Idle, Down, Procs
<1>1. ASSUME proc' = proc PROVE ProcChange(p)
  BY <1>1 DEF ProcChange
<1>2. ASSUME NEW q \in Procs, NEW idle \in {Idle, Down}, proc' = [proc EXCEPT ![q] = idle]
      PROVE  ProcChange(p)
  <2>1. idle.pc \notin {"selected"} \cup AtWork
    BY <1>0, <1>2
  <2>2. proc'[p] = proc[p] \/ proc'[p] = idle
    BY <1>2
  <2> QED
    BY <2>1, <2>2 DEF ProcChange
<1>3. ASSUME NEW c \in Callers, NEW j \in Jobs, IngestPath(c, j) PROVE ProcChange(p)
  <2> DEFINE run == [Idle EXCEPT !.pc = "processing", !.job = j]
  <2>1. run.job = j /\ run.pc = "processing" /\ run.seen = 0
    BY DEF Idle
  <2>2. /\ proc' = [proc EXCEPT ![c] = run] /\ job'[j] = NewRow("running")
        /\ job[j].status = "absent"
    BY <1>3 DEF IngestPath
  <2> HIDE DEF run
  <2> QED
    BY <1>0, <2>1, <2>2 DEF ProcChange
<1>4. ASSUME NEW w \in Workers, ClaimSelect(w) PROVE ProcChange(p)
  <2>1. PICK j \in Jobs : proc' = [proc EXCEPT ![w] =
                [Idle EXCEPT !.pc = "selected", !.job = j, !.now = clock]]
    BY <1>4 DEF ClaimSelect
  <2> DEFINE run == [Idle EXCEPT !.pc = "selected", !.job = j, !.now = clock]
  <2>2. run.pc = "selected" /\ run.now = clock
    BY DEF Idle
  <2>3. proc' = [proc EXCEPT ![w] = run]
    BY <2>1
  <2> HIDE DEF run
  <2> QED
    BY <1>0, <2>2, <2>3 DEF ProcChange
<1>5. ASSUME NEW w \in Workers, ClaimUpdate(w) PROVE ProcChange(p)
  <2> DEFINE j == proc[w].job
             lease == proc[w].now + LeaseTime
             run == [Idle EXCEPT !.pc = "processing", !.job = j, !.lease = lease]
  <2>1. proc' = [proc EXCEPT ![w] = run]
    BY <1>5 DEF ClaimUpdate
  <2> HIDE DEF j, lease
  <2>2. run.pc = "processing" /\ run.job = j /\ run.lease = lease /\ run.seen = 0
    BY DEF Idle
  <2> HIDE DEF run
  <2>3. /\ proc'[w].pc = "processing" /\ proc'[w].job = j /\ proc'[w].lease = lease
        /\ proc'[w].seen = 0
    BY <1>0, <2>1, <2>2
  <2>4. \A q \in Procs \ {w} : proc'[q] = proc[q]
    BY <2>1
  <2> QED
    BY <1>5, <2>3, <2>4 DEF ProcChange, j, lease
<1>6. ASSUME NEW q \in Procs, ProcessDocument(q) PROVE ProcChange(p)
  <2> DEFINE lease == IF HeartbeatMatches(q) THEN clock + LeaseTime ELSE proc[q].lease
             run == [proc[q] EXCEPT !.seen = proc[q].seen + 1, !.lease = lease]
  <2>1. lease \in Nat /\ proc[q] \in ProcState
    BY DEF ProcState
  <2>2. proc' = [proc EXCEPT ![q] = run] /\ proc[q].pc = "processing"
    BY <1>6 DEF ProcessDocument
  <2> HIDE DEF lease
  <2>3. /\ run.pc = proc[q].pc /\ run.job = proc[q].job /\ run.lease = lease
        /\ run.seen = proc[q].seen + 1
    BY <2>1, AdvancedState
  <2> HIDE DEF run
  <2>4. /\ proc'[q].pc = "processing" /\ proc'[q].job = proc[q].job /\ proc'[q].lease = lease
        /\ proc'[q].seen = proc[q].seen + 1
    BY <2>2, <2>3
  <2>5. p # q => proc'[p] = proc[p]
    BY <2>2
  <2> QED
    BY <1>6, <2>4, <2>5 DEF ProcChange, lease
<1>7. ASSUME NEW q \in Procs, CompleteJob(q) \/ FailJob(q) PROVE ProcChange(p)
  <2>1. PICK outcome \in Outcomes : LoadRow(q, outcome)
    BY <1>7 DEF CompleteJob, FailJob, Outcomes
  <2> DEFINE run == [proc[q] EXCEPT !.pc = "reporting", !.outcome = outcome,
                                    !.loaded = job[proc[q].job]]
  <2>2. /\ run.pc = "reporting" /\ run.job = proc[q].job /\ run.lease = proc[q].lease
        /\ run.seen = proc[q].seen /\ run.loaded = job[proc[q].job]
    BY DEF ProcState
  <2>3. /\ proc' = [proc EXCEPT ![q] = run] /\ proc[q].pc = "processing" /\ job' = job
    BY <2>1 DEF LoadRow
  <2> HIDE DEF run
  <2>4. /\ proc'[q].pc = "reporting" /\ proc'[q].job = proc[q].job
        /\ proc'[q].lease = proc[q].lease /\ proc'[q].seen = proc[q].seen
        /\ proc'[q].loaded = job[proc[q].job]
        /\ \A r \in Procs \ {q} : proc'[r] = proc[r]
    BY <2>2, <2>3
  <2> QED
    BY <1>7, <2>3, <2>4 DEF ProcChange
<1> QED
  BY <1>0, <1>1, <1>2, <1>3, <1>4, <1>5, <1>6, <1>7
     DEF Next, RunNextJob, ProcessJob, EnqueuePath, RunWorker, ClaimLost, WriteOutcome,
         LoseOutcome, Crash, Tick, vars

\* Time does not run backwards.
LEMMA ClockGrows == QueueInv /\ [Next]_vars => clock' = clock \/ Tick
  BY DEF Next, RunNextJob, ProcessJob, EnqueuePath, IngestPath, RunWorker, ClaimSelect,
     ClaimUpdate, ClaimLost, ProcessDocument, CompleteJob, FailJob, LoadRow, WriteOutcome,
     LoseOutcome, Crash, vars

\* The lease that a worker was last granted has not run out.
Live(w) == proc[w].pc \in AtWork /\ clock <= proc[w].lease

\* While it has not, the row is the worker's, or a late worker has closed it.
LiveOwns ==
  \A w \in Workers : Live(w) =>
    LET row == job[proc[w].job]
    IN  \/ row.status \in Terminal
        \/ /\ row.status = "running" /\ row.owner = WorkerId[w]
           /\ row.expires = proc[w].lease

DistinctWorkerIds == \A v, w \in Workers : WorkerId[v] = WorkerId[w] => v = w

\* A worker that is live after a step was so before, unless it has just claimed
\* its job or renewed its lease.
LEMMA LiveWas ==
  ASSUME QueueInv, [Next]_vars, NEW w \in Workers, Live(w)'
  PROVE  \/ proc'[w].job = proc[w].job /\ proc'[w].lease = proc[w].lease /\ Live(w)
         \/ ClaimUpdate(w) /\ proc'[w].job = proc[w].job
              /\ proc'[w].lease = proc[w].now + LeaseTime
         \/ /\ ProcessDocument(w) /\ proc'[w].job = proc[w].job
            /\ \/ HeartbeatMatches(w) /\ proc'[w].lease = clock + LeaseTime
               \/ ~HeartbeatMatches(w) /\ proc'[w].lease = proc[w].lease /\ Live(w)
<1> USE QueueAssumption
<1>1. /\ w \in Procs /\ w \notin Callers
      /\ proc[w] \in ProcState /\ clock \in Nat /\ clock' \in Nat /\ clock <= clock'
  BY ClockGrows DEF Procs, QueueInv, TypeOK, Tick
<1>2. ProcChange(w)
  BY <1>1, ProcChanges
<1>3. proc[w].lease \in Nat /\ proc[w].now \in Nat
  BY <1>1 DEF ProcState
<1>4. CASE proc'[w] = proc[w]
  BY <1>1, <1>3, <1>4 DEF Live
<1>5. CASE ProcessDocument(w) /\ proc'[w].job = proc[w].job
           /\ proc'[w].lease = IF HeartbeatMatches(w) THEN clock + LeaseTime ELSE proc[w].lease
  BY <1>1, <1>3, <1>5 DEF Live, ProcessDocument, AtWork
<1>6. CASE /\ proc[w].pc = "processing" /\ proc'[w].job = proc[w].job
           /\ proc'[w].lease = proc[w].lease
  BY <1>1, <1>3, <1>6 DEF Live, AtWork
<1> QED
  BY <1>1, <1>2, <1>4, <1>5, <1>6 DEF ProcChange, Live, AtWork

\* A lease that still runs stays the lease in the row.
LEMMA LiveOwnsStep ==
  ASSUME DistinctWorkerIds, QueueInv, LiveOwns, [Next]_vars
  PROVE  LiveOwns'
<1> SUFFICES ASSUME NEW w \in Workers, Live(w)'
             PROVE  \/ job'[proc'[w].job].status \in Terminal
                    \/ /\ job'[proc'[w].job].status = "running"
                       /\ job'[proc'[w].job].owner = WorkerId[w]
                       /\ job'[proc'[w].job].expires = proc'[w].lease
  BY DEF LiveOwns
<1> DEFINE j == proc[w].job
<1>0. /\ w \in Procs /\ proc[w] \in ProcState /\ clock \in Nat
      /\ job \in [Jobs -> JobRow] /\ WorkerId[w] \in Names
      /\ proc[w].pc \in {"selected"} \cup AtWork => j \in Jobs /\ job[j] \in JobRow
  BY QueueAssumption DEF Procs, QueueInv, TypeOK, BusyHasJob, Names
<1>1. CASE proc'[w].job = proc[w].job /\ proc'[w].lease = proc[w].lease /\ Live(w)
  <2>1. j \in Jobs /\ job[j] \in JobRow /\ proc[w].lease \in Nat
    BY <1>0, <1>1 DEF Live, ProcState
  <2>2. \/ job[j].status \in Terminal
        \/ job[j].status = "running" /\ job[j].owner = WorkerId[w]
             /\ job[j].expires = proc[w].lease
    BY <1>1 DEF LiveOwns
  <2>3. ~Inserted(j) /\ ~Taken(j) /\ ~GivenUp(j)
    BY <1>0, <1>1, <2>1, <2>2 DEF Inserted, Taken, GivenUp, Expired, Terminal, Outcomes, Live
  <2>4. CASE job'[j] = job[j]
    BY <1>1, <2>2, <2>4
  <2>5. CASE Renewed(j)
    <3>1. PICK v \in Workers, e \in Nat \ {0} :
                 /\ proc'[v].lease = e /\ job[j].owner = WorkerId[v]
                 /\ job'[j] = [job[j] EXCEPT !.expires = e]
      BY <2>5 DEF Renewed
    <3>2. job[j].status = "running" /\ job[j].owner = WorkerId[w]
      BY <2>2, <2>5 DEF Renewed, Terminal, Outcomes
    <3>3. v = w
      BY <3>1, <3>2 DEF DistinctWorkerIds
    <3> HIDE DEF j
    <3> QED
      BY <1>1, <2>1, <3>1, <3>2, <3>3, RenewedRow DEF j
  <2>6. CASE Reported(j)
    <3>1. job'[j].status \in Terminal
      BY <2>1, <2>6, ReportedRow
    <3> QED
      BY <1>1, <3>1
  <2> QED
    BY <2>1, <2>3, <2>4, <2>5, <2>6, RowChanges DEF RowChange
<1>2. CASE ClaimUpdate(w) /\ proc'[w].job = proc[w].job
             /\ proc'[w].lease = proc[w].now + LeaseTime
  <2> DEFINE e == proc[w].now + LeaseTime
  <2>1. j \in Jobs /\ job[j] \in JobRow /\ e \in Nat
    BY QueueAssumption, <1>0, <1>2 DEF ClaimUpdate, ProcState
  <2>2. job'[j] = Claimed(job[j], WorkerId[w], e)
    BY <1>0, <1>2, <2>1 DEF ClaimUpdate
  <2> HIDE DEF j, e
  <2>3. job'[j].status = "running" /\ job'[j].owner = WorkerId[w] /\ job'[j].expires = e
    BY <1>0, <2>1, <2>2, ClaimedRow
  <2> QED
    BY <1>2, <2>3 DEF j, e
<1>3. CASE /\ ProcessDocument(w) /\ proc'[w].job = proc[w].job
           /\ HeartbeatMatches(w) /\ proc'[w].lease = clock + LeaseTime
  <2> DEFINE e == clock + LeaseTime
  <2>1. j \in Jobs /\ job[j] \in JobRow /\ e \in Nat
    BY QueueAssumption, <1>0, <1>3 DEF ProcessDocument, AtWork
  <2>2. job'[j] = [job[j] EXCEPT !.expires = e]
    BY <1>0, <1>3, <2>1 DEF ProcessDocument
  <2>3. job[j].status = "running" /\ job[j].owner = WorkerId[w]
    BY <1>3 DEF HeartbeatMatches
  <2> HIDE DEF j, e
  <2> QED
    BY <1>3, <2>1, <2>2, <2>3, RenewedRow DEF j, e
<1>4. CASE /\ ProcessDocument(w) /\ proc'[w].job = proc[w].job
           /\ ~HeartbeatMatches(w) /\ proc'[w].lease = proc[w].lease /\ Live(w)
  <2>1. job' = job
    BY <1>4 DEF ProcessDocument
  <2> QED
    BY <1>4, <2>1 DEF LiveOwns
<1> QED
  BY <1>1, <1>2, <1>3, <1>4, LiveWas

\* A claim finds the row queued, so no worker is live on it, and a renewal finds the
\* owner itself.
LEMMA LeaseExclusiveStep ==
  ASSUME DistinctWorkerIds, QueueInv, LiveOwns, LeaseExclusive, [Next]_vars
  PROVE  LeaseExclusive'
<1>1. ASSUME NEW v \in Workers, NEW w \in Workers, v # w, Live(v)', Live(w)',
             proc'[v].job = proc'[w].job,
             ClaimUpdate(w) \/ (ProcessDocument(w) /\ HeartbeatMatches(w)),
             proc'[w].job = proc[w].job
      PROVE  FALSE
  <2>1. proc'[v] = proc[v]
    BY <1>1 DEF ClaimUpdate, ProcessDocument, Procs, QueueInv, TypeOK
  <2>2. Live(v)
    BY <1>1, <2>1, LiveWas DEF ClaimUpdate, ProcessDocument, Live
  <2>3. job[proc[w].job].status \in {"queued", "running"}
    BY <1>1 DEF ClaimUpdate, StillQueued, HeartbeatMatches
  <2>4. job[proc[w].job].status = "running" /\ job[proc[w].job].owner = WorkerId[v]
    BY <1>1, <2>1, <2>2, <2>3 DEF LiveOwns, Terminal, Outcomes
  <2> QED
    BY <1>1, <2>4 DEF ClaimUpdate, StillQueued, HeartbeatMatches, DistinctWorkerIds
<1> SUFFICES ASSUME NEW v \in Workers, NEW w \in Workers, v # w,
                    proc'[v].job = proc'[w].job, Live(v)', Live(w)'
             PROVE  FALSE
  <2>1. \A w \in Workers : proc'[w].lease \in Nat /\ clock' \in Nat
    BY TypeStep DEF TypeOK, ProcState, Procs
  <2> QED
    BY <2>1 DEF LeaseExclusive, Live, Works
<1>2. CASE Live(v) /\ Live(w) /\ proc'[v].job = proc[v].job /\ proc'[w].job = proc[w].job
  <2>1. proc[v].lease \in Nat /\ proc[w].lease \in Nat /\ clock \in Nat
    BY DEF QueueInv, TypeOK, ProcState, Procs
  <2>2. /\ proc[v].pc \in AtWork /\ proc[w].pc \in AtWork
        /\ clock <= proc[v].lease /\ clock <= proc[w].lease
    BY <1>2 DEF Live
  <2>3. proc[v].job = proc[w].job /\ proc[v].job \in Jobs
    BY <1>2, <2>2 DEF QueueInv, BusyHasJob, Procs
  <2>4. proc[v].lease < clock \/ proc[w].lease < clock
    BY <2>2, <2>3 DEF LeaseExclusive, Works
  <2> QED
    BY <2>1, <2>2, <2>4
<1> QED
  BY <1>1, <1>2, LiveWas

\* Workers that carry ids of their own never both work on a job under leases that
\* still run (claim_next_job, heartbeat, recover_stale_jobs), for any number of them.
THEOREM LeasesExclude ==
  ASSUME DistinctWorkerIds
  PROVE  Spec => []LeaseExclusive
<1>1. Init => LiveOwns /\ LeaseExclusive
  BY QueueAssumption DEF Init, LiveOwns, LeaseExclusive, Live, Works, AtWork, Idle, Down, Procs
<1>2. QueueInv /\ LiveOwns /\ LeaseExclusive /\ [Next]_vars => (LiveOwns /\ LeaseExclusive)'
  BY LiveOwnsStep, LeaseExclusiveStep
<1> QED
  BY <1>1, <1>2, QueueInvariant, PTL DEF Spec

-----------------------------------------------------------------------------
(* Completed jobs *)

Closing(j) == job[j].status \in Outcomes

\* Of a job that was claimed twice at most there are two runs at most; once one of
\* them has reported, there is one at most, and what that one loads stays.
FewRuns ==
  \A j \in Jobs : job[j].attempts <= 2 =>
    /\ \A p, q, r \in Procs : Works(p, j) /\ Works(q, j) /\ Works(r, j)
                                => p = q \/ q = r \/ p = r
    /\ Closing(j) \/ job[j].attempts <= 1 =>
         \A p, q \in Procs : Works(p, j) /\ Works(q, j) => p = q
    /\ \/ Closing(j) /\ job[j].attempts <= 1
       \/ job[j].status \in {"absent", "queued"} /\ job[j].attempts = 0
       => \A p \in Procs : ~Works(p, j)

\* The counts of a row are those of no document before a report, and never those of
\* more documents than there are.
CountsOfReports ==
  \A j \in Jobs : job[j].attempts <= 2 =>
    /\ ~Closing(j) => job[j].seen = 0
    /\ job[j].seen <= Docs[j]

ProgressInBounds ==
  \A p \in Procs : proc[p].pc \in AtWork => proc[p].seen <= Docs[proc[p].job]

LoadedIsCurrent ==
  \A p \in Procs : proc[p].pc = "reporting" /\ job[proc[p].job].attempts <= 2 =>
    LET old == proc[p].loaded
        row == job[proc[p].job]
    IN  /\ old.status \notin Outcomes => old.seen = 0
        /\ old.status \in Outcomes => old.status = row.status /\ old.seen = row.seen

ReportInv == FewRuns /\ CountsOfReports /\ ProgressInBounds /\ LoadedIsCurrent

\* Process p begins to run job j: it claims it, or submits and runs it.
Starts(p, j) ==
  /\ \A q \in Procs \ {p} : proc'[q] = proc[q]
  /\ \/ /\ job[j].status = "queued" /\ job'[j].status = "running"
        /\ job'[j].attempts = job[j].attempts + 1
     \/ /\ job[j].status = "absent" /\ job'[j].status = "running"
        /\ job'[j].attempts = 0

\* What a claim does to its row.
LEMMA ClaimTakes ==
  ASSUME QueueInv, NEW w \in Workers, ClaimUpdate(w)
  PROVE  /\ job[proc[w].job].status = "queued"
         /\ job'[proc[w].job].status = "running"
         /\ job'[proc[w].job].attempts = job[proc[w].job].attempts + 1
<1> USE QueueAssumption
<1> DEFINE j == proc[w].job
           e == proc[w].now + LeaseTime
<1>1. /\ j \in Jobs /\ job[j] \in JobRow /\ e \in Nat /\ WorkerId[w] \in Names
      /\ job \in [Jobs -> JobRow]
  BY DEF ClaimUpdate, ProcState, QueueInv, TypeOK, BusyHasJob, Procs, Names
<1>2. job' = [job EXCEPT ![j] = Claimed(job[j], WorkerId[w], e)] /\ job[j].status = "queued"
  BY DEF ClaimUpdate, StillQueued
<1> HIDE DEF j, e
<1>3. job'[j] = Claimed(job[j], WorkerId[w], e)
  BY <1>1, <1>2
<1> QED
  BY <1>1, <1>2, <1>3, ClaimedRow DEF j

\* A process that works on a job did so before, or is the first to run it, or has just
\* claimed it; the latter leave everybody else alone.
LEMMA WorkedBefore ==
  ASSUME QueueInv, [Next]_vars, NEW p \in Procs, NEW j \in Jobs, Works(p, j)'
  PROVE  \/ Works(p, j)
         \/ Starts(p, j)
<1> USE QueueAssumption DEF AtWork
<1>1. proc'[p].pc \in AtWork /\ proc'[p].job = j /\ ProcChange(p)
  BY ProcChanges DEF Works
<1>2. CASE p \in Workers /\ ClaimUpdate(p) /\ proc'[p].job = proc[p].job
           /\ \A q \in Procs \ {p} : proc'[q] = proc[q]
  BY <1>1, <1>2, ClaimTakes DEF Starts
<1>3. ASSUME NEW k \in Jobs, proc'[p].job = k, job[k].status = "absent",
             job'[k] = NewRow("running"), \A q \in Procs \ {p} : proc'[q] = proc[q]
      PROVE  Starts(p, j)
  BY <1>1, <1>3, NewRowIsRow DEF Starts, QueueInv, TypeOK
<1> QED
  BY <1>1, <1>2, <1>3 DEF ProcChange, Works, ProcessDocument

\* What a step makes of the columns that these facts are about.
Kept(j) == /\ job'[j].status = job[j].status /\ job'[j].attempts = job[j].attempts
           /\ job'[j].seen = job[j].seen
Opened(j) == /\ job[j].status = "absent" /\ job'[j].status \in {"queued", "running"}
             /\ job'[j].attempts = 0 /\ job'[j].seen = 0
Retried(j) == /\ job[j].status = "queued" /\ job'[j].status = "running"
              /\ job'[j].attempts = job[j].attempts + 1 /\ job'[j].seen = job[j].seen
Recalled(j) == /\ job[j].status = "running"
               /\ job'[j].status \in {"queued", "quarantined"}
               /\ job[j].attempts > 0 /\ job'[j].attempts = job[j].attempts
               /\ job'[j].seen = job[j].seen

LEMMA ColumnsChange ==
  ASSUME QueueInv, [Next]_vars, NEW j \in Jobs
  PROVE  Kept(j) \/ Opened(j) \/ Retried(j) \/ Recalled(j) \/ Reported(j)
<1> USE QueueAssumption
<1>0. job[j] \in JobRow /\ job \in [Jobs -> JobRow] /\ RowChange(j)
  BY RowChanges DEF QueueInv, TypeOK
<1>1. CASE Inserted(j)
  BY <1>0, <1>1, NewRowIsRow DEF Inserted, Opened
<1>2. CASE Taken(j)
  <2>1. PICK w \in Workers, e \in Nat \ {0} : job'[j] = Claimed(job[j], WorkerId[w], e)
    BY <1>2 DEF Taken
  <2>2. WorkerId[w] \in Names /\ e \in Nat
    BY DEF Names
  <2>3. /\ job'[j].status = "running" /\ job'[j].attempts = job[j].attempts + 1
        /\ job'[j].seen = job[j].seen
    BY <1>0, <2>1, <2>2, ClaimedRow
  <2> QED
    BY <1>2, <2>3 DEF Taken, Retried
<1>3. CASE GivenUp(j)
  <2>1. job[j].attempts > 0
    BY <1>3 DEF GivenUp, Expired, QueueInv, LeaseDiscipline
  <2> QED
    BY <1>0, <1>3, <2>1, RecoveredRow DEF GivenUp, Expired, Recalled
<1>4. CASE Renewed(j)
  BY <1>0, <1>4, RenewedRow DEF Renewed, Kept
<1> QED
  BY <1>0, <1>1, <1>2, <1>3, <1>4 DEF RowChange, Kept

\* A claim adds a run to the at most one of a job that was claimed once, a report
\* takes one away.
LEMMA FewRunsStep == QueueInv /\ ReportInv /\ [Next]_vars => FewRuns'
<1> SUFFICES ASSUME QueueInv, ReportInv, [Next]_vars, NEW j \in Jobs, job'[j].attempts <= 2
             PROVE  /\ \A p, q, r \in Procs : (Works(p, j) /\ Works(q, j) /\ Works(r, j))'
                                                => p = q \/ q = r \/ p = r
                    /\ (Closing(j) \/ job[j].attempts <= 1)' =>
                         \A p, q \in Procs : (Works(p, j) /\ Works(q, j))' => p = q
                    /\ (\/ Closing(j) /\ job[j].attempts <= 1
                        \/ job[j].status \in {"absent", "queued"} /\ job[j].attempts = 0)'
                       => \A p \in Procs : ~Works(p, j)'
  BY DEF FewRuns
<1>0. job[j].attempts \in Nat
  BY DEF QueueInv, TypeOK, JobRow
<1>1. \A p \in Procs : Works(p, j)' =>
        Works(p, j) \/ /\ Starts(p, j)
                       /\ \A q \in Procs \ {p} : Works(q, j)' => Works(q, j)
  BY WorkedBefore DEF Starts, Works
<1>2. CASE Kept(j)
  <2>1. \A p \in Procs : ~Starts(p, j)
    BY <1>2 DEF Kept, Starts
  <2> QED
    BY <1>0, <1>1, <1>2, <2>1 DEF Kept, Closing, ReportInv, FewRuns
<1>3. CASE Opened(j)
  <2>1. job[j].attempts = 0
    BY <1>3 DEF Opened, QueueInv, AbsentUnclaimed
  <2>2. \A p \in Procs : ~Works(p, j)
    BY <1>3, <2>1 DEF Opened, ReportInv, FewRuns
  <2>3. job'[j].status \in {"queued", "running"} /\ job'[j].attempts = 0
    BY <1>3 DEF Opened
  <2> QED
    BY <1>1, <2>2, <2>3 DEF Starts, Closing, Outcomes
<1>4. CASE Retried(j)
  <2>1. job[j].attempts <= 1 /\ job'[j].status = "running" /\ job[j].status = "queued"
        /\ job'[j].attempts = job[j].attempts + 1
    BY <1>0, <1>4 DEF Retried
  <2>2. \A p, q \in Procs : Works(p, j) /\ Works(q, j) => p = q
    BY <1>0, <2>1 DEF ReportInv, FewRuns
  <2>3. job[j].attempts = 0 => \A p \in Procs : ~Works(p, j)
    BY <2>1 DEF ReportInv, FewRuns
  <2>4. ~Closing(j)'
    BY <2>1 DEF Closing, Outcomes
  <2>5. \A p, q \in Procs : (Works(p, j) /\ Works(q, j))' /\ ~Works(p, j) => p = q \/ Works(q, j)
    BY <1>1
  <2> QED
    BY <1>0, <1>1, <2>1, <2>2, <2>3, <2>4, <2>5
<1>5. CASE Recalled(j)
  <2>1. \A p \in Procs : ~Starts(p, j)
    BY <1>5 DEF Recalled, Starts
  <2> QED
    BY <1>0, <1>1, <1>5, <2>1 DEF Recalled, Closing, Outcomes, ReportInv, FewRuns
<1>6. CASE Reported(j)
  <2>1. PICK p \in Procs : /\ Works(p, j) /\ proc'[p] = Idle /\ job'[j].status \in Terminal
                           /\ job'[j].attempts = job[j].attempts
                           /\ \A q \in Procs \ {p} : proc'[q] = proc[q]
    BY <1>6, ReportedRow
  <2>2. ~Works(p, j)' /\ \A q \in Procs \ {p} : Works(q, j)' => Works(q, j)
    BY <2>1 DEF Works, Idle, AtWork
  <2>3. job'[j].status \notin {"absent", "queued"}
    BY <2>1 DEF Terminal, Outcomes
  <2> QED
    BY <1>0, <2>1, <2>2, <2>3 DEF Closing, ReportInv, FewRuns
<1> QED
  BY <1>2, <1>3, <1>4, <1>5, <1>6, ColumnsChange

\* What a report writes, if the job was claimed twice at most: its status and its
\* count, unless it counts nothing.
LEMMA ReportWrites ==
  ASSUME QueueInv, ReportInv, NEW j \in Jobs, Reported(j), job[j].attempts <= 2
  PROVE  \E p \in Procs :
           /\ Works(p, j) /\ proc'[p] = Idle /\ proc[p].outcome \in Outcomes
           /\ job'[j].status = proc[p].outcome /\ job'[j].attempts = job[j].attempts
           /\ proc[p].outcome = "completed" => proc[p].seen = Docs[j]
           /\ proc[p].seen \in Nat /\ proc[p].seen <= Docs[j]
           /\ job'[j].seen = proc[p].seen \/ (proc[p].seen = 0 /\ job'[j].seen = job[j].seen)
<1>1. PICK p \in Procs :
           LET old == proc[p].loaded
               seen == proc[p].seen
           IN  /\ Works(p, j) /\ proc[p].pc = "reporting" /\ proc'[p] = Idle
               /\ proc[p].outcome \in Outcomes
               /\ job'[j].status = IF old.status = proc[p].outcome THEN job[j].status
                                   ELSE proc[p].outcome
               /\ job'[j].attempts = job[j].attempts
               /\ job'[j].seen = IF old.seen = seen THEN job[j].seen ELSE seen
  BY ReportedRow
<1>2. /\ proc[p].job = j
      /\ proc[p].loaded.status \notin Outcomes => proc[p].loaded.seen = 0
      /\ proc[p].loaded.status \in Outcomes =>
           proc[p].loaded.status = job[j].status /\ proc[p].loaded.seen = job[j].seen
  BY <1>1 DEF Works, ReportInv, LoadedIsCurrent
<1>3. /\ proc[p].outcome = "completed" => proc[p].seen = Docs[j]
      /\ proc[p].seen \in Nat /\ proc[p].seen <= Docs[j]
  BY <1>1, <1>2 DEF QueueInv, TypeOK, ProcState, ReportsLoaded, ReportInv, ProgressInBounds,
                    AtWork
<1>4. job'[j].status = proc[p].outcome
  <2>1. CASE proc[p].loaded.status = proc[p].outcome
    BY <1>1, <1>2, <2>1
  <2>2. CASE proc[p].loaded.status # proc[p].outcome
    BY <1>1, <2>2
  <2> QED
    BY <2>1, <2>2
<1>5. job'[j].seen = proc[p].seen \/ (proc[p].seen = 0 /\ job'[j].seen = job[j].seen)
  <2>1. CASE proc[p].loaded.seen # proc[p].seen
    BY <1>1, <2>1
  <2>2. CASE proc[p].loaded.seen = proc[p].seen
    <3>1. job'[j].seen = job[j].seen
      BY <1>1, <2>2
    <3> QED
      BY <1>2, <2>2, <3>1
  <2> QED
    BY <2>1, <2>2
<1> QED
  BY <1>1, <1>3, <1>4, <1>5

\* Only a report writes the counts.
LEMMA CountsStep ==
  QueueInv /\ ReportInv /\ CompletedSawAll /\ [Next]_vars => (CountsOfReports /\ CompletedSawAll)'
<1> SUFFICES ASSUME QueueInv, ReportInv, CompletedSawAll, [Next]_vars, NEW j \in Jobs,
                    job'[j].attempts <= 2
             PROVE  /\ ~Closing(j)' => job'[j].seen = 0
                    /\ job'[j].seen <= Docs[j]
                    /\ job'[j].status = "completed" => job'[j].seen = Docs[j]
  BY DEF CountsOfReports, CompletedSawAll
<1>0. Docs[j] \in Nat /\ job[j].attempts \in Nat /\ job[j].seen \in Nat
  BY QueueAssumption DEF QueueInv, TypeOK, JobRow
<1>1. job[j].attempts <= 2 =>
        /\ ~Closing(j) => job[j].seen = 0
        /\ job[j].seen <= Docs[j]
        /\ job[j].status = "completed" => job[j].seen = Docs[j]
  BY DEF ReportInv, CountsOfReports, CompletedSawAll
<1>2. CASE Kept(j)
  BY <1>1, <1>2 DEF Kept, Closing
<1>3. CASE Opened(j)
  BY <1>0, <1>3 DEF Opened
<1>4. CASE Retried(j)
  BY <1>0, <1>1, <1>4 DEF Retried, Closing, Outcomes
<1>5. CASE Recalled(j)
  BY <1>1, <1>5 DEF Recalled, Closing, Outcomes
<1>6. CASE Reported(j)
  <2>1. job[j].attempts <= 2
    BY <1>6, ReportedRow
  <2>2. PICK p \in Procs :
           /\ proc[p].outcome \in Outcomes /\ job'[j].status = proc[p].outcome
           /\ proc[p].outcome = "completed" => proc[p].seen = Docs[j]
           /\ proc[p].seen \in Nat /\ proc[p].seen <= Docs[j]
           /\ job'[j].seen = proc[p].seen \/ (proc[p].seen = 0 /\ job'[j].seen = job[j].seen)
    BY <1>6, <2>1, ReportWrites
  <2> QED
    BY <1>0, <1>1, <2>1, <2>2 DEF Closing
<1> QED
  BY <1>2, <1>3, <1>4, <1>5, <1>6, ColumnsChange

\* The loop counts a document only while there is one.
LEMMA ProgressStep == QueueInv /\ ReportInv /\ [Next]_vars => ProgressInBounds'
<1> SUFFICES ASSUME QueueInv, ReportInv, [Next]_vars, NEW p \in Procs, proc'[p].pc \in AtWork
             PROVE  proc'[p].seen <= Docs[proc'[p].job]
  BY DEF ProgressInBounds
<1>1. ProcChange(p) /\ proc[p] \in ProcState
  BY ProcChanges DEF QueueInv, TypeOK
<1>2. \A j \in Jobs : 0 <= Docs[j]
  BY QueueAssumption
<1>3. CASE proc'[p] = proc[p]
  BY <1>3 DEF ReportInv, ProgressInBounds
<1>4. CASE /\ CompleteJob(p) \/ FailJob(p)
           /\ proc[p].pc = "processing" /\ proc'[p].pc = "reporting"
           /\ proc'[p].job = proc[p].job /\ proc'[p].seen = proc[p].seen
  BY <1>4 DEF ReportInv, ProgressInBounds, AtWork
<1>5. CASE /\ ProcessDocument(p) /\ proc'[p].job = proc[p].job
           /\ proc'[p].seen = proc[p].seen + 1
  <2>1. proc[p].seen < Docs[proc[p].job] /\ proc[p].seen \in Nat /\ proc[p].job \in Jobs
    BY <1>1, <1>5 DEF ProcessDocument, ProcState, QueueInv, BusyHasJob, AtWork
  <2>2. Docs[proc[p].job] \in Nat
    BY <2>1, QueueAssumption
  <2> QED
    BY <1>5, <2>1, <2>2
<1>6. CASE p \in Workers /\ ClaimUpdate(p) /\ proc'[p].seen = 0 /\ proc'[p].job = proc[p].job
  <2>1. proc[p].job \in Jobs
    BY <1>6 DEF ClaimUpdate, QueueInv, BusyHasJob
  <2> QED
    BY <1>2, <1>6, <2>1
<1> QED
  BY <1>1, <1>2, <1>3, <1>4, <1>5, <1>6 DEF ProcChange, AtWork

\* A report that found the outcome of another is the last run, so that nothing
\* changes what it found.
LEMMA LoadedIsCurrentStep == QueueInv /\ ReportInv /\ [Next]_vars => LoadedIsCurrent'
<1> SUFFICES ASSUME QueueInv, ReportInv, [Next]_vars, NEW p \in Procs,
                    proc'[p].pc = "reporting", job'[proc'[p].job].attempts <= 2
             PROVE  LET old == proc'[p].loaded
                        row == job'[proc'[p].job]
                    IN  /\ old.status \notin Outcomes => old.seen = 0
                        /\ old.status \in Outcomes => old.status = row.status /\ old.seen = row.seen
  BY DEF LoadedIsCurrent
<1>1. \/ proc'[p] = proc[p]
      \/ /\ proc[p].pc = "processing" /\ proc'[p].job = proc[p].job
         /\ proc'[p].loaded = job[proc[p].job] /\ job' = job
  BY ProcChanges DEF ProcChange, AtWork
<1>2. CASE /\ proc[p].pc = "processing" /\ proc'[p].job = proc[p].job
           /\ proc'[p].loaded = job[proc[p].job] /\ job' = job
  <2>1. proc[p].job \in Jobs
    BY <1>2 DEF QueueInv, BusyHasJob, AtWork
  <2> QED
    BY <1>2, <2>1 DEF ReportInv, CountsOfReports, Closing
<1>3. CASE proc'[p] = proc[p]
  <2> DEFINE j == proc[p].job
             old == proc[p].loaded
  <2>1. /\ j \in Jobs /\ Works(p, j) /\ Works(p, j)' /\ job[j].attempts \in Nat
        /\ job'[j].attempts <= 2
    BY <1>3 DEF QueueInv, TypeOK, JobRow, BusyHasJob, AtWork, Works
  <2>2. job[j].attempts <= 2 =>
          /\ old.status \notin Outcomes => old.seen = 0
          /\ old.status \in Outcomes => old.status = job[j].status /\ old.seen = job[j].seen
    BY <1>3 DEF ReportInv, LoadedIsCurrent
  <2>3. CASE Kept(j)
    BY <1>3, <2>1, <2>2, <2>3 DEF Kept
  <2>4. CASE Opened(j)
    <3>1. job[j].attempts = 0
      BY <2>1, <2>4 DEF Opened, QueueInv, AbsentUnclaimed
    <3> QED
      BY <2>1, <2>4, <3>1 DEF Opened, ReportInv, FewRuns
  <2>5. CASE Retried(j) \/ Recalled(j)
    BY <1>3, <2>1, <2>2, <2>5 DEF Retried, Recalled, Outcomes
  <2>6. CASE Reported(j)
    <3>1. PICK q \in Procs : Works(q, j) /\ proc'[q] = Idle /\ job'[j].attempts = job[j].attempts
      BY <2>1, <2>6, ReportedRow
    <3>2. p # q
      BY <3>1, <2>1 DEF Works, Idle, AtWork
    <3>3. ~Closing(j)
      BY <2>1, <3>1, <3>2 DEF ReportInv, FewRuns
    <3> QED
      BY <1>3, <2>1, <2>2, <3>1, <3>3 DEF Closing
  <2> QED
    BY <2>1, <2>3, <2>4, <2>5, <2>6, ColumnsChange
<1> QED
  BY <1>1, <1>2, <1>3

\* A job that was claimed twice at most and reads completed has the counts of a run
\* through its whole source (complete_job, fail_job), in whatever order its runs load
\* the row, write it and are overtaken.
THEOREM CompletedJobsSawAll == Spec => []CompletedSawAll
<1>1. Init => ReportInv /\ CompletedSawAll
  BY QueueAssumption DEF Init, ReportInv, FewRuns, CountsOfReports, ProgressInBounds,
     LoadedIsCurrent, CompletedSawAll, Closing, Outcomes, Works, AtWork, Idle, Down, Absent
<1>2. QueueInv /\ ReportInv /\ CompletedSawAll /\ [Next]_vars => (ReportInv /\ CompletedSawAll)'
  BY FewRunsStep, CountsStep, ProgressStep, LoadedIsCurrentStep DEF ReportInv
<1> QED
  BY <1>1, <1>2, QueueInvariant, PTL DEF Spec

-----------------------------------------------------------------------------
(***************************************************************************)
(* Timely heartbeats: no document outlasts a lease.  Then the row of a job *)
(* that is worked on is what its one process made of it, also when all     *)
(* workers run under the same id.                                          *)
(***************************************************************************)
WorkedRuns ==
  \A p \in Procs : proc[p].pc \in AtWork =>
    LET row == job[proc[p].job]
    IN  /\ row.status = "running"
        /\ p \in Workers => row.owner = WorkerId[p] /\ row.expires = proc[p].lease
        /\ p \in Callers => row.expires = NoLease

Alone == \A p, q \in Procs : \A j \in Jobs : Works(p, j) /\ Works(q, j) => p = q

InTime ==
  \A w \in Workers :
    /\ proc[w].pc = "selected" => clock <= proc[w].now + LeaseTime
    /\ proc[w].pc \in AtWork => clock <= proc[w].lease

TimelyInv == QueueInv /\ WorkedRuns /\ Alone /\ InTime

\* Time passes only while every lease, and every claim in progress, has time left.
LEMMA InTimeStep ==
  ASSUME TimelyHeartbeats = TRUE, TimelyInv, [Next]_vars
  PROVE  InTime'
<1> SUFFICES ASSUME NEW w \in Workers
             PROVE  /\ proc'[w].pc = "selected" => clock' <= proc'[w].now + LeaseTime
                    /\ proc'[w].pc \in AtWork => clock' <= proc'[w].lease
  BY DEF InTime
<1> USE QueueAssumption DEF AtWork
<1>1. /\ w \in Procs /\ w \notin Callers /\ QueueInv /\ clock \in Nat
      /\ proc[w].now \in Nat /\ proc[w].lease \in Nat
      /\ proc[w].pc = "selected" => clock <= proc[w].now + LeaseTime
      /\ proc[w].pc \in AtWork => clock <= proc[w].lease
  BY DEF TimelyInv, QueueInv, TypeOK, Procs, ProcState, InTime
<1>2. CASE Tick
  <2>1. proc' = proc /\ clock' = clock + 1 /\ clock < Deadline(w)
    BY <1>2 DEF Tick
  <2>2. /\ proc[w].pc = "selected" => Deadline(w) = proc[w].now + LeaseTime
        /\ proc[w].pc \in AtWork => Deadline(w) = proc[w].lease
    BY DEF Deadline
  <2> QED
    BY <1>1, <2>1, <2>2
<1>3. CASE clock' = clock
  <2>1. CASE ClaimUpdate(w) /\ proc'[w].pc = "processing"
             /\ proc'[w].lease = proc[w].now + LeaseTime
    BY <1>1, <1>3, <2>1 DEF ClaimUpdate
  <2>2. CASE ProcessDocument(w) /\ proc'[w].pc = "processing"
             /\ proc'[w].lease = IF HeartbeatMatches(w) THEN clock + LeaseTime
                                                        ELSE proc[w].lease
    BY <1>1, <1>3, <2>2 DEF ProcessDocument
  <2> QED
    BY <1>1, <1>3, <2>1, <2>2, ProcChanges DEF ProcChange
<1> QED
  BY <1>1, <1>2, <1>3, ClockGrows

\* A process goes on with its job, or begins one that nobody runs.
LEMMA WorksOn ==
  ASSUME TimelyInv, [Next]_vars, NEW p \in Procs, NEW j \in Jobs, Works(p, j)'
  PROVE  \/ Works(p, j)
         \/ /\ job[j].status # "running"
            /\ \A q \in Procs \ {p} : proc'[q] = proc[q]
<1> USE QueueAssumption DEF AtWork
<1>1. proc'[p].pc \in AtWork /\ proc'[p].job = j /\ QueueInv
  BY DEF Works, TimelyInv
<1>2. ProcChange(p)
  BY <1>1, ProcChanges
<1> QED
  BY <1>1, <1>2 DEF ProcChange, Works, ProcessDocument, ClaimUpdate, StillQueued

\* A claim takes a queued job, and nobody works on a queued job.
LEMMA AloneStep ==
  ASSUME TimelyInv, [Next]_vars
  PROVE  Alone'
<1> SUFFICES ASSUME NEW p \in Procs, NEW q \in Procs, NEW j \in Jobs,
                    Works(p, j)', Works(q, j)', p # q
             PROVE  FALSE
  BY DEF Alone
<1>1. ASSUME NEW r \in Procs, Works(r, j) PROVE job[j].status = "running"
  BY <1>1 DEF Works, TimelyInv, WorkedRuns
<1>2. CASE Works(p, j) /\ Works(q, j)
  BY <1>2 DEF Alone, TimelyInv
<1>3. CASE job[j].status # "running"
  <2>1. ~Works(p, j) /\ ~Works(q, j)
    BY <1>1, <1>3
  <2>2. proc'[q] = proc[q]
    BY <2>1, WorksOn
  <2> QED
    BY <2>1, <2>2 DEF Works
<1> QED
  BY <1>2, <1>3, WorksOn

\* Recovery finds only jobs nobody works on, a renewal comes from the one
\* process that does, and a report sends it back to the loop.
LEMMA WorkedRunsStep ==
  ASSUME TimelyInv, [Next]_vars
  PROVE  WorkedRuns'
<1> SUFFICES ASSUME NEW p \in Procs, proc'[p].pc \in AtWork
             PROVE  /\ job'[proc'[p].job].status = "running"
                    /\ p \in Workers => /\ job'[proc'[p].job].owner = WorkerId[p]
                                        /\ job'[proc'[p].job].expires = proc'[p].lease
                    /\ p \in Callers => job'[proc'[p].job].expires = NoLease
  BY DEF WorkedRuns
<1> USE QueueAssumption
<1> DEFINE j == proc[p].job
<1>0. /\ QueueInv /\ clock \in Nat /\ proc[p] \in ProcState /\ job \in [Jobs -> JobRow]
      /\ p \in Workers => p \notin Callers /\ WorkerId[p] \in Names
      /\ p \in Workers \/ p \in Callers
      /\ proc[p].pc \in {"selected"} \cup AtWork => j \in Jobs /\ job[j] \in JobRow
  BY DEF TimelyInv, QueueInv, TypeOK, BusyHasJob, Procs, Names
<1>1. CASE proc'[p] = proc[p]
  <2>0. Works(p, j) /\ proc[p].pc \in AtWork /\ j \in Jobs /\ job[j] \in JobRow
    BY <1>0, <1>1 DEF Works
  <2>1. /\ job[j].status = "running"
        /\ p \in Workers => job[j].owner = WorkerId[p] /\ job[j].expires = proc[p].lease
        /\ p \in Callers => job[j].expires = NoLease
    BY <2>0 DEF TimelyInv, WorkedRuns
  <2>2. p \in Workers => clock <= proc[p].lease /\ proc[p].lease \in Nat
    BY <1>0, <2>0 DEF TimelyInv, InTime, ProcState
  <2>3. \A q \in Procs : Works(q, j) => q = p
    BY <2>0 DEF TimelyInv, Alone
  <2> HIDE DEF j
  <2>4. ~Inserted(j) /\ ~Taken(j) /\ ~GivenUp(j)
    BY <1>0, <2>1, <2>2 DEF Inserted, Taken, GivenUp, Expired
  <2>5. CASE job'[j] = job[j]
    BY <1>1, <2>1, <2>5 DEF j
  <2>6. CASE Renewed(j)
    <3>1. PICK v \in Workers, e \in Nat \ {0} :
                 /\ Works(v, j) /\ proc'[v].lease = e
                 /\ job'[j] = [job[j] EXCEPT !.expires = e]
      BY <2>6 DEF Renewed
    <3>2. v = p
      BY <2>3, <3>1 DEF Procs
    <3>3. /\ job'[j].status = job[j].status /\ job'[j].owner = job[j].owner
          /\ job'[j].expires = e
      BY <2>0, <3>1, RenewedRow
    <3> QED
      BY <1>0, <1>1, <2>1, <3>1, <3>2, <3>3 DEF j
  <2>7. CASE Reported(j)
    <3>1. PICK q \in Procs : Works(q, j) /\ proc'[q] = Idle
      BY <2>7 DEF Reported
    <3> QED
      BY <2>0, <2>3, <3>1, <1>1 DEF Idle, AtWork
  <2> QED
    BY <1>0, <2>0, <2>4, <2>5, <2>6, <2>7, RowChanges DEF RowChange
<1>2. ASSUME NEW k \in Jobs, p \in Callers, job'[k] = NewRow("running"), proc'[p].job = k
      PROVE  job'[k].status = "running" /\ job'[k].expires = NoLease
  BY <1>0, <1>2, NewRowIsRow
<1>1a. CASE /\ job' = job /\ proc[p].pc = "processing"
            /\ proc'[p].job = proc[p].job /\ proc'[p].lease = proc[p].lease
  BY <1>1a DEF TimelyInv, WorkedRuns, AtWork
<1>3. CASE ClaimUpdate(p) /\ p \in Workers /\ proc'[p].job = proc[p].job
             /\ proc'[p].lease = proc[p].now + LeaseTime
  <2> DEFINE e == proc[p].now + LeaseTime
  <2>1. j \in Jobs /\ job[j] \in JobRow /\ e \in Nat /\ WorkerId[p] \in Names
    BY <1>0, <1>3 DEF ClaimUpdate, ProcState
  <2>2. job'[j] = Claimed(job[j], WorkerId[p], e)
    BY <1>0, <1>3, <2>1 DEF ClaimUpdate
  <2> HIDE DEF j, e
  <2>3. job'[j].status = "running" /\ job'[j].owner = WorkerId[p] /\ job'[j].expires = e
    BY <2>1, <2>2, ClaimedRow
  <2> QED
    BY <1>0, <1>3, <2>3 DEF j, e
<1>4. CASE /\ ProcessDocument(p) /\ proc'[p].job = proc[p].job
           /\ proc'[p].lease = IF HeartbeatMatches(p) THEN clock + LeaseTime ELSE proc[p].lease
  <2>1. /\ proc[p].pc = "processing" /\ j \in Jobs /\ job[j] \in JobRow
        /\ job[j].status = "running"
        /\ p \in Workers => job[j].owner = WorkerId[p]
        /\ p \in Callers => job[j].expires = NoLease
    BY <1>0, <1>4 DEF ProcessDocument, TimelyInv, WorkedRuns, AtWork
  <2>2. CASE p \in Workers
    <3> DEFINE e == clock + LeaseTime
    <3>1. HeartbeatMatches(p) /\ e \in Nat
      BY <1>0, <2>1, <2>2 DEF HeartbeatMatches
    <3>2. job'[j] = [job[j] EXCEPT !.expires = e]
      BY <1>0, <1>4, <2>1, <3>1 DEF ProcessDocument
    <3>3. proc'[p].job = j /\ proc'[p].lease = e
      BY <1>4, <3>1
    <3> HIDE DEF j, e
    <3>4. /\ job'[j].status = job[j].status /\ job'[j].owner = job[j].owner
          /\ job'[j].expires = e
      BY <2>1, <3>1, <3>2, RenewedRow
    <3> QED
      BY <1>0, <2>1, <2>2, <3>3, <3>4
  <2>3. CASE p \in Callers
    <3>1. job' = job /\ proc'[p].job = j
      BY <1>0, <1>4, <2>3 DEF ProcessDocument, HeartbeatMatches
    <3> QED
      BY <1>0, <2>1, <2>3, <3>1
  <2> QED
    BY <1>0, <2>2, <2>3
<1>5. ProcChange(p)
  BY <1>0, ProcChanges
<1> QED
  BY <1>0, <1>1, <1>1a, <1>2, <1>3, <1>4, <1>5 DEF ProcChange, AtWork

\* The invariant of timely heartbeats.
LEMMA TimelyInvariant ==
  ASSUME TimelyHeartbeats = TRUE
  PROVE  Spec => []TimelyInv
<1>1. Init => TimelyInv
  BY InitQueueInv, QueueAssumption
     DEF Init, TimelyInv, WorkedRuns, Alone, InTime, Works, AtWork, Idle, Down, Procs
<1>2. TimelyInv /\ [Next]_vars => TimelyInv'
  BY TypeStep, RowStep, LoadedStep, InTimeStep, AloneStep, WorkedRunsStep DEF TimelyInv, QueueInv
<1> QED
  BY <1>1, <1>2, PTL DEF Spec

\* While no document outlasts a lease, a claimed row, its owner and its lease are
\* those of the one worker that processes it, whatever ids the workers carry.
THEOREM OwnersWork ==
  ASSUME TimelyHeartbeats = TRUE
  PROVE  Spec => []OwnerWorks
<1>1. TimelyInv => OwnerWorks
  BY DEF TimelyInv, WorkedRuns, Alone, InTime, OwnerWorks, Works, Procs
<1> QED
  BY <1>1, TimelyInvariant, PTL

\* And an outcome, once recorded, is the outcome: nobody is left to report another.
THEOREM OutcomesAreFinal ==
  ASSUME TimelyHeartbeats = TRUE
  PROVE  Spec => OutcomeFinal
<1> DEFINE Same == \A j \in Jobs : job[j].status \in Terminal
                                     => job'[j].status = job[j].status
<1>1. TimelyInv /\ [Next]_vars => [Same]_vars
  <2> SUFFICES ASSUME TimelyInv, [Next]_vars, NEW j \in Jobs,
                      job[j].status \in Terminal
               PROVE  job'[j].status = job[j].status
    OBVIOUS
  <2>1. ~Inserted(j) /\ ~Taken(j) /\ ~GivenUp(j) /\ ~Renewed(j)
    BY DEF Terminal, Outcomes, Inserted, Taken, GivenUp, Renewed, Expired
  <2>2. ~Reported(j)
    BY DEF Reported, Works, TimelyInv, WorkedRuns, Terminal, Outcomes
  <2> QED
    BY <2>1, <2>2, RowChanges DEF RowChange, TimelyInv
<1> QED
  BY <1>1, TimelyInvariant, PTL DEF Spec, OutcomeFinal

-----------------------------------------------------------------------------
(* The refinement *)

status == [j \in Jobs |-> job[j].status]
attempts == [j \in Jobs |-> job[j].attempts]

\* A step that writes one row.
LEMMA OneRow ==
  ASSUME NEW j \in Jobs, \A k \in Jobs \ {j} : job'[k] = job[k]
  PROVE  /\ status' = [status EXCEPT ![j] = job'[j].status]
         /\ attempts' = [attempts EXCEPT ![j] = job'[j].attempts]
<1>1. ASSUME NEW f, NEW g, f = [k \in Jobs |-> f[k]], g = [k \in Jobs |-> g[k]],
             \A k \in Jobs \ {j} : g[k] = f[k]
      PROVE  g = [f EXCEPT ![j] = g[j]]
  BY <1>1
<1>2. /\ status = [k \in Jobs |-> status[k]] /\ status' = [k \in Jobs |-> status'[k]]
      /\ attempts = [k \in Jobs |-> attempts[k]] /\ attempts' = [k \in Jobs |-> attempts'[k]]
      /\ \A k \in Jobs : /\ status'[k] = job'[k].status /\ attempts'[k] = job'[k].attempts
                         /\ status[k] = job[k].status /\ attempts[k] = job[k].attempts
  BY DEF status, attempts
<1>3. /\ status' = [status EXCEPT ![j] = status'[j]]
      /\ attempts' = [attempts EXCEPT ![j] = attempts'[j]]
  BY <1>1, <1>2
<1> QED
  BY <1>2, <1>3

\* A turn of the document loop writes at most the lease of its job.
LEMMA HeartbeatRenews ==
  ASSUME QueueInv, NEW p \in Procs, ProcessDocument(p), NEW j \in Jobs
  PROVE  job'[j].status = job[j].status /\ job'[j].attempts = job[j].attempts
<1> DEFINE e == clock + LeaseTime
<1>1. e \in Nat /\ job \in [Jobs -> JobRow] /\ job[j] \in JobRow
  BY QueueAssumption DEF QueueInv, TypeOK
<1>2. job' = job \/ job' = [job EXCEPT ![proc[p].job] = [job[proc[p].job] EXCEPT !.expires = e]]
  BY DEF ProcessDocument
<1> HIDE DEF e
<1>3. job'[j] = job[j] \/ job'[j] = [job[j] EXCEPT !.expires = e]
  BY <1>1, <1>2
<1>4. CASE job'[j] = [job[j] EXCEPT !.expires = e]
  BY <1>1, <1>4, RenewedRow
<1> QED
  BY <1>3, <1>4

\* Submissions, claims and reports are those of the lifecycle; a worker that
\* starts gives up the expired jobs; the rest of the steps it does not see.
LEMMA LifecycleStep ==
  ASSUME TimelyInv, [Next]_vars
  PROVE  [Lifecycle!LifecycleNext]_(Lifecycle!lifecycleVars)
<1> USE QueueAssumption
<1>0. /\ QueueInv /\ job \in [Jobs -> JobRow]
      /\ \A j \in Jobs : job[j] \in JobRow /\ status[j] = job[j].status
                                           /\ attempts[j] = job[j].attempts
  BY DEF TimelyInv, QueueInv, TypeOK, status, attempts
<1>1. ASSUME NEW j \in Jobs, NEW s \in {"queued", "running"},
             job[j].status = "absent", job' = [job EXCEPT ![j] = NewRow(s)]
      PROVE  Lifecycle!Submit(j)
  <2>1. NewRow(s).status = s /\ NewRow(s).attempts = 0
    BY <1>0, NewRowIsRow
  <2>2. status[j] = "absent" /\ attempts[j] = 0
    BY <1>0, <1>1 DEF QueueInv, AbsentUnclaimed
  <2>3. job'[j] = NewRow(s) /\ \A k \in Jobs \ {j} : job'[k] = job[k]
    BY <1>0, <1>1
  <2>4. status' = [status EXCEPT ![j] = s] /\ attempts' = [attempts EXCEPT ![j] = 0]
    BY <2>1, <2>3, OneRow
  <2>5. attempts' = attempts
    BY <2>2, <2>4 DEF attempts
  <2> QED
    BY <2>2, <2>4, <2>5 DEF Lifecycle!Submit, status, attempts
<1>2. ASSUME NEW w \in Workers, RunWorker(w)
      PROVE  \E lost \in SUBSET Jobs : Lifecycle!Recover(lost)
  <2> DEFINE lost == {j \in Jobs : Expired(j)}
  <2>1. ASSUME NEW j \in Jobs
        PROVE  /\ Expired(j) => status[j] = "running" /\ attempts[j] > 0
               /\ status'[j] = CASE j \notin lost -> status[j]
                                 [] j \in lost /\ attempts[j] < MaxAttempts -> "queued"
                                 [] OTHER -> "quarantined"
               /\ attempts'[j] = attempts[j]
    <3>1. job'[j] = IF Expired(j) THEN Recovered(job[j]) ELSE job[j]
      BY <1>2 DEF RunWorker
    <3>2. status'[j] = job'[j].status /\ attempts'[j] = job'[j].attempts
      BY DEF status, attempts
    <3>3. Expired(j) => job[j].status = "running" /\ job[j].attempts > 0
      BY <1>0 DEF Expired, QueueInv, LeaseDiscipline
    <3>4. job[j].attempts \in Nat
      BY <1>0 DEF JobRow
    <3> QED
      BY <1>0, <3>1, <3>2, <3>3, <3>4, RecoveredRow
  <2>2. /\ status' = [j \in Jobs |-> status'[j]]
        /\ attempts' = [j \in Jobs |-> attempts'[j]] /\ attempts = [j \in Jobs |-> attempts[j]]
    BY DEF status, attempts
  <2>3. attempts' = attempts
    BY <2>1, <2>2
  <2>4. status' = [j \in Jobs |->
                     CASE j \notin lost -> status[j]
                       [] j \in lost /\ attempts[j] < MaxAttempts -> "queued"
                       [] OTHER -> "quarantined"]
    BY <2>1, <2>2
  <2>5. \A j \in lost : status[j] = "running" /\ attempts[j] > 0
    BY <2>1
  <2>6. lost \in SUBSET Jobs
    OBVIOUS
  <2> HIDE DEF lost
  <2> QED
    BY <2>3, <2>4, <2>5, <2>6 DEF Lifecycle!Recover, status, attempts
<1>3. ASSUME NEW w \in Workers, ClaimUpdate(w)
      PROVE  \E j \in Jobs : Lifecycle!Claim(j)
  <2> DEFINE j == proc[w].job
             e == proc[w].now + LeaseTime
  <2>1. j \in Jobs /\ e \in Nat /\ WorkerId[w] \in Names
    BY <1>0, <1>3 DEF QueueInv, TypeOK, BusyHasJob, ClaimUpdate, ProcState, Procs, Names
  <2>2. job' = [job EXCEPT ![j] = Claimed(job[j], WorkerId[w], e)] /\ job[j].status = "queued"
    BY <1>3 DEF ClaimUpdate, StillQueued
  <2> HIDE DEF j, e
  <2>3. /\ job'[j] = Claimed(job[j], WorkerId[w], e)
        /\ \A k \in Jobs \ {j} : job'[k] = job[k]
    BY <1>0, <2>1, <2>2
  <2>4. job'[j].status = "running" /\ job'[j].attempts = attempts[j] + 1
    BY <1>0, <2>1, <2>3, ClaimedRow
  <2>5. status[j] = "queued" /\ attempts[j] < MaxAttempts
    BY <1>0, <2>1, <2>2 DEF QueueInv, AttemptsBounded
  <2>6. /\ status' = [status EXCEPT ![j] = "running"]
        /\ attempts' = [attempts EXCEPT ![j] = attempts[j] + 1]
    BY <2>1, <2>3, <2>4, OneRow
  <2> QED
    BY <2>1, <2>5, <2>6 DEF Lifecycle!Claim, status, attempts
<1>4. ASSUME NEW p \in Procs, WriteOutcome(p)
      PROVE  \E j \in Jobs : Lifecycle!Finish(j)
  <2> DEFINE j == proc[p].job
             old == proc[p].loaded
             row == Flushed(job[j], old, Closed(old, proc[p].outcome, proc[p].seen))
  <2>1. /\ j \in Jobs /\ job[j].status = "running" /\ old \in JobRow
        /\ proc[p].seen \in Nat /\ proc[p].outcome \in Outcomes
        /\ old.status \in Terminal => job[j].status \in Terminal
    BY <1>0, <1>4 DEF QueueInv, TypeOK, BusyHasJob, TimelyInv, WorkedRuns, ProcState,
                      ReportsLoaded, AtWork, WriteOutcome
  <2>2. proc[p].outcome \in Terminal /\ old.status # proc[p].outcome
    BY <2>1 DEF Terminal, Outcomes
  <2>3. job' = [job EXCEPT ![j] = row]
    BY <1>4 DEF WriteOutcome
  <2>4. row.status = proc[p].outcome /\ row.attempts = job[j].attempts
    BY <1>0, <2>1, <2>2, FinishedRow
  <2> HIDE DEF j, old, row
  <2>5. job'[j] = row /\ \A k \in Jobs \ {j} : job'[k] = job[k]
    BY <1>0, <2>1, <2>3
  <2>6. /\ status' = [status EXCEPT ![j] = proc[p].outcome]
        /\ attempts' = [attempts EXCEPT ![j] = attempts[j]]
    BY <1>0, <2>1, <2>4, <2>5, OneRow
  <2>7. attempts' = attempts /\ status[j] = "running"
    BY <1>0, <2>1, <2>6 DEF attempts
  <2> QED
    BY <2>1, <2>6, <2>7 DEF Lifecycle!Finish, Lifecycle!Outcomes, Outcomes, status, attempts
<1>5. ASSUME NEW p \in Procs, ProcessDocument(p)
      PROVE  UNCHANGED <<status, attempts>>
  BY <1>0, <1>5, HeartbeatRenews DEF status, attempts
<1>6. ASSUME job' = job PROVE UNCHANGED <<status, attempts>>
  BY <1>6 DEF status, attempts
<1>7. \/ UNCHANGED <<status, attempts>>
      \/ \E j \in Jobs : Lifecycle!Submit(j) \/ Lifecycle!Claim(j) \/ Lifecycle!Finish(j)
      \/ \E lost \in SUBSET Jobs : Lifecycle!Recover(lost)
  BY <1>1, <1>2, <1>3, <1>4, <1>5, <1>6
     DEF Next, RunNextJob, ProcessJob, EnqueuePath, IngestPath, ClaimSelect, ClaimLost,
         CompleteJob, FailJob, LoadRow, LoseOutcome, Crash, Tick, vars
<1> QED
  BY <1>7 DEF Lifecycle!LifecycleNext, Lifecycle!lifecycleVars, status, attempts

\* With timely heartbeats the queue, for any number of jobs, workers and callers,
\* implements JobLifecycle: a job is submitted once, run at most MaxAttempts times,
\* and its outcome is final.
THEOREM QueueImplementsLifecycle ==
  ASSUME TimelyHeartbeats = TRUE
  PROVE  Spec => ImplementsLifecycle
<1>1. Init => Lifecycle!LifecycleInit
  BY DEF Init, Absent, Lifecycle!LifecycleInit
<1> QED
  BY <1>1, LifecycleStep, TimelyInvariant, PTL
     DEF Spec, ImplementsLifecycle, Lifecycle!LifecycleSpec
=============================================================================
