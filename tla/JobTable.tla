------------------------------ MODULE JobTable ------------------------------
(***************************************************************************)
(* What a job table promises its callers, whoever works on the jobs and    *)
(* however often they crash: a job is created once, may be handed out and  *)
(* taken back any number of times, ends in a verdict, and a verdict is     *)
(* never withdrawn: the job is never run again.  The verdict itself may be *)
(* overwritten by a later one (the code's final UPDATEs name the job only  *)
(* by its identifier).                                                     *)
(***************************************************************************)

CONSTANT Jobs

VARIABLE status

\* The values of the enum job_status, and the row that is not there yet.
Active   == {"pending", "running"}
Verdicts == {"completed", "failed"}
Statuses == {"absent"} \union Active \union Verdicts

Init == status = [j \in Jobs |-> "absent"]

\* One commit may create several jobs.
Create(S) ==
  /\ \A j \in S : status[j] = "absent"
  /\ status' = [j \in Jobs |-> IF j \in S THEN "pending" ELSE status[j]]

Assign(j) ==
  /\ status[j] = "pending"
  /\ status' = [status EXCEPT ![j] = "running"]

\* Recovery resets every job it believes abandoned in one statement.
TakeBack(S) ==
  /\ \A j \in S : status[j] = "running"
  /\ status' = [j \in Jobs |-> IF j \in S THEN "pending" ELSE status[j]]

\* A worker that lost its job to recovery can still report on it, so the job
\* may be pending, or have a verdict already.
Report(j, verdict) ==
  /\ status[j] # "absent"
  /\ status' = [status EXCEPT ![j] = verdict]

Next ==
  \/ \E j \in Jobs : Assign(j)
  \/ \E S \in SUBSET Jobs : Create(S) \/ TakeBack(S)
  \/ \E j \in Jobs, verdict \in Verdicts : Report(j, verdict)

\* No job is forgotten.
EveryJobEnds == \A j \in Jobs : status[j] = "pending" ~> status[j] \in Verdicts

Safe == Init /\ [][Next]_status

Spec == Safe /\ EveryJobEnds
=============================================================================
