-------------------------------- MODULE Choices --------------------------------
(***************************************************************************)
(* The continuations that an investigation is offered when its agent has   *)
(* run out of turns. To select one enqueues a job and then marks it.       *)
(***************************************************************************)
EXTENDS Requests

CONSTANT Offered  \* the choices on offer

\* jobs: those enqueued, each by the number of its request; marked: the requests
\* made when it was first marked as selected, 0 before; names: the job it is
\* marked with.
VARIABLE choices

ChoiceRequest == [kind: {"choice"}, at: {"check", "enqueue", "mark"}, id: Offered, began: Nat]

SelectChoice(c, id) ==
  /\ Begin(c, [kind |-> "choice", at |-> "check", id |-> id, began |-> clock + 1])
  /\ UNCHANGED choices

\* Mutant: a choice may be selected again.
CheckChoiceNever(c) == Doing(c, "choice", "check") /\ GoTo(c, "enqueue") /\ UNCHANGED choices

\* One that has been selected is refused.
CheckChoice(c) ==
  /\ Doing(c, "choice", "check")
  /\ IF choices[req[c].id].marked > 0 THEN End(c) ELSE GoTo(c, "enqueue")
  /\ UNCHANGED choices

\* The agent's job, in a transaction of its own.
EnqueueChoice(c) ==
  /\ Doing(c, "choice", "enqueue")
  /\ choices' = [choices EXCEPT ![req[c].id].jobs = @ \cup {req[c].began}]
  /\ GoTo(c, "mark")

\* update_investigation_choice, which does not look whether another one has come first.
MarkChoice(c) ==
  /\ Doing(c, "choice", "mark")
  /\ choices' = [choices EXCEPT ![req[c].id].marked = IF @ = 0 THEN clock ELSE @,
                                ![req[c].id].names = req[c].began]
  /\ End(c)

\* A statement fails: what is committed stays.
SelectFails(c) == req[c].kind = "choice" /\ End(c) /\ UNCHANGED choices

InitChoices == choices = [id \in Offered |-> [jobs |-> {}, marked |-> 0, names |-> 0]]

ChoiceProgress(c) == CheckChoice(c) \/ EnqueueChoice(c) \/ MarkChoice(c)
ChoiceStep(c) == (\E id \in Offered : SelectChoice(c, id)) \/ ChoiceProgress(c) \/ SelectFails(c)

-----------------------------------------------------------------------------
(* Properties.                                                             *)

\* A choice starts an investigation once, but for requests that overlap and for
\* markings that fail: no request made after a choice was marked enqueues another
\* job for it, and the job that it names is one of those it started.
ChosenOnce ==
  \A id \in Offered : choices[id].marked > 0 =>
    /\ choices[id].names \in choices[id].jobs
    /\ \A began \in choices[id].jobs : began <= choices[id].marked
=============================================================================
