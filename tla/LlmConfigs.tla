------------------------------ MODULE LlmConfigs ------------------------------
(***************************************************************************)
(* The LLM configurations of one user. The database keeps at most one of   *)
(* them active: a trigger that runs before a row is written as active      *)
(* deactivates the others. It looks for them in what is committed, and     *)
(* waits for the rows that other transactions hold (READ COMMITTED).       *)
(***************************************************************************)
EXTENDS Requests

CONSTANTS
  Configs,      \* ids of configurations, the existing and the new
  FirstConfigs  \* bound: what a behaviour may begin with

ASSUME ConfigsAssumption == IsFiniteSet(Configs)
ASSUME FirstConfigsAssumption == FirstConfigs \subseteq [Configs -> {"none", "off", "on"}]

VARIABLE configs  \* the committed rows: "none" (not yet), "off", "on", "gone"

Active == {i \in Configs : configs[i] = "on"}

\* get_active_llm_config: nothing, the one, or an exception when there are two.
NoneActive == Active = {}
TwoActive == Cardinality(Active) > 1
TheActive == CHOOSE i \in Configs : Active = {i}

ConfigRequest ==
  [kind: {"config"}, at: {"wait", "write"},
   id: Configs,
   row: {"off", "on", "gone", "same"},  \* what the row becomes
   todo: SUBSET Configs,                \* what the trigger has still to deactivate
   mine: SUBSET Configs,                \* the rows the transaction holds
   lone: BOOLEAN]                       \* no other transaction has written meanwhile

Writers == {c \in Of("config") : req[c].at = "write"}
Held(i) == \E c \in Writers : i \in req[c].mine
HeldByOther(c, i) == \E d \in Writers \ {c} : i \in req[d].mine

WriteOf(id, row, todo) ==
  [kind |-> "config", at |-> "write", id |-> id, row |-> row, todo |-> todo, mine |-> {id}, lone |-> Writers = {}]
Overlapping(c, r) ==
  [d \in Clients |-> IF d = c THEN r ELSE IF d \in Writers THEN [req[d] EXCEPT !.lone = FALSE] ELSE req[d]]

\* Mutant: the trigger is one for INSERT only.
WritingInserts(c, id, row) ==
  req' = Overlapping(c, WriteOf(id, row, IF row = "on" /\ configs[id] = "none" THEN Active \ {id} ELSE {}))

\* A transaction begins to write: it and those that are writing overlap. An active
\* row, inserted or updated, makes the trigger look for the others.
Writing(c, id, row) == req' = Overlapping(c, WriteOf(id, row, IF row = "on" THEN Active \ {id} ELSE {}))

-----------------------------------------------------------------------------
(* The requests.                                                           *)

\* POST /: the row is inserted at once.
CreateConfig(c, row) ==
  LET free == {i \in Configs : configs[i] = "none" /\ ~Held(i)} IN
  /\ Asks(c) /\ left["config"] > 0 /\ free # {}
  /\ Writing(c, CHOOSE i \in free : TRUE, row)
  /\ left' = [left EXCEPT !["config"] = @ - 1] /\ clock' = clock + 1
  /\ UNCHANGED configs

\* PATCH and DELETE look whether there is such a row, and write it in a second
\* statement. A PATCH without is_active leaves the row as active as it finds it.
ReadConfig(c, i, row) ==
  /\ configs[i] \in {"off", "on"}
  /\ Begin(c, [kind |-> "config", at |-> "wait", id |-> i, row |-> row, todo |-> {}, mine |-> {}, lone |-> FALSE])
  /\ UNCHANGED configs

PatchConfig(c, i) == \E row \in {"off", "on", "same"} : ReadConfig(c, i, row)
DeleteConfig(c, i) == ReadConfig(c, i, "gone")

\* The row is locked. The one that read it may find it gone by now.
WriteConfig(c) ==
  /\ Doing(c, "config", "wait") /\ ~Held(req[c].id)
  /\ LET i == req[c].id IN
     IF configs[i] = "gone" THEN End(c)
     ELSE Writing(c, i, IF req[c].row = "same" THEN configs[i] ELSE req[c].row) /\ UNCHANGED <<left, clock>>
  /\ UNCHANGED configs

\* The trigger's UPDATE takes one of the other active rows after the other. When it
\* had to wait for one, it looks again whether that is active.
DeactivateConfig(c, i) ==
  /\ Doing(c, "config", "write") /\ i \in req[c].todo /\ ~HeldByOther(c, i)
  /\ GoOn(c, [req[c] EXCEPT !.todo = @ \ {i}, !.mine = IF configs[i] = "on" THEN @ \cup {i} ELSE @])
  /\ UNCHANGED configs

CommitConfig(c) ==
  /\ Doing(c, "config", "write") /\ req[c].todo = {}
  /\ configs' = [i \in Configs |-> IF i = req[c].id THEN req[c].row
                                   ELSE IF i \in req[c].mine THEN "off" ELSE configs[i]]
  /\ End(c)

\* A statement fails, or the connection is lost: nothing has happened.
ConfigFails(c) ==
  /\ req[c].kind = "config"
  /\ End(c)
  /\ UNCHANGED configs

\* Mutant: nobody looks for deadlocks.
DeadlockDetectedNever(c) == c \in Writers /\ HeldByOther(c, req[c].id) /\ End(c) /\ UNCHANGED configs

\* Transactions that wait for each other's rows: one of them is aborted.
DeadlockDetected(c) ==
  /\ \E S \in SUBSET Writers :
       /\ c \in S
       /\ \A d \in S : req[d].todo # {} /\ \A i \in req[d].todo : \E f \in S \ {d} : i \in req[f].mine
  /\ End(c)
  /\ UNCHANGED configs

InitConfigs == configs \in FirstConfigs

ConfigProgress(c) == WriteConfig(c) \/ CommitConfig(c) \/ DeadlockDetected(c) \/ \E i \in Configs : DeactivateConfig(c, i)

ConfigStep(c) ==
  \/ \E row \in {"off", "on"} : CreateConfig(c, row)
  \/ \E i \in Configs : PatchConfig(c, i) \/ DeleteConfig(c, i)
  \/ ConfigProgress(c) \/ ConfigFails(c)

-----------------------------------------------------------------------------
(* Properties.                                                             *)

\* "At most one active configuration per user", as far as the trigger can see to
\* it: an activation during which no other transaction wrote leaves its own
\* configuration as the only active one, whatever the earlier ones have left.
OneActive ==
  [][\A c \in Clients : CommitConfig(c) /\ req[c].row = "on" /\ req[c].lone => Active' = {req[c].id}]_<<req, configs>>
=============================================================================
