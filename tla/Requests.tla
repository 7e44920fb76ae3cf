------------------------------- MODULE Requests -------------------------------
(***************************************************************************)
(* Requests in progress, whatever they are about: each has a session of    *)
(* its own and goes on, step by step, next to the others.                  *)
(***************************************************************************)
EXTENDS Naturals, FiniteSets

CONSTANTS
  Clients,  \* who has one request in progress at a time
  Mixes     \* bound: how many requests of each kind a behaviour may hold

Kinds == {"config", "report", "choice", "question", "agent"}

ASSUME ClientsAssumption == IsFiniteSet(Clients) /\ Clients # {}
ASSUME MixesAssumption == Mixes \subseteq [Kinds -> Nat]

VARIABLES
  req,   \* what each client's request has come to
  left,  \* the requests that may still be made
  clock  \* the requests made so far: a later one has a greater number

requestVars == <<req, left, clock>>

NoRequest == [kind |-> "none"]
Doing(c, kind, at) == req[c].kind = kind /\ req[c].at = at
Of(kind) == {c \in Clients : req[c].kind = kind}

InitRequests ==
  /\ req = [c \in Clients |-> NoRequest]
  /\ left \in Mixes
  /\ clock = 0

\* Who makes a request does not matter: one who has none in progress.
Free == {c \in Clients : req[c] = NoRequest}
Asks(c) == Free # {} /\ c = CHOOSE d \in Free : TRUE

Begin(c, r) ==
  /\ Asks(c) /\ left[r.kind] > 0
  /\ req' = [req EXCEPT ![c] = r]
  /\ left' = [left EXCEPT ![r.kind] = @ - 1]
  /\ clock' = clock + 1

GoOn(c, r) == req' = [req EXCEPT ![c] = r] /\ UNCHANGED <<left, clock>>
GoTo(c, at) == GoOn(c, [req[c] EXCEPT !.at = at])
End(c) == GoOn(c, NoRequest)
=============================================================================
