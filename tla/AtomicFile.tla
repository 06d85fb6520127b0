----------------------------- MODULE AtomicFile -----------------------------
(***************************************************************************)
(* What an open file promises about the remote file, without locks,        *)
(* requests and deadlines: a Write takes effect at one instant and at most *)
(* once, after it was called; if it is acknowledged it has taken effect by *)
(* then, and if it is refused it never does.  One whose caller gives up has *)
(* taken effect, or may still, or never does.  A Read sees the file of one *)
(* instant between its call and its answer.  Module FileHandle implements  *)
(* it.                                                                     *)
(***************************************************************************)
EXTENDS Naturals

CONSTANTS Clients, Places, Writes, Size

VARIABLES
  file,      \* the number of the Write a place holds, 0 at first
  place,     \* where each Write goes
  effect,    \* whether it has taken effect: "none" until it is called
  outcome,   \* what its caller has been told
  stage,     \* how far the Read of each client is
  asked,     \* the places it asks for
  seen       \* what it has found in them

fileVars == <<file, place, effect, outcome>>
readVars == <<stage, asked, seen>>

Nothing == [o \in {} |-> 0]

FileInit ==
  /\ file = [o \in Places |-> 0]
  /\ place = [w \in Writes |-> 0]
  /\ effect = [w \in Writes |-> "none"]
  /\ outcome = [w \in Writes |-> "none"]
  /\ stage = [c \in Clients |-> "idle"]
  /\ asked = [c \in Clients |-> {}]
  /\ seen = [c \in Clients |-> Nothing]

Becomes(w, from, to) ==
  /\ effect[w] = from
  /\ effect' = [effect EXCEPT ![w] = to]

CallWrite(w, o) ==
  /\ Becomes(w, "none", "pending")
  /\ place' = [place EXCEPT ![w] = o]
  /\ UNCHANGED <<file, outcome, readVars>>

TakeEffect(w) ==
  /\ Becomes(w, "pending", "done")
  /\ file' = [file EXCEPT ![place[w]] = w]
  /\ UNCHANGED <<place, outcome, readVars>>

\* The Write is refused: whatever happens, it will not take effect.
Abort(w) ==
  /\ Becomes(w, "pending", "never")
  /\ \/ UNCHANGED outcome
     \/ outcome[w] = "none" /\ outcome' = [outcome EXCEPT ![w] = "error"]
  /\ UNCHANGED <<file, place, readVars>>

Tell(w, how) ==
  /\ outcome[w] = "none"
  /\ \/ how = "ok" /\ effect[w] = "done"
     \/ how = "error" /\ effect[w] = "never"
     \/ how = "timeout" /\ effect[w] \in {"pending", "done"}
  /\ outcome' = [outcome EXCEPT ![w] = how]
  /\ UNCHANGED <<file, place, effect, readVars>>

Advance(c, from, to) ==
  /\ stage[c] \in from
  /\ stage' = [stage EXCEPT ![c] = to]
  /\ UNCHANGED fileVars

CallRead(c, places) ==
  /\ Advance(c, {"idle"}, "asked")
  /\ asked' = [asked EXCEPT ![c] = places]
  /\ UNCHANGED seen

Within(o) == o < Size \/ \E p \in Places : o <= p /\ file[p] # 0

See(c) ==
  /\ Advance(c, {"asked"}, "seen")
  /\ seen' = [seen EXCEPT ![c] = [o \in {p \in asked[c] : Within(p)} |-> file[o]]]
  /\ UNCHANGED asked

Fail(c) == Advance(c, {"asked", "seen"}, "failed") /\ UNCHANGED <<asked, seen>>

EndRead(c) ==
  /\ Advance(c, {"asked", "seen", "failed"}, "idle")
  /\ asked' = [asked EXCEPT ![c] = {}]
  /\ seen' = [seen EXCEPT ![c] = Nothing]

FileNext ==
  \/ \E w \in Writes :
       \/ \E o \in Places : CallWrite(w, o)
       \/ TakeEffect(w) \/ Abort(w)
       \/ \E how \in {"ok", "error", "timeout"} : Tell(w, how)
  \/ \E c \in Clients :
       \/ \E places \in SUBSET Places : CallRead(c, places)
       \/ See(c) \/ Fail(c) \/ EndRead(c)

FileSpec == FileInit /\ [][FileNext]_<<fileVars, readVars>>

=============================================================================
