----------------------------- MODULE AtomicTree -----------------------------
(***************************************************************************)
(* What the operations on directories promise, without nodes, locks,       *)
(* requests and deadlines.  Create, Mkdir, Remove, Rename and Link take    *)
(* effect at one instant and at most once, after they were called.  One    *)
(* that returns without an error has taken effect; one that returns with   *)
(* one never does from then on, but for a timeout, after which it may      *)
(* still; a Create or a Mkdir may have before, when it was what comes      *)
(* after its effect that has failed.  Lookup and ReadDirAll answer with    *)
(* what was there at one instant of their call, Mkdir with what it has     *)
(* made, or without an id, and Create with what it has found at an instant *)
(* after its effect.  A Lookup that finds nothing was called when nothing  *)
(* was there, or what it had found was taken away.  Module Directory       *)
(* implements it.                                                          *)
(***************************************************************************)
EXTENDS FileTree

CONSTANTS
  Callers,
  EmptyReplies   \* whether a Mkdir can be told of its effect without an id

VARIABLES
  op,         \* the operation of each caller, NoOp when it has none
  pending,    \* the changes that can still take effect
  done,       \* how often the change of the operation has taken effect
  seen,       \* what it has found: a set with at most one member
  outcome,    \* how the operation of each caller has ended
  result,     \* the id of the node it has returned
  listing     \* the type of each name in the listing it has returned

answerVars == <<outcome, result, listing>>
promiseVars == <<treeVars, op, pending, done, seen, answerVars>>

NoOp == [op |-> "none"]
NoListing == [name \in Names |-> "none"]

PromiseInit ==
  /\ TreeInit
  /\ op = [c \in Callers |-> NoOp] /\ pending = {}
  /\ done = [c \in Callers |-> 0] /\ seen = [c \in Callers |-> {}]
  /\ outcome = [c \in Callers |-> "none"]
  /\ result = [c \in Callers |-> NoEntry]
  /\ listing = [c \in Callers |-> NoListing]

\* An operation is called, whichever it is, that is unlike all others; its
\* change can take effect, or never will.
Calls(c) ==
  /\ op[c] = NoOp /\ op'[c] \notin pending
  /\ op' = [op EXCEPT ![c] = op'[c]]
  /\ \/ UNCHANGED pending
     \/ op'[c].op \in Changes /\ pending' = pending \cup {op'[c]}
  /\ outcome' = [outcome EXCEPT ![c] = "none"]
  /\ result' = [result EXCEPT ![c] = NoEntry]
  /\ listing' = [listing EXCEPT ![c] = NoListing]
  /\ UNCHANGED <<treeVars, done, seen>>

\* Change r takes effect; its caller may be gone, or be told of it.
TakesEffect(r) ==
  /\ r \in pending /\ Accepts(r) /\ Carry(r)
  /\ pending' = pending \ {r}
  /\ done' = [c \in Callers |-> IF op[c] = r THEN done[c] + 1 ELSE done[c]]
  /\ \/ UNCHANGED seen
     \/ r.op = "mkdir" /\ \E c \in Callers :
          op[c] = r /\ seen' = [seen EXCEPT ![c] = {Len(kinds) + 1}]
  /\ UNCHANGED <<op, answerVars>>

Drops(r) ==
  /\ r \in pending
  /\ pending' = pending \ {r}
  /\ UNCHANGED <<treeVars, op, done, seen, answerVars>>

Looks(c) ==
  /\ \/ /\ op[c].op = "lookup" \/ (op[c].op = "create" /\ done[c] = 1)
        /\ seen' = [seen EXCEPT ![c] = {Held(At(op[c]))}]
     \/ /\ op[c].op = "readdir"
        /\ seen' = [seen EXCEPT ![c] = {[name \in Names |-> Held(<<op[c].dir, name>>)]}]
  /\ UNCHANGED <<treeVars, op, pending, done, answerVars>>

\* What it has found is no longer anywhere.
Misses(c) ==
  /\ op[c].op \in {"lookup", "create"} /\ \E id \in seen[c] : ~Reached(id)
  /\ seen' = [seen EXCEPT ![c] = {NoEntry}]
  /\ UNCHANGED <<treeVars, op, pending, done, answerVars>>

Forgets(c) ==
  /\ seen' = [seen EXCEPT ![c] = {}]
  /\ UNCHANGED <<treeVars, op, pending, done, answerVars>>

\* The answers an operation may return without an error,
Returned(c, id, l) ==
  CASE op[c].op = "create" -> done[c] = 1 /\ id # NoEntry /\ seen[c] = {id}
    [] op[c].op = "mkdir" ->
         /\ done[c] = 1
         /\ IF id = NoEntry THEN EmptyReplies ELSE seen[c] = {id}
    [] op[c].op \in {"remove", "rename", "link"} -> done[c] = 1
    [] op[c].op = "lookup" -> TypeOf(id) # "none" /\ seen[c] = {id}
    [] op[c].op = "readdir" -> \E s \in seen[c] : l = [name \in Names |-> TypeOf(s[name])]
    [] OTHER -> op[c].op = "open"

\* and with one.
Failed(c, how) ==
  /\ how \in {"refused", "rejected"} => done[c] = 0
  /\ how = "ENOENT" => done[c] = 0 \/ op[c].op = "create"
  /\ how = "error" => done[c] = 0 \/ op[c].op \in {"create", "mkdir"}
  /\ how = "ENOENT" /\ op[c].op = "lookup" => \E id \in seen[c] : TypeOf(id) = "none"

Returns(c, how, id, l) ==
  /\ op[c] # NoOp
  /\ IF how = "ok" THEN Returned(c, id, l) ELSE Failed(c, how)
  /\ op' = [op EXCEPT ![c] = NoOp]
  /\ pending' = IF how = "timeout" THEN pending ELSE pending \ {op[c]}
  /\ done' = [done EXCEPT ![c] = 0] /\ seen' = [seen EXCEPT ![c] = {}]
  /\ outcome' = [outcome EXCEPT ![c] = how]
  /\ result' = [result EXCEPT ![c] = id] /\ listing' = [listing EXCEPT ![c] = l]
  /\ UNCHANGED treeVars

PromiseNext ==
  \/ UNCHANGED promiseVars
  \/ \E c \in Callers : Calls(c)
  \/ \E c \in Callers : Returns(c, outcome'[c], result'[c], listing'[c])
  \/ \E r \in pending : TakesEffect(r) \/ Drops(r)
  \/ \E c \in Callers : Looks(c) \/ Misses(c) \/ Forgets(c)

PromiseSpec == PromiseInit /\ [][PromiseNext]_promiseVars

=============================================================================
