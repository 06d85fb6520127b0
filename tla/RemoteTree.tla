----------------------------- MODULE RemoteTree -----------------------------
(***************************************************************************)
(* A file server and the requests of grpc/internal/filesystem/main.go.     *)
(*                                                                         *)
(* Every method of the client sends one request, under a context that ends *)
(* after ten seconds, and returns the answer or an error.  It never sends  *)
(* a request twice.  A request the client has given up on may still be     *)
(* under way, and be carried out later.                                    *)
(*                                                                         *)
(* The server is external: it carries out a request in one step, refuses   *)
(* what its tree does not allow, or fails.  What its tree does not allow   *)
(* is ENOENT; a server may also answer a Lookup or a Mkdir without a node, *)
(* which the client turns into a node whose id and mode are zero.          *)
(***************************************************************************)
EXTENDS FileTree

CONSTANTS
  Callers,        \* goroutines that serve requests of the kernel
  Timeouts,       \* whether a request can take more than ten seconds
  EmptyReplies    \* whether the server can answer without a node

ASSUME ClientAssumption == Timeouts \in BOOLEAN /\ EmptyReplies \in BOOLEAN

VARIABLES
  request,    \* the request each caller waits for
  reply,      \* its answer
  late        \* requests their caller has given up on

rpcVars == <<request, reply, late>>

NoRequest == [op |-> "none"]
NoReply == [status |-> "none"]

RemoteInit ==
  /\ TreeInit
  /\ request = [c \in Callers |-> NoRequest]
  /\ reply = [c \in Callers |-> NoReply]
  /\ late = {}

NoNames == [name \in Names |-> NoEntry]

\* What the client returns for an answered request: a node, or all the nodes
\* of a directory.
Answer(r) ==
  [status |-> "ok",
   id |-> CASE r.op \in {"create", "mkdir"} -> Len(kinds) + 1
            [] r.op = "lookup" -> entry[At(r)]
            [] OTHER -> r.id,
   names |-> IF r.op = "readdir" THEN [name \in Names |-> entry[<<r.dir, name>>]] ELSE NoNames]

\* A Mkdir may be answered without the node it has made: its getters return
\* zeros.
AnswersTo(r) ==
  {Answer(r)} \cup (IF EmptyReplies /\ r.op = "mkdir"
                   THEN {[Answer(r) EXCEPT !.id = NoEntry]} ELSE {})

Failure(status) == [status |-> status, id |-> NoEntry, names |-> NoNames]

Pending(c) == request[c] # NoRequest /\ reply[c] = NoReply

Send(c, r) ==
  /\ request' = [request EXCEPT ![c] = r]
  /\ reply' = [reply EXCEPT ![c] = NoReply]
  /\ UNCHANGED late

Receive(c) ==
  /\ request' = [request EXCEPT ![c] = NoRequest]
  /\ reply' = [reply EXCEPT ![c] = NoReply]
  /\ UNCHANGED late

Reply(c, answer) ==
  /\ Pending(c)
  /\ reply' = [reply EXCEPT ![c] = answer]
  /\ UNCHANGED <<request, late>>

ServerCarries(c) ==
  /\ Pending(c)
  /\ \E answer \in AnswersTo(request[c]) : Reply(c, answer)
  /\ Accepts(request[c])
  /\ Carry(request[c])

ServerRefuses(c) ==
  /\ Reply(c, Failure("ENOENT"))
  /\ Refuses(request[c])
  /\ UNCHANGED treeVars

ServerFails(c) ==
  /\ Reply(c, Failure("error"))
  /\ UNCHANGED treeVars

\* The node of a Lookup is nil.
ServerEmpty(c) ==
  /\ EmptyReplies /\ request[c].op = "lookup"
  /\ Reply(c, [Answer(request[c]) EXCEPT !.id = NoEntry])
  /\ ~Accepts(request[c])
  /\ UNCHANGED treeVars

\* The ten seconds are over: before the server, or after it.
Timeout(c) ==
  /\ Timeouts
  /\ request[c] # NoRequest /\ reply[c].status \notin {"timeout"}
  /\ reply' = [reply EXCEPT ![c] = Failure("timeout")]
  /\ late' = IF Pending(c) /\ request[c].op \in Changes THEN late \cup {request[c]} ELSE late
  /\ UNCHANGED <<treeVars, request>>

\* A request is carried out, or not, after its caller has left.
LateCarries(r) ==
  /\ r \in late /\ Accepts(r)
  /\ Carry(r)
  /\ late' = late \ {r}
  /\ UNCHANGED <<request, reply>>

LateDrops(r) ==
  /\ r \in late
  /\ late' = late \ {r}
  /\ UNCHANGED <<treeVars, request, reply>>

=============================================================================
