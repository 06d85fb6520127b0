---------------------------- MODULE MCDirectory -----------------------------
(* Instances of Directory for TLC. *)
EXTENDS Directory, TLC

\* Of the remote directories 1 and 2, the first holds the second, and that a
\* video and an entry of a kind the client does not know.
MCDirectories == {1, 2}
MCFirstKinds == <<"directory", "directory", "streamable", "other">>
MCFirstEntry ==
  [p \in MCDirectories \X Names |->
     CASE p = <<1, "a">> -> 2
       [] p = <<2, "a">> -> 3
       [] p = <<2, "b">> -> 4
       [] OTHER -> NoEntry]

\* Two nodes of directory 1, one of directory 2.
MCNodes == {"n1", "m1", "n2"}
MCDirectoryOf == [n \in Nodes |-> IF n = "n2" THEN 2 ELSE 1]

HandleOp(op, node) == [op |-> op, node |-> node]
Op(op, node, name) == [op |-> op, node |-> node, name |-> name]
RenameOp(node, name, to, newName) ==
  [op |-> "rename", node |-> node, name |-> name, to |-> to, newName |-> newName]
LinkOp(node, name, old) == [op |-> "link", node |-> node, name |-> name, old |-> old]

\* Changes of 1/b: a Create there, everything that can meet it, and operations
\* that are rejected.
Changing ==
  {Op("create", "n1", "b"), Op("remove", "m1", "b"), RenameOp("n2", "a", "n1", "b"),
   Op("mkdir", "m1", "b"), LinkOp("n1", "b", 3),
   RenameOp("n1", "a", RootNode, "a"), LinkOp("n1", "b", 1)}

\* Listings of 2 and Lookups there, while a name in it is changed, or it is
\* removed or closed.
Listing ==
  {HandleOp("open", "n2"), HandleOp("readdir", "n2"), Op("lookup", "n2", "a"),
   Op("lookup", "n2", "b"), Op("lookup", "n1", "a"), Op("remove", "n1", "a"),
   RenameOp("n2", "a", "n2", "b")}

MCRequests == Changing \cup Listing

Only(w) == \A c \in Callers : call[c] \in w \cup {NoCall}

\* The callers are at one of the two; beside the second a node is closed that
\* they use.
OneWorkload ==
  \/ Only(Changing) /\ \A n \in Nodes : closer[n] = "open"
  \/ Only(Listing) /\ closer["m1"] = "open"

\* No caller goes from one to the other.
KeepsToIt ==
  \A c \in Callers : call[c] # NoCall => (call'[c] \in Changing <=> call[c] \in Changing)

CallerSymmetry == Permutations(Callers)

=============================================================================
