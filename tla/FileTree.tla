------------------------------ MODULE FileTree ------------------------------
(***************************************************************************)
(* The tree of a file server: what its directories hold, what a request    *)
(* needs and what it changes.  The server is external.  Everything in a    *)
(* directory that has been removed is missing.                             *)
(***************************************************************************)
EXTENDS Naturals, Sequences

CONSTANTS
  Directories,    \* remote directories that are operated on
  Roots,          \* those that no request can remove
  Names,          \* names in a directory
  FirstEntry,     \* the tree at the start: an id for each directory and name
  FirstKinds      \* the kinds of the ids at the start

NoEntry == 0
Kinds == {"directory", "file", "streamable", "symlink", "other"}

ASSUME TreeAssumption ==
  /\ FirstKinds \in Seq(Kinds) /\ Directories \subseteq DOMAIN FirstKinds
  /\ FirstEntry \in [Directories \X Names -> {NoEntry} \cup DOMAIN FirstKinds]
  /\ Roots \subseteq Directories

VARIABLES
  entry,      \* the id at each name of each directory
  kinds       \* the kind of each id

treeVars == <<entry, kinds>>

Ids == DOMAIN kinds

TreeInit == entry = FirstEntry /\ kinds = FirstKinds

Changes == {"create", "mkdir", "remove", "rename", "link"}

\* The places of the tree that r names.
At(r) == <<r.dir, r.name>>
To(r) == <<r.newDir, r.newName>>

\* Directory d has not been removed.
Alive(d) == d \in Roots \/ \E p \in Directories \X Names : entry[p] = d

\* What is at a place of the tree, and whether an id is anywhere in it.
Held(p) == IF Alive(p[1]) THEN entry[p] ELSE NoEntry
Reached(id) == \E p \in Directories \X Names : Held(p) = id

Accepts(r) ==
  CASE r.op \in {"create", "mkdir"} -> Alive(r.dir) /\ entry[At(r)] = NoEntry
    [] r.op = "link" -> Alive(r.dir) /\ entry[At(r)] = NoEntry /\ r.id \in Ids
    [] r.op \in {"lookup", "remove"} -> Alive(r.dir) /\ entry[At(r)] # NoEntry
    [] r.op = "rename" -> Alive(r.dir) /\ Alive(r.newDir) /\ entry[At(r)] # NoEntry
    [] r.op = "info" -> r.id \in Ids
    [] r.op = "readdir" -> Alive(r.dir)

\* What the tree does not allow; and the size of what is no longer in it may be
\* had or not.
Refuses(r) == ~Accepts(r) \/ (r.op = "info" /\ ~Reached(r.id))

\* Create, Mkdir, Link, Remove and Rename, carried out.
Carry(r) ==
  CASE r.op = "create" ->
         /\ kinds' = Append(kinds, "file")
         /\ entry' = [entry EXCEPT ![At(r)] = Len(kinds) + 1]
    [] r.op = "mkdir" ->
         /\ kinds' = Append(kinds, "directory")
         /\ entry' = [entry EXCEPT ![At(r)] = Len(kinds) + 1]
    [] r.op = "link" ->
         /\ entry' = [entry EXCEPT ![At(r)] = r.id]
         /\ UNCHANGED kinds
    [] r.op = "remove" ->
         /\ entry' = [entry EXCEPT ![At(r)] = NoEntry]
         /\ UNCHANGED kinds
    [] r.op = "rename" ->
         /\ entry' = IF At(r) = To(r) THEN entry
                     ELSE [entry EXCEPT ![At(r)] = NoEntry, ![To(r)] = entry[At(r)]]
         /\ UNCHANGED kinds
    [] OTHER -> UNCHANGED treeVars

\* The type of a node in a listing; entries of other modes are left out.
TypeOf(id) ==
  IF id = NoEntry THEN "none"
  ELSE CASE kinds[id] \in {"file", "streamable"} -> "file"
         [] kinds[id] \in {"directory", "symlink"} -> kinds[id]
         [] OTHER -> "none"

Types == {"none", "file", "directory", "symlink"}

=============================================================================
