----------------------------- MODULE Connection -----------------------------
(***************************************************************************)
(* stream/connection/main.go: the HTTP range request behind a transfer.    *)
(* Transfer t owns connection t.  The request is only sent by the first    *)
(* Read, so the states of a connection are: no body yet, body open, and    *)
(* closed.  The steps of Read itself belong to the goroutine that runs     *)
(* them and are in module Transfer.                                        *)
(*                                                                         *)
(* Close cancels the request context, closes the body and clears the       *)
(* field in one step here: a Read that already holds the body may still    *)
(* get data or an error from it, whichever of the three came first.        *)
(***************************************************************************)
EXTENDS RingBuffer

CONSTANT MaxTransfers   \* bound: how many transfers a behaviour can make

ASSUME TransfersAssumption == MaxTransfers \in Nat

Transfers == 1..MaxTransfers

VARIABLES
  connClosed,   \* connection.closed, its context is then cancelled
  body,         \* connection.body is set
  offset        \* the file offset the response body delivers next

connVars == <<connClosed, body, offset>>

ConnInit ==
  /\ connClosed = [t \in Transfers |-> FALSE]
  /\ body = [t \in Transfers |-> FALSE]
  /\ offset = [t \in Transfers |-> 0]

\* Seeded fault: the range starts one unit late.
NewConnection_OffByOne(t, startPosition) ==
  /\ offset' = [offset EXCEPT ![t] = Lesser(startPosition + 1, Size)]
  /\ UNCHANGED <<connClosed, body>>

\* The Range header asks for everything from startPosition on.
NewConnection(t, startPosition) ==
  /\ offset' = [offset EXCEPT ![t] = startPosition]
  /\ UNCHANGED <<connClosed, body>>

\* Only the first Close has an effect (CompareAndSwap).
ConnClose(t) ==
  /\ connClosed' = [connClosed EXCEPT ![t] = TRUE]
  /\ body' = [body EXCEPT ![t] = @ /\ connClosed[t]]
  /\ UNCHANGED offset

ConnOpenBody(t) ==
  /\ body' = [body EXCEPT ![t] = TRUE]
  /\ UNCHANGED <<connClosed, offset>>

ConnDeliver(t) ==
  /\ offset' = [offset EXCEPT ![t] = @ + 1]
  /\ UNCHANGED <<connClosed, body>>

=============================================================================
