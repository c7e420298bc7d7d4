------------------------------ MODULE IpcStream ------------------------------
(***************************************************************************)
(* What the IPC server promises to each client: while a client is linked   *)
(* it receives, in order and once each, the pieces of messages addressed to *)
(* it; when the link ends it may have received only the first ones of them. *)
(* IpcServer implements this, and I3bar relies on it.                       *)
(***************************************************************************)
EXTENDS Sequences, SequencesExt

CONSTANTS Clients    \* the connections

VARIABLES linked,    \* the clients that are linked
          promised,  \* what is addressed to each of them
          received   \* what each of them has read

streamVars == <<linked, promised, received>>

StreamInit ==
    /\ linked = {}
    /\ promised = [c \in Clients |-> <<>>]
    /\ received = [c \in Clients |-> <<>>]

\* A client comes, or comes back after a restart with what was left of its link.
Link(c) ==
    /\ c \notin linked
    /\ linked' = linked \cup {c}
    /\ UNCHANGED received
    /\ \A d \in Clients : IsPrefix(promised[d], promised'[d])
    /\ \A d \in Clients \ linked' : promised'[d] = promised[d]

\* Messages are addressed to linked clients, and links may end: of an ended link
\* what the client has not received may be cut off.
Address ==
    /\ linked' \subseteq linked
    /\ UNCHANGED received
    /\ \A c \in Clients :
          IF c \in linked' THEN IsPrefix(promised[c], promised'[c])
          ELSE IF c \in linked THEN IsPrefix(received[c], promised'[c])
          ELSE IsPrefix(received[c], promised'[c]) /\ IsPrefix(promised'[c], promised[c])

\* A client reads, also what is left after its link ended.
Receive(c) ==
    /\ IsStrictPrefix(received[c], promised[c])
    /\ received' = [received EXCEPT ![c] = Append(@, promised[c][Len(@) + 1])]
    /\ UNCHANGED <<linked, promised>>

StreamNext ==
    \/ Address
    \/ \E c \in Clients : Link(c) \/ Receive(c)

StreamSpec == StreamInit /\ [][StreamNext]_streamVars
=============================================================================
