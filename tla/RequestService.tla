--------------------------- MODULE RequestService ---------------------------
(***************************************************************************)
(* What the HTTP server promises to its clients, and nothing of how: a     *)
(* request is read, its head and then its body come back in order, and it  *)
(* ends complete or failed, once. No two answers are mixed up, and only a  *)
(* fault of the worker may cut a complete-looking answer short. Dispatch   *)
(* implements it (Dispatch!Service).                                       *)
(***************************************************************************)
EXTENDS Naturals

CONSTANTS
    Requests,  \* requests the clients may send
    MaxBody,   \* chunks in the longest answer
    None       \* the author of an answer no handler produced

VARIABLES
    phase,   \* "idle", "open", "streaming", "complete", "failed"
    author,  \* the request whose handler produced the answer
    size,    \* chunks the answer has, once its head is sent
    got,     \* chunks the client was sent
    faulty   \* the requests whose worker broke down

vars == <<phase, author, size, got, faulty>>

Init ==
    /\ phase = [r \in Requests |-> "idle"]
    /\ author = [r \in Requests |-> None]
    /\ size = [r \in Requests |-> 0]
    /\ got = [r \in Requests |-> 0]
    /\ faulty = {}

\* The request is read.
Open(r) ==
    /\ phase[r] = "idle"
    /\ phase' = [phase EXCEPT ![r] = "open"]
    /\ UNCHANGED <<author, size, got, faulty>>

\* The head of its answer is sent: its own handler's, or an error page.
Head(r) ==
    /\ phase[r] = "open"
    /\ phase' = [phase EXCEPT ![r] = "streaming"]
    /\ \E a \in {r, None} : author' = [author EXCEPT ![r] = a]
    /\ \E n \in 0..MaxBody : size' = [size EXCEPT ![r] = n]
    /\ UNCHANGED <<got, faulty>>

\* The next chunk of the body is sent.
Chunk(r) ==
    /\ phase[r] = "streaming" /\ got[r] < size[r]
    /\ got' = [got EXCEPT ![r] = @ + 1]
    /\ UNCHANGED <<phase, author, size, faulty>>

\* The answer ends: whole, or after a fault of the worker.
Complete(r) ==
    /\ phase[r] = "streaming" /\ (got[r] = size[r] \/ r \in faulty)
    /\ phase' = [phase EXCEPT ![r] = "complete"]
    /\ UNCHANGED <<author, size, got, faulty>>

\* The requests of a connection, or all of them, fail together.
Fail ==
    /\ \E failing \in SUBSET {r \in Requests : phase[r] \in {"open", "streaming"}} :
          phase' = [r \in Requests |-> IF r \in failing THEN "failed" ELSE phase[r]]
    /\ UNCHANGED <<author, size, got, faulty>>

\* The worker breaks down.
Fault(r) ==
    /\ faulty' = faulty \cup {r}
    /\ UNCHANGED <<phase, author, size, got>>

Next ==
    \/ \E r \in Requests : Open(r) \/ Head(r) \/ Chunk(r) \/ Complete(r) \/ Fault(r)
    \/ Fail

Spec == Init /\ [][Next]_vars
=============================================================================
