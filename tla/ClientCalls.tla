----------------------------- MODULE ClientCalls -----------------------------
(***************************************************************************)
(* What the clients of the service see of their method calls: a call is    *)
(* open until it is answered, it is answered once, and the calls of one    *)
(* client on one object (a queue) are answered in the order they were made *)
(* in.  Several calls may be answered together, when they are cancelled.   *)
(***************************************************************************)
EXTENDS Integers

CONSTANTS
    Queue,      \* the pairs of a client and an object
    NoQueue,    \* the queue of a call not made yet
    MaxCalls    \* bound: the number of calls

VARIABLES
    sent,       \* the calls made so far are 1 .. sent
    queue_of,   \* [1 .. MaxCalls -> Queue or NoQueue]
    open        \* the calls that wait for an answer

vars == <<sent, queue_of, open>>

Init ==
    /\ sent = 0
    /\ queue_of = [c \in 1 .. MaxCalls |-> NoQueue]
    /\ open = {}

\* The open calls made before c on the same queue.
Earlier(c) == {d \in open : d < c /\ queue_of[d] = queue_of[c]}

\* A call is made.
Make(q) ==
    /\ sent < MaxCalls
    /\ sent' = sent + 1
    /\ queue_of' = [queue_of EXCEPT ![sent + 1] = q]
    /\ open' = open \cup {sent + 1}

\* A call is made that is refused at once; nothing is before it.
Refuse(q) ==
    /\ sent < MaxCalls
    /\ \A d \in open : queue_of[d] # q
    /\ sent' = sent + 1
    /\ queue_of' = [queue_of EXCEPT ![sent + 1] = q]
    /\ UNCHANGED open

\* Calls are answered, with all those before them.
Answer(C) ==
    /\ \A c \in C : Earlier(c) \subseteq C
    /\ open' = open \ C
    /\ UNCHANGED <<sent, queue_of>>

Next ==
    \/ \E q \in Queue : Make(q) \/ Refuse(q)
    \/ \E C \in SUBSET open : Answer(C)

Spec == Init /\ [][Next]_vars
=============================================================================
