------------------------ MODULE CommandLifecycle -------------------------
(***************************************************************************)
(* What the commands table promises about a command: it is queued once,    *)
(* handed to its node once, run at most once, and the status the node      *)
(* reports is recorded once and for good.                                  *)
(***************************************************************************)
CONSTANTS
    Commands,   \* command ids
    Outcomes    \* final statuses

VARIABLES
    status,     \* status[c]: the status column, "absent" before the insert
    ran         \* ran[c]: the statuses the node has produced for c

Init ==
    /\ status = [c \in Commands |-> "absent"]
    /\ ran = [c \in Commands |-> {}]

Submit(c) ==
    /\ status[c] = "absent"
    /\ status' = [status EXCEPT ![c] = "queued"]
    /\ UNCHANGED ran

HandOut(c) ==
    /\ status[c] = "queued"
    /\ status' = [status EXCEPT ![c] = "pending"]
    /\ UNCHANGED ran

Run(c) ==
    /\ status[c] = "pending" /\ ran[c] = {}
    /\ \E o \in Outcomes : ran' = [ran EXCEPT ![c] = {o}]
    /\ UNCHANGED status

Record(c) ==
    /\ status[c] = "pending"
    /\ \E o \in ran[c] : status' = [status EXCEPT ![c] = o]
    /\ UNCHANGED ran

Next == \E c \in Commands : Submit(c) \/ HandOut(c) \/ Run(c) \/ Record(c)

Spec == Init /\ [][Next]_<<status, ran>>
=============================================================================
