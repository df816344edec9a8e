---------------------------- MODULE AtomicStore ----------------------------
(***************************************************************************)
(* What the transaction code promises a tool: the contents of the file     *)
(* tree that a later open finds are those of the last commit that took     *)
(* effect, whole; a commit that returned took effect; a crash loses what   *)
(* was not committed and nothing else.                                     *)
(***************************************************************************)
CONSTANTS Keys, Contents

VARIABLES
    durable,   \* contents that survive a crash
    staged,    \* contents the running process sees
    open       \* a transaction is open

store == <<durable, staged, open>>

Init == durable \in [Keys -> Contents] /\ staged = durable /\ open = FALSE

Begin == ~open /\ open' = TRUE /\ UNCHANGED <<durable, staged>>
\* The process changes one entry of what it sees.
Change(k, c) == /\ open
                /\ staged' = [staged EXCEPT ![k] = c]
                /\ UNCHANGED <<durable, open>>
\* A commit makes everything the process sees durable, in one step, and then
\* returns.
Commit == open /\ durable' = staged /\ UNCHANGED <<staged, open>>
Return == open /\ durable = staged /\ open' = FALSE /\ UNCHANGED <<durable, staged>>
Lose == staged' = durable /\ open' = FALSE /\ UNCHANGED durable

Next == \/ Begin \/ Commit \/ Return \/ Lose
        \/ \E k \in Keys, c \in Contents : Change(k, c)
Spec == Init /\ [][Next]_store
=============================================================================
