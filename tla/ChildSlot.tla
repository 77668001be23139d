----------------------------- MODULE ChildSlot -----------------------------
(***************************************************************************)
(* What an adapter promises about the one scanimage process it owns, said  *)
(* without threads, handles or program counters.  There is one slot.  A    *)
(* process enters the slot only when the slot is empty and no cancellation *)
(* is pending; it leaves the slot only after it has ended; a pending       *)
(* cancellation is dropped only while the slot is empty.                   *)
(***************************************************************************)
CONSTANTS Children,    \* the scanimage processes an adapter may launch
          NoChild      \* the slot's value when it is empty, no process

VARIABLES owner,       \* the process in the slot, or NoChild
          pending,     \* a cancellation has been requested and not dropped
          ended        \* the processes that have ended

slotVars == <<owner, pending, ended>>

SlotInit == /\ owner = NoChild
            /\ pending = FALSE
            /\ ended = {}

\* A process is taken into the empty slot.
Occupy(c) == /\ owner = NoChild
             /\ ~pending
             /\ owner' = c
             /\ UNCHANGED <<pending, ended>>

\* A process ends, whether or not it is the one in the slot.
End(c) == /\ c \notin ended
          /\ ended' = ended \union {c}
          /\ UNCHANGED <<owner, pending>>

\* The slot is emptied, but never under a process that still runs.
Vacate == /\ owner \in ended
          /\ owner' = NoChild
          /\ UNCHANGED <<pending, ended>>

\* A cancellation arrives, at any time.
Cancel == /\ pending' = TRUE
          /\ UNCHANGED <<owner, ended>>

\* A pending cancellation is dropped, but never while it has a target.
Forget == /\ owner = NoChild
          /\ pending' = FALSE
          /\ UNCHANGED <<owner, ended>>

SlotNext == \/ \E c \in Children : Occupy(c) \/ End(c)
            \/ Vacate
            \/ Cancel
            \/ Forget

SlotSpec == SlotInit /\ [][SlotNext]_slotVars
=============================================================================
