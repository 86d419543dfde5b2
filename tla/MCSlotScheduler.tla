-------------------------- MODULE MCSlotScheduler --------------------------
EXTENDS SlotScheduler

\* A slot that crosses midnight and is emptied by one job, and one inside the day
\* with room for two, which follow each other and which an edit removes and brings
\* back.
Night   == [start |-> 2, end |-> 1, limit |-> 1]
Morning == [start |-> 1, end |-> 2, limit |-> 2]

EditedSlots == {<<Night, Morning>>, <<>>}
OneSlot == {<<Morning>>}
=============================================================================
