\* Two processes; two sources of one recipient share a page of one row; two changes of
\* rights, one fault, reads.
SPECIFICATION InboxSpec
CONSTANTS
    p1 = p1
    p2 = p2
    k1 = k1
    Events <- MCEvents
    Recipients <- MCRecipients
    RecipientOf <- MCRecipientOf
    Assignments <- MCAssignments
    Consumers <- MCConsumers
    Processes = {p1, p2}
    ReadKeys = {k1}
    Limit = 1
    Revocable = {"rules", "source"}
    MaxChanges = 2
    MaxLoopFaults = 1
CHECK_DEADLOCK FALSE
INVARIANTS InboxExact AuditedInOrder
PROPERTIES DrainsForGood
