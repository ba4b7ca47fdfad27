\* Three events of two appenders and two consumers; four appends of two messages by
\* two senders to one consumer; two workers over three leases and three claims; two
\* writers of two changes each.
CONSTANTS
    Appenders = {a1, a2}
    EventConsumers = {c1, c2}
    MaxEvents = 3
    ReadLimit = 2
    Senders = {s1, s2}
    Messages = {m1, m2}
    Consumers = {c1}
    MaxSeq = 4
    Workers = {"w1", "w2"}
    MaxToken = 3
    MaxClaims = 3
    Writers = {"u1", "u2"}
    MaxChanges = 2
SPECIFICATION StoresSpec
INVARIANTS MailboxIsALog CommittedByLastClaim SwappedIsKept
PROPERTIES LogLosesNothing EveryRowHandled
CHECK_DEADLOCK FALSE
