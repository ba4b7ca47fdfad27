------------------------------ MODULE MCStores ------------------------------
(* The event log, the mailbox, the commands under leases and the canonical   *)
(* world, side by side: a behaviour is one of one store, with the others'    *)
(* variables left as they start.                                             *)
EXTENDS EventLog, MailboxStore, CommandStore, WorldStore

VARIABLE store

storesVars == <<eventVars, mailboxVars, commandVars, worldVars, store>>

StoresInit ==
    /\ store \in {"events", "mailbox", "commands", "world"}
    /\ EventInit /\ MailboxInit /\ CommandInit /\ WorldInit

MailboxTurn(A) == store = "mailbox" /\ A /\ UNCHANGED <<eventVars, commandVars, worldVars, store>>

StoresNext ==
    \/ store = "events" /\ EventNext /\ UNCHANGED <<mailboxVars, commandVars, worldVars, store>>
    \/ MailboxTurn(MailboxNext)
    \/ store = "commands" /\ CommandNext /\ UNCHANGED <<eventVars, mailboxVars, worldVars, store>>
    \/ store = "world" /\ WorldNext /\ UNCHANGED <<eventVars, mailboxVars, commandVars, store>>

StoresSpec ==
    /\ StoresInit /\ [][StoresNext]_storesVars
    /\ \A c \in Consumers :
          /\ WF_storesVars(MailboxTurn(HandleMessages(c)))
          /\ WF_storesVars(MailboxTurn(AckProgress(c)))
    /\ \A s \in Senders : WF_storesVars(MailboxTurn(CallProgress(s)))

=============================================================================
