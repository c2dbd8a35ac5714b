--------------------------- MODULE CommandService ---------------------------
(***************************************************************************)
(* What the daemon promises a client that sends it a mutating command: the *)
(* command has its effect at most once, however often it is resent, and    *)
(* the one answer the client gets is true of what happened.  The class     *)
(* comment of CommandRecoveryJournal is the promise: a received record is  *)
(* durable before a command is dispatched, and what has no result after a  *)
(* crash is uncertain and is never replayed.                               *)
(***************************************************************************)
EXTENDS Naturals

CONSTANT Commands

VARIABLES
    outcome,  \* what the client knows of each command
    ran       \* how often the command had its effect

svars == <<outcome, ran>>

Answers == {"ok", "failed", "uncertain", "rejected", "abandoned"}

Init ==
    /\ outcome = [c \in Commands |-> "unsent"]
    /\ ran = [c \in Commands |-> 0]

Request(c) ==
    /\ outcome[c] = "unsent"
    /\ outcome' = [outcome EXCEPT ![c] = "open"]
    /\ UNCHANGED ran

\* A command runs once, and never when its client was told that it was refused.
Run(c) ==
    /\ outcome[c] \notin {"unsent", "rejected"} /\ ran[c] = 0
    /\ ran' = [ran EXCEPT ![c] = 1]
    /\ UNCHANGED outcome

\* Success is reported of a command that ran, a refusal of one that did not.
Answer(c, o) ==
    /\ outcome[c] = "open"
    /\ (o = "ok") => (ran[c] = 1)
    /\ (o = "rejected") => (ran[c] = 0)
    /\ outcome' = [outcome EXCEPT ![c] = o]
    /\ UNCHANGED ran

\* The client stops waiting for some of its commands.
Abandon(S) ==
    /\ \A c \in S : outcome[c] = "open"
    /\ outcome' = [c \in Commands |-> IF c \in S THEN "abandoned" ELSE outcome[c]]
    /\ UNCHANGED ran

Next ==
    \/ \E c \in Commands :
          Request(c) \/ Run(c) \/ \E o \in Answers : Answer(c, o)
    \/ \E S \in SUBSET Commands : Abandon(S)

Spec == Init /\ [][Next]_svars
=============================================================================
