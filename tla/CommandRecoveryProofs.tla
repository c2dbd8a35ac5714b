----------------------- MODULE CommandRecoveryProofs ------------------------
(***************************************************************************)
(* Proofs about CommandRecovery, for every number of commands,             *)
(* connections and stops, and for every compaction threshold: a command    *)
(* runs at most once, and the whole implements CommandService.             *)
(*                                                                         *)
(* Both need that no stop follows one that truncates an append             *)
(* (TornLast).  The run command_replay shows why: an append after a        *)
(* truncated line is lost with it, and one more stop forgets the command.  *)
(*                                                                         *)
(* The heart of IInv is JournalInv: a command that the journal, or the     *)
(* file it will be loaded from, does not know either never reached a       *)
(* worker, or is settled and has no line on its way.  That an entry is     *)
(* deleted only then is a fact of the lines: an acknowledgement is written *)
(* after the request is settled and after every copy of it (LinesInv).     *)
(* That a refused command never runs is another: an answer arrives only on *)
(* the connection of the last copy of its command (FlightInv, ReplyInv).   *)
(***************************************************************************)
EXTENDS CommandRecovery, SequenceTheorems, FiniteSetTheorems, TLAPS

\* No stop follows one that may truncate an append.
TornLast == TornStops \subseteq {MaxCrashes}

Statuses == {"absent", "pending"} \cup Responses
Lines    == [type : {"command", "ack_result"}, cmd : Commands, conn : Nat]
Answered == [cmd : Commands, says : Responses \cup {"uncertain", "rejected"}]
LastLine == [key : 0..NumCommands, was : Statuses, whole : BOOLEAN]
Entries  == [key : Commands, says : {"absent", "pending"} \cup Responses]

ClientTypes ==
    /\ req \in [Commands -> {"unsent"} \cup Pending \cup Outcomes]
    /\ conn \in Nat /\ conns \in Nat /\ closed \in BOOLEAN

WireTypes ==
    /\ linked \in BOOLEAN
    /\ toSup \in Seq(Lines) /\ toCli \in Seq(Answered)

JournalTypes ==
    /\ entries \in [Commands -> Statuses] /\ recordCount \in Nat
    /\ disk \in [Commands -> Statuses] /\ stored \in Nat
    /\ unended \in LastLine
    /\ (unended # Ended) => (unended.key \in Commands)
    /\ unended.whole => (stored > 0)

ProcessTypes ==
    /\ up \in BOOLEAN /\ crashes \in 0..MaxCrashes /\ restarting \in BOOLEAN
    /\ flight \in [Commands -> Nat]
    /\ work \in [Commands -> Nat] /\ effect \in [Commands -> Nat]

\* Every variable is of its type.
TypeOK == ClientTypes /\ WireTypes /\ JournalTypes /\ ProcessTypes

Places       == 1..Len(toSup)
Waits(i, c)  == toSup[i].type = "command" /\ toSup[i].cmd = c
Replies      == {toCli[i] : i \in 1..Len(toCli)}
NoLine(c)    == \A i \in Places : ~Waits(i, c)
Untouched(c) == effect[c] = 0 /\ work[c] = 0
Settled(c)   == req[c] \in Outcomes

\* Answers arrive on a connection, lines at a supervisor that runs.
ConnInv ==
    /\ conn \in {0, conns}
    /\ linked => (conn # 0 /\ up)
    /\ (conn = 0) => (toCli = <<>>)
    /\ ~up => (toSup = <<>>)
    /\ \A c \in Commands : flight[c] \in 0..conns

\* A command has a line per connection at most, and none after its
\* acknowledgement, which is that of a settled request.
CopiesAscend ==
    \A i, j \in Places : (i < j /\ \E c \in Commands : Waits(i, c) /\ Waits(j, c))
                            => (toSup[i].conn < toSup[j].conn)
AckIsLast ==
    \A i \in Places : (toSup[i].type = "ack_result")
        => Settled(toSup[i].cmd) /\ \A j \in Places : i < j => ~Waits(j, toSup[i].cmd)

LinesInv ==
    /\ \A i \in Places : toSup[i].conn \in 1..conns /\ req[toSup[i].cmd] # "unsent"
    /\ CopiesAscend /\ AckIsLast

\* What came on the present connection was the last copy.
FlightInv == \A c \in Commands : (flight[c] # 0 /\ flight[c] = conn) => NoLine(c)

\* An answer on its way is true, and no copy of its command is behind it.
TrueAnswer(m) ==
    /\ NoLine(m.cmd)
    /\ (m.says = "ok") => (effect[m.cmd] > 0)
    /\ (m.says = "rejected") => Untouched(m.cmd)
ReplyInv == \A m \in Replies : TrueAnswer(m)

RejectedInv == \A c \in Commands : (req[c] = "rejected") => (NoLine(c) /\ Untouched(c))

\* Nothing is known of a command that was not sent.
UnsentInv ==
    /\ \A m \in Replies : req[m.cmd] # "unsent"
    /\ \A c \in Commands : (req[c] = "unsent") => (Untouched(c) /\ flight[c] = 0)

\* What the journal knows, or will know when it is loaded.
Book == IF up THEN entries ELSE disk

JournalInv ==
    \A c \in Commands :
        /\ (Book[c] = "ok") => (effect[c] > 0)
        /\ (Book[c] = "absent") => (Untouched(c) \/ (Settled(c) /\ NoLine(c)))

\* Until its last stop the supervisor's file is whole and says what it knows.
FileInv == (crashes < MaxCrashes) => (unended = Ended /\ (up => (disk = entries)))

IInv ==
    /\ TypeOK /\ ConnInv /\ LinesInv /\ FlightInv
    /\ ReplyInv /\ RejectedInv /\ UnsentInv
    /\ JournalInv /\ FileInv /\ AtMostOnce

-----------------------------------------------------------------------------
(* Sequences and counts. *)

LEMMA TailFacts ==
    ASSUME NEW S, NEW s \in Seq(S), s # <<>>
    PROVE  /\ Head(s) = s[1] /\ Head(s) \in S /\ Len(s) \in Nat /\ Len(s) >= 1
           /\ Tail(s) \in Seq(S) /\ Len(Tail(s)) = Len(s) - 1
           /\ \A i \in 1..Len(Tail(s)) : Tail(s)[i] = s[i + 1]
    OBVIOUS

LEMMA AppendFacts ==
    ASSUME NEW S, NEW s \in Seq(S), NEW e \in S
    PROVE  /\ Append(s, e) \in Seq(S) /\ Len(s) \in Nat /\ Len(Append(s, e)) = Len(s) + 1
           /\ \A i \in 1..Len(s) : Append(s, e)[i] = s[i] /\ s[i] \in S
           /\ Append(s, e)[Len(s) + 1] = e
    OBVIOUS

LEMMA EmptyFacts == \A S : <<>> \in Seq(S) /\ Len(<<>>) = 0
    OBVIOUS

LEMMA ElementFacts ==
    ASSUME NEW S, NEW s \in Seq(S)
    PROVE  Len(s) \in Nat /\ \A i \in 1..Len(s) : s[i] \in S
    OBVIOUS

LEMMA SomeCommands ==
    ASSUME NEW S \in SUBSET Commands PROVE Cardinality(S) \in Nat
<1>1. IsFiniteSet(1..NumCommands)
      BY FS_Interval, BoundsAssumption
<1>2. QED
      BY <1>1, FS_Subset, FS_CardinalityType DEF Commands

LEMMA CountsRecords == ASSUME NEW es PROVE Records(es) \in Nat
<1>1. /\ {c \in Commands : es[c] # "absent"} \in SUBSET Commands
      /\ {c \in Commands : es[c] \in Responses} \in SUBSET Commands
      OBVIOUS
<1>2. /\ Cardinality({c \in Commands : es[c] # "absent"}) \in Nat
      /\ Cardinality({c \in Commands : es[c] \in Responses}) \in Nat
      BY <1>1, SomeCommands
<1>3. QED
      BY <1>2 DEF Records

-----------------------------------------------------------------------------
(* Types. *)

\* The line that the supervisor handles next.
LEMMA NextLine ==
    ASSUME TypeOK, toSup # <<>>
    PROVE  /\ Head(toSup) \in Lines /\ Tail(toSup) \in Seq(Lines)
           /\ Head(toSup).cmd \in Commands /\ Head(toSup).conn \in Nat
           /\ Head(toSup) = toSup[1] /\ 1 \in Places
<1>1. toSup \in Seq(Lines)
      BY DEF TypeOK, WireTypes
<1>2. /\ Head(toSup) = toSup[1] /\ Head(toSup) \in Lines
      /\ Tail(toSup) \in Seq(Lines) /\ Len(toSup) \in Nat /\ Len(toSup) >= 1
      BY <1>1, TailFacts
<1>3. QED
      BY <1>2 DEF Lines, Places

LEMMA ReplyTypes ==
    ASSUME TypeOK, NEW c \in Commands, NEW to,
           NEW says \in Responses \cup {"uncertain", "rejected"}, Reply(to, c, says)
    PROVE  toCli' \in Seq(Answered)
<1>1. toCli \in Seq(Answered) /\ [cmd |-> c, says |-> says] \in Answered
      BY DEF TypeOK, WireTypes, Answered
<1>2. Append(toCli, [cmd |-> c, says |-> says]) \in Seq(Answered)
      BY <1>1, AppendFacts
<1>3. QED
      BY <1>1, <1>2 DEF Reply

\* An append adds a line, and an entry of its type.
LEMMA LoadTypes ==
    ASSUME JournalTypes, NEW r \in Entries
    PROVE  /\ [disk EXCEPT ![r.key] = Load(disk[r.key], r)] \in [Commands -> Statuses]
           /\ Shortened \in [Commands -> Statuses]
           /\ ShortenedCount \in Nat
<1>1. r.key \in Commands /\ r.says \in Statuses
      BY DEF Entries, Statuses
<1>2. Load(disk[r.key], r) \in Statuses
      BY <1>1 DEF Load, Statuses
<1>3. unended.was \in Statuses /\ unended.whole \in BOOLEAN
      BY DEF JournalTypes, LastLine
<1>4. Shortened \in [Commands -> Statuses]
  <2>1. CASE unended = Ended
        BY <2>1 DEF Shortened, JournalTypes
  <2>2. CASE unended # Ended
        BY <2>2, <1>3 DEF Shortened, JournalTypes
  <2>3. QED
        BY <2>1, <2>2
<1>5. ShortenedCount \in Nat
      BY <1>3 DEF ShortenedCount, JournalTypes
<1>6. QED
      BY <1>1, <1>2, <1>4, <1>5 DEF JournalTypes

FileTypes ==
    /\ disk \in [Commands -> Statuses] /\ stored \in Nat
    /\ unended \in LastLine
    /\ (unended # Ended) => (unended.key \in Commands)
    /\ unended.whole => (stored > 0)

LEMMA EndedType == Ended \in LastLine /\ ~Ended.whole
    BY BoundsAssumption DEF Ended, LastLine, Statuses

LEMMA AppendTypes ==
    ASSUME JournalTypes, NEW r \in Entries, FileAppend(r) PROVE FileTypes'
<1>1. unended' = Ended /\ ~unended'.whole /\ unended' \in LastLine
      BY EndedType DEF FileAppend
<1>2. disk' \in [Commands -> Statuses] /\ stored' \in Nat
      BY LoadTypes DEF FileAppend, JournalTypes
<1>3. QED
      BY <1>1, <1>2 DEF FileTypes

LEMMA CutTypes ==
    ASSUME JournalTypes, NEW r \in Entries, NEW whole \in BOOLEAN, FileCut(r, whole) PROVE FileTypes'
<1>1. disk' \in [Commands -> Statuses] /\ stored' \in Nat
      BY LoadTypes DEF FileCut, JournalTypes
<1>2. r.key \in Commands /\ r.key \in 0..NumCommands
      BY BoundsAssumption DEF Entries, Commands
<1>3. CASE unended = Ended
  <2>1. unended' = [key |-> r.key, was |-> disk[r.key], whole |-> whole]
        BY <1>3 DEF FileCut
  <2>2. unended' \in LastLine /\ unended'.key \in Commands /\ unended'.whole = whole
        BY <1>2, <2>1 DEF LastLine, JournalTypes
  <2>3. whole => (stored' = stored + 1)
        BY <1>3 DEF FileCut
  <2>4. QED
        BY <1>1, <2>2, <2>3 DEF FileTypes, JournalTypes
<1>4. CASE unended # Ended
  <2>1. unended' = [unended EXCEPT !.whole = FALSE]
        BY <1>4 DEF FileCut
  <2>2. unended \in LastLine /\ unended.key \in Commands
        BY <1>4 DEF JournalTypes
  <2>3. unended' \in LastLine /\ unended'.key \in Commands /\ ~unended'.whole
        BY <2>1, <2>2 DEF LastLine
  <2>4. QED
        BY <1>1, <2>3 DEF FileTypes
<1>5. QED
      BY <1>3, <1>4

LEMMA WriteTypes ==
    ASSUME JournalTypes, NEW r \in Entries, NEW es \in [Commands -> Statuses], NEW compacts \in BOOLEAN,
           Write(r, es, compacts)
    PROVE  JournalTypes'
<1>1. CASE Compact(es)
      BY <1>1, CountsRecords, EndedType DEF Compact, Write, JournalTypes
<1>2. CASE FileAppend(r) /\ recordCount' = recordCount + 1
      BY <1>2, AppendTypes DEF FileTypes, Write, JournalTypes
<1>3. QED
      BY <1>1, <1>2 DEF Write

LEMMA TypeInitially == Init => TypeOK
<1>1. 0 \in 0..MaxCrashes /\ 0 \in Nat
      BY BoundsAssumption
<1>2. Ended \in LastLine /\ ~Ended.whole
      BY EndedType
<1>3. <<>> \in Seq(Lines) /\ <<>> \in Seq(Answered)
      BY EmptyFacts
<1>4. ASSUME Init PROVE ClientTypes /\ WireTypes
  <2>1. ClientTypes
        BY <1>4 DEF Init, ClientTypes
  <2>2. WireTypes
        BY <1>3, <1>4 DEF Init, WireTypes
  <2>3. QED
        BY <2>1, <2>2
<1>5. Init => JournalTypes
      BY <1>2 DEF Init, JournalTypes, Absent, Statuses
<1>6. Init => ProcessTypes
      BY <1>1 DEF Init, ProcessTypes
<1>7. QED
      BY <1>4, <1>5, <1>6 DEF TypeOK

LEMMA TypeClient ==
    ASSUME TypeOK,
           \/ \E c \in Commands : Request(c) \/ RequestTimeout(c)
           \/ Response \/ Disconnected \/ Reconnect \/ GiveUp
    PROVE  TypeOK'
<1>1. toSup \in Seq(Lines) /\ toCli \in Seq(Answered) /\ linked \in BOOLEAN /\ conn \in Nat /\ conns \in Nat
      BY DEF TypeOK, WireTypes, ClientTypes
<1>2. ASSUME UNCHANGED <<process, journal, file, flight, worker>> PROVE (JournalTypes /\ ProcessTypes)'
      BY <1>2 DEF TypeOK, JournalTypes, ProcessTypes, process, journal, file, worker
<1>3. ASSUME NEW c \in Commands PROVE Append(toSup, Cmd(c)) \in Seq(Lines) /\ Append(toSup, Ack(c)) \in Seq(Lines)
  <2>1. Cmd(c) \in Lines /\ Ack(c) \in Lines
        BY <1>1 DEF Cmd, Ack, Lines
  <2>2. QED
        BY <1>1, <2>1, AppendFacts
<1>4. ASSUME NEW c \in Commands, Request(c) PROVE TypeOK'
  <2>1. ClientTypes'
        BY <1>4 DEF Request, TypeOK, ClientTypes, Pending
  <2>2. WireTypes'
        BY <1>1, <1>3, <1>4 DEF Request, WireTypes
  <2>3. QED
        BY <1>2, <1>4, <2>1, <2>2 DEF Request, TypeOK
<1>5. ASSUME NEW c \in Commands, RequestTimeout(c) PROVE TypeOK'
      BY <1>2, <1>5 DEF RequestTimeout, TypeOK, ClientTypes, WireTypes, wire, Outcomes
<1>6. CASE Response
  <2>1. /\ Head(toCli) \in Answered /\ Tail(toCli) \in Seq(Answered)
        BY <1>1, <1>6, TailFacts DEF Response
  <2>2. Head(toCli).cmd \in Commands /\ Head(toCli).says \in Outcomes
        BY <2>1 DEF Answered, Outcomes, Responses
  <2>3. ClientTypes'
        BY <1>6, <2>2 DEF Response, TypeOK, ClientTypes
  <2>4. WireTypes'
        BY <1>1, <1>3, <1>6, <2>1, <2>2 DEF Response, WireTypes
  <2>5. QED
        BY <1>2, <1>6, <2>3, <2>4 DEF Response, TypeOK
<1>7. CASE Disconnected
  <2>1. \A n \in 0..Len(toSup) : SubSeq(toSup, 1, n) \in Seq(Lines)
        BY <1>1
  <2>2. ClientTypes'
        BY <1>7 DEF Disconnected, TypeOK, ClientTypes, Pending
  <2>3. <<>> \in Seq(Answered)
        BY EmptyFacts
  <2>4. WireTypes'
        BY <1>1, <1>7, <2>1, <2>3 DEF Disconnected, WireTypes
  <2>5. QED
        BY <1>2, <1>7, <2>2, <2>4 DEF Disconnected, TypeOK
<1>8. CASE Reconnect
  <2>1. ASSUME NEW s \in ResendOrders
        PROVE  toSup \o [i \in 1..Cardinality(Resent) |->
                          [type |-> "command", cmd |-> s[i], conn |-> conns + 1]] \in Seq(Lines)
    <3>1. Cardinality(Resent) \in Nat
          BY SomeCommands DEF Resent
    <3>2. \A i \in 1..Cardinality(Resent) : s[i] \in Commands
          BY <2>1 DEF ResendOrders, Resent
    <3>3. \A i \in 1..Cardinality(Resent) : [type |-> "command", cmd |-> s[i], conn |-> conns + 1] \in Lines
          BY <1>1, <3>2 DEF Lines
    <3>4. [i \in 1..Cardinality(Resent) |-> [type |-> "command", cmd |-> s[i], conn |-> conns + 1]] \in Seq(Lines)
          BY <3>1, <3>3, IsASeq
    <3>5. QED
          BY <1>1, <3>4, ConcatProperties
  <2>2. ClientTypes'
        BY <1>1, <1>8 DEF Reconnect, TypeOK, ClientTypes, Pending
  <2>3. WireTypes'
        BY <1>1, <1>8, <2>1 DEF Reconnect, WireTypes
  <2>4. QED
        BY <1>2, <1>8, <2>2, <2>3 DEF Reconnect, TypeOK
<1>9. CASE GiveUp
      BY <1>2, <1>9 DEF GiveUp, TypeOK, ClientTypes, WireTypes, wire, Outcomes
<1>10. QED
      BY <1>4, <1>5, <1>6, <1>7, <1>8, <1>9

LEMMA TypeSupervisor ==
    ASSUME TypeOK, \/ Supervisor \/ UpdateRestart
                   \/ \E c \in Commands, r \in Responses : Finish(c, r)
    PROVE  TypeOK'
<1>1. toSup \in Seq(Lines) /\ toCli \in Seq(Answered)
      BY DEF TypeOK, WireTypes
<1>2. \A c \in Commands : entries[c] \in Statuses
      BY DEF TypeOK, JournalTypes
<1>3. ASSUME UNCHANGED client PROVE ClientTypes'
      BY <1>3 DEF TypeOK, ClientTypes, client
<1>4. ASSUME UNCHANGED <<journal, file>> PROVE JournalTypes'
      BY <1>4 DEF TypeOK, JournalTypes, journal, file
<1>5. ASSUME UNCHANGED <<process, flight, worker>> PROVE ProcessTypes'
      BY <1>5 DEF TypeOK, ProcessTypes, process, worker
<1>6. CASE Known
  <2>1. toSup # <<>>
        BY <1>6 DEF Known, Line
  <2>2. toCli' \in Seq(Answered)
    <3>1. (IF entries[Head(toSup).cmd] = "pending" THEN "uncertain" ELSE entries[Head(toSup).cmd])
              \in Responses \cup {"uncertain", "rejected"}
          BY <1>2, <1>6, <2>1, NextLine DEF Known, Statuses
    <3>2. QED
          BY <1>6, <2>1, <3>1, NextLine, ReplyTypes DEF Known
  <2>3. QED
        BY <1>3, <1>4, <1>5, <1>6, <2>1, <2>2, NextLine DEF Known, TypeOK, WireTypes
<1>7. CASE Refused
  <2>1. toSup # <<>>
        BY <1>7 DEF Refused, Line
  <2>2. toCli' \in Seq(Answered)
        BY <1>7, <2>1, NextLine, ReplyTypes DEF Refused
  <2>3. QED
        BY <1>3, <1>4, <1>5, <1>7, <2>1, <2>2, NextLine DEF Refused, TypeOK, WireTypes
<1>8. CASE Admit
  <2>1. toSup # <<>>
        BY <1>8 DEF Admit, Line
  <2>2. PICK c \in Commands : c = Head(toSup).cmd
        BY <2>1, NextLine
  <2>3. JournalTypes'
    <3>1. Received(c) \in Entries
          BY DEF Received, Entries
    <3>2. [entries EXCEPT ![c] = "pending"] \in [Commands -> Statuses]
          BY DEF TypeOK, JournalTypes, Statuses
    <3>3. Write(Received(c), [entries EXCEPT ![c] = "pending"], FALSE)
          BY <1>8, <2>2 DEF Admit, begin
    <3>4. QED
          BY <3>1, <3>2, <3>3, WriteTypes DEF TypeOK
  <2>4. ProcessTypes'
    <3>1. Head(toSup).conn \in Nat
          BY <2>1, NextLine
    <3>2. /\ flight' = [flight EXCEPT ![c] = Head(toSup).conn]
          /\ work' = [work EXCEPT ![c] = @ + 1] /\ UNCHANGED <<process, effect>>
          BY <1>8, <2>2 DEF Admit
    <3>3. QED
          BY <3>1, <3>2 DEF TypeOK, ProcessTypes, process
  <2>5. WireTypes'
        BY <1>8, <2>1, NextLine DEF Admit, TypeOK, WireTypes
  <2>6. QED
        BY <1>3, <1>8, <2>3, <2>4, <2>5 DEF Admit, TypeOK
<1>9. CASE Acknowledge
  <2>1. toSup # <<>>
        BY <1>9 DEF Acknowledge, Line
  <2>2. PICK c \in Commands : c = Head(toSup).cmd
        BY <2>1, NextLine
  <2>3. JournalTypes'
    <3>1. CASE entries[c] = "absent"
          BY <1>4, <1>9, <2>2, <3>1 DEF Acknowledge, acknowledge
    <3>2. CASE entries[c] # "absent"
      <4>1. Acknowledged(c) \in Entries
            BY DEF Acknowledged, Entries
      <4>2. [entries EXCEPT ![c] = "absent"] \in [Commands -> Statuses]
            BY DEF TypeOK, JournalTypes, Statuses
      <4>3. Write(Acknowledged(c), [entries EXCEPT ![c] = "absent"], [entries EXCEPT ![c] = "absent"] = Absent)
            BY <1>9, <2>2, <3>2 DEF Acknowledge, acknowledge
      <4>4. QED
            BY <4>1, <4>2, <4>3, WriteTypes DEF TypeOK
    <3>3. QED
          BY <3>1, <3>2
  <2>4. WireTypes'
        BY <1>9, <2>1, NextLine DEF Acknowledge, TypeOK, WireTypes
  <2>5. QED
        BY <1>3, <1>5, <1>9, <2>3, <2>4 DEF Acknowledge, TypeOK
<1>10. CASE UpdateRestart
  <2>1. ProcessTypes'
        BY <1>10 DEF UpdateRestart, TypeOK, ProcessTypes, worker
  <2>2. WireTypes'
        BY <1>10 DEF UpdateRestart, TypeOK, WireTypes, wire
  <2>3. QED
        BY <1>3, <1>4, <1>10, <2>1, <2>2 DEF UpdateRestart, TypeOK
<1>11. ASSUME NEW c \in Commands, NEW r \in Responses, Finish(c, r) PROVE TypeOK'
  <2>1. JournalTypes'
    <3>1. CASE entries[c] = "absent"
          BY <1>4, <1>11, <3>1 DEF Finish
    <3>2. CASE entries[c] # "absent"
      <4>1. Result(c, r) \in Entries
            BY DEF Result, Entries
      <4>2. [entries EXCEPT ![c] = r] \in [Commands -> Statuses]
            BY DEF TypeOK, JournalTypes, Statuses
      <4>3. Write(Result(c, r), [entries EXCEPT ![c] = r], FALSE)
            BY <1>11, <3>2 DEF Finish, recordResult
      <4>4. QED
            BY <4>1, <4>2, <4>3, WriteTypes DEF TypeOK
    <3>3. QED
          BY <3>1, <3>2
  <2>2. toCli' \in Seq(Answered)
    <3>1. Reply(flight[c], c, "failed") \/ Reply(flight[c], c, r)
          BY <1>11 DEF Finish
    <3>2. QED
          BY <3>1, ReplyTypes DEF Responses
  <2>3. WireTypes'
        BY <1>11, <2>2 DEF Finish, TypeOK, WireTypes
  <2>4. ProcessTypes'
        BY <1>11 DEF Finish, TypeOK, ProcessTypes, process, worker
  <2>5. QED
        BY <1>3, <1>11, <2>1, <2>3, <2>4 DEF Finish, TypeOK
<1>12. QED
      BY <1>6, <1>7, <1>8, <1>9, <1>10, <1>11 DEF Supervisor

\* What may be the last append is an entry.
LEMMA AppendingTypes == ASSUME TypeOK PROVE Appending \subseteq Entries
    BY DEF Appending, Entries, Received, Acknowledged, Result, Responses

LEMMA TypeStops ==
    ASSUME TypeOK, Stop \/ StopAfterAppend \/ StopInAppend \/ Restart
    PROVE  TypeOK'
<1>1. JournalTypes /\ BoundsAssumption
      BY BoundsAssumption DEF TypeOK
<1>2. ASSUME Stopped, FileTypes' PROVE TypeOK'
  <2>1. ClientTypes'
        BY <1>2 DEF Stopped, TypeOK, ClientTypes, client
  <2>2. WireTypes'
        BY <1>2, EmptyFacts DEF Stopped, TypeOK, WireTypes
  <2>3. JournalTypes'
        BY <1>2 DEF Stopped, JournalTypes, FileTypes, Absent, Statuses
  <2>4. ProcessTypes'
    <3>1. crashes' \in 0..MaxCrashes
          BY <1>1, <1>2 DEF Stopped, TypeOK, ProcessTypes, BoundsAssumption
    <3>2. flight' \in [Commands -> Nat]
          BY <1>2 DEF Stopped
    <3>3. up' \in BOOLEAN /\ restarting' \in BOOLEAN /\ UNCHANGED worker
          BY <1>2 DEF Stopped
    <3>4. QED
          BY <3>1, <3>2, <3>3 DEF TypeOK, ProcessTypes, worker
  <2>5. QED
        BY <2>1, <2>2, <2>3, <2>4 DEF TypeOK
<1>3. CASE Stop
      BY <1>1, <1>2, <1>3 DEF Stop, JournalTypes, FileTypes, file
<1>4. CASE StopAfterAppend
      BY <1>1, <1>2, <1>4, AppendingTypes, AppendTypes DEF StopAfterAppend
<1>5. CASE StopInAppend
      BY <1>1, <1>2, <1>5, AppendingTypes, CutTypes DEF StopInAppend
<1>6. CASE Restart
      BY <1>6 DEF Restart, TypeOK, ClientTypes, WireTypes, JournalTypes, ProcessTypes, client, wire, file, worker
<1>7. QED
      BY <1>3, <1>4, <1>5, <1>6

LEMMA TypePreserved == TypeOK /\ [Next]_vars => TypeOK'
<1>1. ASSUME TypeOK, NEW c \in Commands, WorkerExecutes(c) \/ WorkerDrops(c) PROVE TypeOK'
  <2>1. work[c] - 1 \in Nat /\ effect[c] + 1 \in Nat
        BY <1>1 DEF WorkerExecutes, WorkerDrops, TypeOK, ProcessTypes
  <2>2. UNCHANGED <<client, wire, process, journal, file, flight>>
        BY <1>1 DEF WorkerExecutes, WorkerDrops
  <2>3. ProcessTypes'
        BY <1>1, <2>1, <2>2 DEF WorkerExecutes, WorkerDrops, TypeOK, ProcessTypes, process
  <2>4. QED
        BY <1>1, <2>2, <2>3
        DEF TypeOK, ClientTypes, WireTypes, JournalTypes, client, wire, journal, file
<1>2. ASSUME TypeOK, UNCHANGED vars PROVE TypeOK'
      BY <1>2 DEF vars, client, wire, process, journal, file, worker,
                  TypeOK, ClientTypes, WireTypes, JournalTypes, ProcessTypes
<1>3. QED
      BY <1>1, <1>2, TypeClient, TypeSupervisor, TypeStops DEF Next

\* Every variable is of its type, whatever is torn.
THEOREM TypeCorrect == Spec => []TypeOK
<1>1. QED
      BY TypeInitially, TypePreserved, PTL DEF Spec

-----------------------------------------------------------------------------
(* What a step does to the requests and to the lines. *)

\* A request that was sent stays so, and one that is settled is settled for good.
Forward ==
    \A c \in Commands : /\ (req[c] # "unsent") => (req'[c] # "unsent")
                        /\ Settled(c) => (req'[c] = req[c] /\ Settled(c)')

LEMMA RequestsForward == ASSUME TypeOK, Next PROVE Forward
<1>1. req \in [Commands -> {"unsent"} \cup Pending \cup Outcomes]
      BY DEF TypeOK, ClientTypes
<1>2. ASSUME UNCHANGED req PROVE Forward
      BY <1>2 DEF Forward, Settled
<1>3. ASSUME NEW c \in Commands, Request(c) PROVE Forward
      BY <1>1, <1>3 DEF Request, Forward, Settled, Outcomes
<1>4. ASSUME NEW c \in Commands, RequestTimeout(c) PROVE Forward
      BY <1>1, <1>4 DEF RequestTimeout, Forward, Settled, Outcomes
<1>5. CASE Response
  <2>1. toCli \in Seq(Answered) /\ toCli # <<>>
        BY <1>5 DEF Response, TypeOK, WireTypes
  <2>2. Head(toCli) \in Answered
        BY <2>1, TailFacts
  <2>3. Head(toCli).cmd \in Commands /\ Head(toCli).says \in Outcomes
        BY <2>2 DEF Answered, Outcomes, Responses
  <2>4. CASE req[Head(toCli).cmd] = "sent"
    <3>1. req' = [req EXCEPT ![Head(toCli).cmd] = Head(toCli).says]
          BY <1>5, <2>4 DEF Response
    <3>2. QED
          BY <1>1, <2>3, <2>4, <3>1 DEF Forward, Settled, Outcomes
  <2>5. CASE req[Head(toCli).cmd] # "sent"
        BY <1>2, <1>5, <2>5 DEF Response
  <2>6. QED
        BY <2>4, <2>5
<1>6. CASE Disconnected \/ Reconnect \/ GiveUp
      BY <1>1, <1>6 DEF Disconnected, Reconnect, GiveUp, Resent, Forward, Settled, Outcomes
<1>7. QED
      BY <1>2, <1>3, <1>4, <1>5, <1>6
      DEF Next, WorkerExecutes, WorkerDrops, Finish, Supervisor, Known, Refused, Admit, Acknowledge,
          UpdateRestart, Stop, StopAfterAppend, StopInAppend, Stopped, Restart, client

\* Lines are only taken away: the first of them, or some at the end.
LinesFall ==
    \E k \in {0, 1} : \A i \in Places' : i + k \in Places /\ toSup'[i] = toSup[i + k]

\* A line that may be added.
Fresh(m) ==
    /\ m \in Lines /\ m.conn \in 1..conns' /\ req'[m.cmd] # "unsent"
    /\ (m.type = "command") =>
           ~Settled(m.cmd) /\ \A j \in Places : Waits(j, m.cmd) => (toSup[j].conn < m.conn)
    /\ (m.type = "ack_result") => Settled(m.cmd)'

\* Lines of different commands are added at the end.
LinesGrow(t) ==
    /\ t \in Seq(Lines) /\ toSup' = toSup \o t
    /\ \A i \in 1..Len(t) : Fresh(t[i])
    /\ \A i, j \in 1..Len(t) : (t[i].cmd = t[j].cmd) => (i = j)

LEMMA LineTypes == ASSUME TypeOK PROVE Len(toSup) \in Nat /\ \A i \in Places : toSup[i] \in Lines
    BY ElementFacts DEF TypeOK, WireTypes, Places

LEMMA FallKeepsNoLine ==
    ASSUME LinesFall, NEW c, NoLine(c) PROVE NoLine(c)'
    BY DEF LinesFall, NoLine, Waits

LEMMA FallKeepsLines ==
    ASSUME TypeOK, TypeOK', LinesFall, Forward, conns' = conns, LinesInv PROVE LinesInv'
<1>1. PICK k \in {0, 1} : \A i \in Places' : i + k \in Places /\ toSup'[i] = toSup[i + k]
      BY DEF LinesFall
<1>2. \A i \in Places : toSup[i].cmd \in Commands
      BY LineTypes DEF Lines
<1>3. (\A i \in Places : toSup[i].conn \in 1..conns /\ req[toSup[i].cmd] # "unsent")'
      BY <1>1, <1>2 DEF LinesInv, Forward
<1>4. Len(toSup') \in Nat
      BY ElementFacts DEF TypeOK, WireTypes
<1>5. ASSUME NEW i \in Places', NEW j \in Places', i < j, NEW c \in Commands, (Waits(i, c) /\ Waits(j, c))'
      PROVE  toSup'[i].conn < toSup'[j].conn
  <2>1. i + k \in Places /\ j + k \in Places /\ i + k < j + k
        BY <1>1, <1>4, <1>5 DEF Places
  <2>2. Waits(i + k, c) /\ Waits(j + k, c)
        BY <1>1, <1>5 DEF Waits
  <2>3. QED
        BY <1>1, <2>1, <2>2 DEF LinesInv, CopiesAscend
<1>6. ASSUME NEW i \in Places', toSup'[i].type = "ack_result"
      PROVE  Settled(toSup[i].cmd)' /\ \A j \in Places' : i < j => ~Waits(j, toSup[i].cmd)'
  <2>1. i + k \in Places /\ toSup'[i] = toSup[i + k]
        BY <1>1
  <2>2. Settled(toSup[i + k].cmd) /\ \A j \in Places : i + k < j => ~Waits(j, toSup[i + k].cmd)
        BY <1>6, <2>1 DEF LinesInv, AckIsLast
  <2>3. Settled(toSup[i].cmd)'
        BY <1>2, <2>1, <2>2 DEF Forward, Settled
  <2>4. ASSUME NEW j \in Places', i < j PROVE ~Waits(j, toSup[i].cmd)'
    <3>1. j + k \in Places /\ i + k < j + k /\ toSup'[j] = toSup[j + k]
          BY <1>1, <1>4, <2>4 DEF Places
    <3>2. QED
          BY <2>1, <2>2, <3>1 DEF Waits
  <2>5. QED
        BY <2>3, <2>4
<1>7. QED
      BY <1>3, <1>5, <1>6 DEF LinesInv, CopiesAscend, AckIsLast

LEMMA GrowFacts ==
    ASSUME TypeOK, NEW t, LinesGrow(t), NEW i \in Places'
    PROVE  \/ i \in Places /\ toSup'[i] = toSup[i]
           \/ /\ i > Len(toSup) /\ i - Len(toSup) \in 1..Len(t)
              /\ toSup'[i] = t[i - Len(toSup)]
<1>1. toSup \in Seq(Lines) /\ t \in Seq(Lines) /\ toSup' = toSup \o t
      BY DEF LinesGrow, TypeOK, WireTypes
<1>2. Len(toSup) \in Nat /\ Len(t) \in Nat
      BY <1>1, ElementFacts
<1>3. /\ Len(toSup') = Len(toSup) + Len(t)
      /\ \A n \in 1..Len(toSup) + Len(t) : toSup'[n] = IF n <= Len(toSup) THEN toSup[n] ELSE t[n - Len(toSup)]
      BY <1>1, ConcatProperties
<1>4. QED
      BY <1>2, <1>3 DEF Places

LEMMA GrowKeepsNoLine ==
    ASSUME TypeOK, NEW t, LinesGrow(t), NEW c, NoLine(c),
           \A i \in 1..Len(t) : ~(t[i].type = "command" /\ t[i].cmd = c)
    PROVE  NoLine(c)'
<1>1. ASSUME NEW i \in Places' PROVE ~Waits(i, c)'
      BY GrowFacts DEF NoLine, Waits
<1>2. QED
      BY <1>1 DEF NoLine

LEMMA GrowKeepsLines ==
    ASSUME TypeOK, TypeOK', NEW t, LinesGrow(t), Forward, conns' \in {conns, conns + 1}, LinesInv
    PROVE  LinesInv'
<1>1. /\ \A i \in Places : toSup[i] \in Lines /\ toSup[i].cmd \in Commands
      /\ \A i \in 1..Len(t) : t[i] \in Lines /\ t[i].cmd \in Commands
      /\ Len(toSup) \in Nat /\ Len(t) \in Nat /\ conns \in Nat
  <2>1. t \in Seq(Lines) /\ conns \in Nat
        BY DEF LinesGrow, TypeOK, ClientTypes
  <2>2. Len(t) \in Nat /\ \A i \in 1..Len(t) : t[i] \in Lines
        BY <2>1, ElementFacts
  <2>3. \A m \in Lines : m.cmd \in Commands
        BY DEF Lines
  <2>4. QED
        BY <2>1, <2>2, <2>3, LineTypes
<1>2. ASSUME NEW i \in Places' PROVE toSup'[i].conn \in 1..conns' /\ req'[toSup'[i].cmd] # "unsent"
  <2>1. CASE i \in Places /\ toSup'[i] = toSup[i]
        BY <1>1, <2>1 DEF LinesInv, Forward
  <2>2. CASE i - Len(toSup) \in 1..Len(t) /\ toSup'[i] = t[i - Len(toSup)]
        BY <2>2 DEF LinesGrow, Fresh
  <2>3. QED
        BY <2>1, <2>2, GrowFacts
<1>3. ASSUME NEW i \in Places', NEW j \in Places', i < j, NEW c \in Commands, (Waits(i, c) /\ Waits(j, c))'
      PROVE  toSup'[i].conn < toSup'[j].conn
  <2>1. CASE i \in Places /\ toSup'[i] = toSup[i] /\ j \in Places /\ toSup'[j] = toSup[j]
        BY <1>3, <2>1 DEF LinesInv, CopiesAscend, Waits
  <2>2. CASE /\ i \in Places /\ toSup'[i] = toSup[i]
             /\ j - Len(toSup) \in 1..Len(t) /\ toSup'[j] = t[j - Len(toSup)]
    <3>1. Fresh(t[j - Len(toSup)]) /\ t[j - Len(toSup)].type = "command" /\ t[j - Len(toSup)].cmd = c
          BY <1>3, <2>2 DEF LinesGrow, Waits
    <3>2. Waits(i, c)
          BY <1>3, <2>2 DEF Waits
    <3>3. QED
          BY <2>2, <3>1, <3>2 DEF Fresh
  <2>3. CASE /\ i - Len(toSup) \in 1..Len(t) /\ toSup'[i] = t[i - Len(toSup)]
             /\ j - Len(toSup) \in 1..Len(t) /\ toSup'[j] = t[j - Len(toSup)]
    <3>1. i - Len(toSup) = j - Len(toSup)
          BY <1>3, <2>3 DEF LinesGrow, Waits
    <3>2. QED
          BY <1>1, <1>3, <3>1 DEF Places
  <2>4. CASE /\ i > Len(toSup) /\ j \in Places
        BY <1>1, <1>3, <2>4 DEF Places
  <2>5. QED
        BY <2>1, <2>2, <2>3, <2>4, GrowFacts
<1>4. ASSUME NEW i \in Places', toSup'[i].type = "ack_result"
      PROVE  Settled(toSup[i].cmd)' /\ \A j \in Places' : i < j => ~Waits(j, toSup[i].cmd)'
  <2>1. CASE i \in Places /\ toSup'[i] = toSup[i]
    <3>1. Settled(toSup[i].cmd) /\ \A j \in Places : i < j => ~Waits(j, toSup[i].cmd)
          BY <1>4, <2>1 DEF LinesInv, AckIsLast
    <3>2. Settled(toSup[i].cmd)'
          BY <1>1, <2>1, <3>1 DEF Forward, Settled
    <3>3. ASSUME NEW j \in Places', i < j PROVE ~Waits(j, toSup[i].cmd)'
      <4>1. CASE j \in Places /\ toSup'[j] = toSup[j]
            BY <2>1, <3>1, <3>3, <4>1 DEF Waits
      <4>2. CASE j - Len(toSup) \in 1..Len(t) /\ toSup'[j] = t[j - Len(toSup)]
            BY <2>1, <3>1, <4>2 DEF LinesGrow, Fresh, Waits
      <4>3. QED
            BY <4>1, <4>2, GrowFacts
    <3>4. QED
          BY <3>2, <3>3
  <2>2. CASE /\ i > Len(toSup) /\ i - Len(toSup) \in 1..Len(t)
             /\ toSup'[i] = t[i - Len(toSup)]
    <3>1. Settled(toSup[i].cmd)'
          BY <1>4, <2>2 DEF LinesGrow, Fresh, Settled
    <3>2. ASSUME NEW j \in Places', i < j PROVE ~Waits(j, toSup[i].cmd)'
      <4>1. j \notin Places
            BY <1>1, <2>2, <3>2 DEF Places
      <4>2. j - Len(toSup) \in 1..Len(t) /\ toSup'[j] = t[j - Len(toSup)]
            BY <4>1, GrowFacts
      <4>3. j - Len(toSup) # i - Len(toSup)
            BY <1>1, <2>2, <3>2, <4>2 DEF Places
      <4>4. QED
            BY <2>2, <4>2, <4>3 DEF LinesGrow, Waits
    <3>3. QED
          BY <3>1, <3>2
  <2>3. QED
        BY <2>1, <2>2, GrowFacts
<1>5. QED
      BY <1>2, <1>3, <1>4 DEF LinesInv, CopiesAscend, AckIsLast

\* Who takes lines away, and who adds some.
LEMMA WhoFalls ==
    ASSUME TypeOK, ConnInv, Next,
           ~ \E c \in Commands : Request(c),
           ~ Response, ~ Reconnect
    PROVE  LinesFall
<1>1. toSup \in Seq(Lines) /\ Len(toSup) \in Nat
      BY ElementFacts DEF TypeOK, WireTypes
<1>2. ASSUME UNCHANGED toSup PROVE LinesFall
      BY <1>1, <1>2 DEF LinesFall, Places
<1>3. ASSUME toSup # <<>>, toSup' = Tail(toSup) PROVE LinesFall
  <2>1. /\ Len(toSup') = Len(toSup) - 1
        /\ \A i \in 1..Len(toSup') : toSup'[i] = toSup[i + 1]
        BY <1>1, <1>3, TailFacts
  <2>2. \A i \in Places' : i + 1 \in Places /\ toSup'[i] = toSup[i + 1]
        BY <1>1, <2>1 DEF Places
  <2>3. QED
        BY <2>2 DEF LinesFall
<1>4. ASSUME toSup' = <<>> PROVE LinesFall
      BY <1>4, EmptyFacts DEF LinesFall, Places
<1>5. CASE Disconnected
  <2>1. PICK n \in 0..Len(toSup) : toSup' = SubSeq(toSup, 1, n)
        BY <1>5 DEF Disconnected
  <2>2. Len(toSup') = n /\ \A i \in 1..n : toSup'[i] = toSup[i]
        BY <1>1, <2>1
  <2>3. \A i \in Places' : i + 0 \in Places /\ toSup'[i] = toSup[i + 0]
        BY <1>1, <2>2 DEF Places
  <2>4. QED
        BY <2>3 DEF LinesFall
<1>6. CASE Supervisor
      BY <1>3, <1>6 DEF Supervisor, Known, Refused, Admit, Acknowledge, Line
<1>7. CASE Stop \/ StopAfterAppend \/ StopInAppend
      BY <1>4, <1>7 DEF Stop, StopAfterAppend, StopInAppend, Stopped
<1>8. CASE \/ \E c \in Commands : RequestTimeout(c) \/ WorkerExecutes(c) \/ WorkerDrops(c)
           \/ \E c \in Commands, r \in Responses : Finish(c, r)
           \/ GiveUp \/ UpdateRestart \/ Restart
      BY <1>2, <1>8 DEF RequestTimeout, WorkerExecutes, WorkerDrops, Finish, GiveUp, UpdateRestart, Restart, wire
<1>9. QED
      BY <1>5, <1>6, <1>7, <1>8 DEF Next

LEMMA OneLine ==
    ASSUME TypeOK, NEW m, Fresh(m), toSup' = Append(toSup, m)
    PROVE  LinesGrow(<<m>>)
<1>1. toSup \in Seq(Lines) /\ m \in Lines
      BY DEF TypeOK, WireTypes, Fresh
<1>2. toSup' = toSup \o <<m>> /\ <<m>> \in Seq(Lines) /\ Len(<<m>>) = 1 /\ <<m>>[1] = m
      BY <1>1, AppendIsConcat
<1>3. QED
      BY <1>2 DEF LinesGrow

LEMMA RequestGrows ==
    ASSUME TypeOK, ConnInv, LinesInv, NEW c \in Commands, Request(c), linked
    PROVE  \E t : LinesGrow(t) /\ \A i \in 1..Len(t) : t[i].cmd = c
<1>1. conn \in Nat /\ conns \in Nat /\ conn = conns /\ conn # 0 /\ conns' = conns
      BY DEF Request, TypeOK, ClientTypes, ConnInv
<1>2. PICK m : m = Cmd(c)
      OBVIOUS
<1>3. m \in Lines /\ m.conn \in 1..conns' /\ m.type = "command" /\ m.cmd = c
      BY <1>1, <1>2 DEF Cmd, Lines
<1>4. req'[c] # "unsent" /\ ~Settled(c)
      BY DEF Request, TypeOK, ClientTypes, Settled, Outcomes
<1>5. \A j \in Places : ~Waits(j, c)
      BY DEF LinesInv, Waits, Request
<1>6. Fresh(m)
      BY <1>3, <1>4, <1>5 DEF Fresh
<1>7. LinesGrow(<<m>>) /\ Len(<<m>>) = 1 /\ <<m>>[1].cmd = c
      BY <1>2, <1>3, <1>6, OneLine DEF Request
<1>8. QED
      BY <1>7

LEMMA ResponseGrows ==
    ASSUME TypeOK, ConnInv, LinesInv, Response, req[Head(toCli).cmd] = "sent", linked
    PROVE  \E t : LinesGrow(t) /\ \A i \in 1..Len(t) : t[i].type # "command"
<1>1. toCli \in Seq(Answered) /\ toCli # <<>>
      BY DEF Response, TypeOK, WireTypes
<1>2. Head(toCli) \in Answered
      BY <1>1, TailFacts
<1>3. PICK c \in Commands : c = Head(toCli).cmd
      BY <1>2 DEF Answered
<1>4. conn \in Nat /\ conns \in Nat /\ conn = conns /\ conn # 0 /\ conns' = conns
      BY DEF Response, TypeOK, ClientTypes, ConnInv
<1>5. PICK m : m = Ack(c)
      OBVIOUS
<1>6. m \in Lines /\ m.conn \in 1..conns' /\ m.type = "ack_result" /\ m.cmd = c
      BY <1>4, <1>5 DEF Ack, Lines
<1>7. Settled(c)' /\ req'[c] # "unsent"
      BY <1>2, <1>3 DEF Response, TypeOK, ClientTypes, Settled, Outcomes, Answered, Responses
<1>8. Fresh(m)
      BY <1>6, <1>7 DEF Fresh
<1>9. toSup' = Append(toSup, m)
      BY <1>3, <1>5 DEF Response
<1>10. LinesGrow(<<m>>) /\ Len(<<m>>) = 1 /\ <<m>>[1].type # "command"
      BY <1>6, <1>8, <1>9, OneLine
<1>11. QED
      BY <1>10

LEMMA ReconnectGrows ==
    ASSUME TypeOK, ConnInv, LinesInv, Reconnect
    PROVE  \E t : /\ LinesGrow(t)
                  /\ \A i \in 1..Len(t) : req[t[i].cmd] = "awaitingReconnect"
<1>1. PICK s \in ResendOrders :
          toSup' = toSup \o [i \in 1..Cardinality(Resent) |->
                               [type |-> "command", cmd |-> s[i], conn |-> conns + 1]]
      BY DEF Reconnect
<1>2. /\ Cardinality(Resent) \in Nat /\ conns \in Nat /\ conns' = conns + 1
      /\ req \in [Commands -> {"unsent"} \cup Pending \cup Outcomes]
      BY SomeCommands DEF Resent, Reconnect, TypeOK, ClientTypes
<1>3. DEFINE t == [i \in 1..Cardinality(Resent) |-> [type |-> "command", cmd |-> s[i], conn |-> conns + 1]]
<1>4. /\ \A i \in 1..Cardinality(Resent) : s[i] \in Resent
      /\ \A i, j \in 1..Cardinality(Resent) : i < j => s[i] < s[j]
      BY DEF ResendOrders
<1>5. ASSUME NEW i \in 1..Cardinality(Resent) PROVE Fresh(t[i]) /\ req[t[i].cmd] = "awaitingReconnect"
  <2>1. s[i] \in Commands /\ req[s[i]] = "awaitingReconnect" /\ s[i] \in Resent
        BY <1>4 DEF Resent
  <2>2. t[i] \in Lines /\ t[i].conn = conns + 1 /\ t[i].type = "command" /\ t[i].cmd = s[i]
        BY <1>2, <2>1 DEF Lines
  <2>3. req'[s[i]] = "sent"
        BY <2>1 DEF Reconnect
  <2>4. \A j \in Places : toSup[j].conn < conns + 1
        BY <1>2 DEF LinesInv
  <2>5. ~Settled(s[i])
        BY <2>1 DEF Settled, Outcomes
  <2>6. t[i].conn \in 1..conns'
        BY <1>2, <2>2
  <2>7. QED
        BY <2>1, <2>2, <2>3, <2>4, <2>5, <2>6 DEF Fresh
<1>6. t \in Seq(Lines) /\ Len(t) = Cardinality(Resent)
  <2>1. \A i \in 1..Cardinality(Resent) : t[i] \in Lines
        BY <1>5 DEF Fresh
  <2>2. QED
        BY <1>2, <2>1, IsASeq
<1>7. ASSUME NEW i \in 1..Cardinality(Resent), NEW j \in 1..Cardinality(Resent), t[i].cmd = t[j].cmd
      PROVE  i = j
  <2>1. s[i] = s[j] /\ s[i] \in Nat
        BY <1>4, <1>7, BoundsAssumption DEF Resent, Commands
  <2>2. ~(i < j) /\ ~(j < i)
        BY <1>4, <2>1
  <2>3. QED
        BY <1>2, <2>2
<1>8. LinesGrow(t)
      BY <1>1, <1>5, <1>6, <1>7 DEF LinesGrow
<1>9. QED
      BY <1>5, <1>6, <1>8

\* The lines of a command that is not sent again.
LEMMA NoLineStays ==
    ASSUME TypeOK, ConnInv, LinesInv, Next, NEW c \in Commands,
           req[c] # "unsent", conn # 0 \/ req[c] # "awaitingReconnect", NoLine(c)
    PROVE  NoLine(c)'
<1>1. ASSUME UNCHANGED toSup PROVE NoLine(c)'
      BY <1>1 DEF NoLine, Places, Waits
<1>2. ASSUME NEW d \in Commands, Request(d) PROVE NoLine(c)'
  <2>1. CASE ~linked
        BY <1>1, <1>2, <2>1 DEF Request
  <2>2. CASE linked
    <3>1. d # c
          BY <1>2 DEF Request
    <3>2. QED
          BY <1>2, <2>2, <3>1, RequestGrows, GrowKeepsNoLine
  <2>3. QED
        BY <2>1, <2>2
<1>3. CASE Response
  <2>1. CASE ~(linked /\ req[Head(toCli).cmd] = "sent")
        BY <1>1, <1>3, <2>1 DEF Response
  <2>2. CASE linked /\ req[Head(toCli).cmd] = "sent"
        BY <1>3, <2>2, ResponseGrows, GrowKeepsNoLine
  <2>3. QED
        BY <2>1, <2>2
<1>4. CASE Reconnect
  <2>1. PICK t : LinesGrow(t) /\ \A i \in 1..Len(t) : req[t[i].cmd] = "awaitingReconnect"
        BY <1>4, ReconnectGrows
  <2>2. req[c] # "awaitingReconnect"
        BY <1>4 DEF Reconnect
  <2>3. \A i \in 1..Len(t) : t[i].cmd # c
        BY <2>1, <2>2
  <2>4. QED
        BY <2>1, <2>3, GrowKeepsNoLine
<1>5. QED
      BY <1>2, <1>3, <1>4, WhoFalls, FallKeepsNoLine

LEMMA LinesPreserved ==
    ASSUME TypeOK, TypeOK', ConnInv, LinesInv, Next PROVE LinesInv'
<1>1. Forward /\ conns' \in {conns, conns + 1} /\ (~Reconnect => conns' = conns)
  <2>1. ~Reconnect => conns' = conns
        BY DEF Next, Request, RequestTimeout, Response, Disconnected, GiveUp,
               WorkerExecutes, WorkerDrops, Finish, Supervisor, Known, Refused, Admit, Acknowledge,
               UpdateRestart, Stop, StopAfterAppend, StopInAppend, Stopped, Restart, client
  <2>2. QED
        BY <2>1, RequestsForward DEF Reconnect
<1>2. ASSUME LinesFall, ~Reconnect PROVE LinesInv'
      BY <1>1, <1>2, FallKeepsLines
<1>3. ASSUME UNCHANGED toSup PROVE LinesFall
  <2>1. Len(toSup) \in Nat
        BY LineTypes
  <2>2. \A i \in Places' : i + 0 \in Places /\ toSup'[i] = toSup[i + 0]
        BY <1>3, <2>1 DEF Places
  <2>3. QED
        BY <2>2 DEF LinesFall
<1>4. ASSUME NEW t, LinesGrow(t) PROVE LinesInv'
      BY <1>1, <1>4, GrowKeepsLines
<1>5. ASSUME NEW c \in Commands, Request(c) PROVE LinesInv'
  <2>1. CASE linked
        BY <1>4, <1>5, <2>1, RequestGrows
  <2>2. CASE ~linked
        BY <1>2, <1>3, <1>5, <2>2, FallKeepsLines, <1>1 DEF Request
  <2>3. QED
        BY <2>1, <2>2
<1>6. CASE Response
  <2>1. CASE linked /\ req[Head(toCli).cmd] = "sent"
        BY <1>4, <1>6, <2>1, ResponseGrows
  <2>2. CASE ~(linked /\ req[Head(toCli).cmd] = "sent")
        BY <1>1, <1>3, <1>6, <2>2, FallKeepsLines DEF Response
  <2>3. QED
        BY <2>1, <2>2
<1>7. CASE Reconnect
      BY <1>4, <1>7, ReconnectGrows
<1>8. QED
      BY <1>2, <1>5, <1>6, <1>7, WhoFalls

-----------------------------------------------------------------------------
(* Connections, answers and executions. *)

LEMMA ConnPreserved ==
    ASSUME TypeOK, ConnInv, LinesInv, Next PROVE ConnInv'
<1>1. conn \in Nat /\ conns \in Nat /\ flight \in [Commands -> Nat]
      BY DEF TypeOK, ClientTypes, ProcessTypes
<1>2. ASSUME NEW c \in Commands, Request(c) PROVE ConnInv'
      BY <1>2 DEF Request, ConnInv, process
<1>3. ASSUME NEW c \in Commands, RequestTimeout(c) \/ WorkerExecutes(c) \/ WorkerDrops(c) PROVE ConnInv'
      BY <1>3 DEF RequestTimeout, WorkerExecutes, WorkerDrops, ConnInv, client, process, wire
<1>4. CASE Response
      BY <1>4 DEF Response, ConnInv, process
<1>5. CASE Disconnected
  <2>1. ASSUME ~up PROVE toSup' = <<>>
    <3>1. toSup = <<>> /\ Len(toSup) = 0
          BY <2>1, EmptyFacts DEF ConnInv
    <3>2. PICK n \in 0..Len(toSup) : toSup' = SubSeq(toSup, 1, n)
          BY <1>5 DEF Disconnected
    <3>3. n = 0
          BY <3>1, <3>2
    <3>4. SubSeq(<<>>, 1, 0) = <<>>
          OBVIOUS
    <3>5. QED
          BY <3>1, <3>2, <3>3, <3>4
  <2>2. QED
        BY <1>5, <2>1 DEF Disconnected, ConnInv, process
<1>6. CASE Reconnect
      BY <1>1, <1>6 DEF Reconnect, ConnInv, process
<1>7. CASE GiveUp \/ UpdateRestart
      BY <1>7 DEF GiveUp, UpdateRestart, ConnInv, client, process, wire
<1>8. ASSUME NEW to, NEW c, NEW says, Reply(to, c, says), conn = 0, ConnInv PROVE toCli' = <<>>
      BY <1>8 DEF Reply, ConnInv
<1>9. CASE Known \/ Refused \/ Acknowledge
      BY <1>8, <1>9 DEF Known, Refused, Acknowledge, Line, ConnInv, client, process
<1>10. CASE Admit
  <2>1. toSup # <<>> /\ up
        BY <1>10 DEF Admit, Line
  <2>2. Head(toSup).conn \in 1..conns
        BY <2>1, NextLine DEF LinesInv
  <2>3. \A c \in Commands : flight'[c] \in 0..conns
        BY <1>1, <1>10, <2>2 DEF Admit, ConnInv
  <2>4. QED
        BY <1>10, <2>1, <2>3 DEF Admit, ConnInv, client, process
<1>11. ASSUME NEW c \in Commands, NEW r \in Responses, Finish(c, r) PROVE ConnInv'
  <2>1. (conn = 0) => (toCli' = <<>>)
        BY <1>8, <1>11 DEF Finish
  <2>2. \A d \in Commands : flight'[d] \in 0..conns
        BY <1>1, <1>11 DEF Finish, ConnInv
  <2>3. QED
        BY <1>11, <2>1, <2>2 DEF Finish, ConnInv, client, process
<1>12. CASE Stop \/ StopAfterAppend \/ StopInAppend
  <2>1. \A d \in Commands : flight'[d] = 0
        BY <1>12 DEF Stop, StopAfterAppend, StopInAppend, Stopped
  <2>2. QED
        BY <1>1, <1>12, <2>1 DEF Stop, StopAfterAppend, StopInAppend, Stopped, ConnInv, client
<1>13. CASE Restart
      BY <1>13 DEF Restart, ConnInv, client, wire
<1>14. QED
      BY <1>2, <1>3, <1>4, <1>5, <1>6, <1>7, <1>9, <1>10, <1>11, <1>12, <1>13 DEF Next, Supervisor

\* What is executed stays executed; what has no line is not dispatched.
LEMMA EffectsStay ==
    ASSUME TypeOK, Next, NEW c \in Commands
    PROVE  /\ (effect[c] > 0) => (effect'[c] > 0)
           /\ (Untouched(c) /\ NoLine(c)) => Untouched(c)'
<1>1. work \in [Commands -> Nat] /\ effect \in [Commands -> Nat]
      BY DEF TypeOK, ProcessTypes
<1>2. ASSUME NEW d \in Commands, WorkerExecutes(d) \/ WorkerDrops(d)
      PROVE  /\ (effect[c] > 0) => (effect'[c] > 0)
             /\ Untouched(c) => Untouched(c)'
      BY <1>1, <1>2 DEF WorkerExecutes, WorkerDrops, Untouched
<1>3. CASE Admit
  <2>1. toSup # <<>> /\ Head(toSup).type = "command"
        BY <1>3 DEF Admit, Line
  <2>2. NoLine(c) => c # Head(toSup).cmd
        BY <2>1, NextLine DEF NoLine, Waits
  <2>3. effect' = effect /\ work' = [work EXCEPT ![Head(toSup).cmd] = @ + 1]
        BY <1>3 DEF Admit
  <2>4. QED
        BY <1>1, <2>2, <2>3 DEF Untouched
<1>4. ASSUME UNCHANGED worker
      PROVE  /\ (effect[c] > 0) => (effect'[c] > 0)
             /\ Untouched(c) => Untouched(c)'
      BY <1>4 DEF worker, Untouched
<1>5. QED
      BY <1>2, <1>3, <1>4
      DEF Next, Request, RequestTimeout, Response, Disconnected, Reconnect, GiveUp, Finish, Supervisor,
          Known, Refused, Acknowledge, UpdateRestart, Stop, StopAfterAppend, StopInAppend, Stopped, Restart

\* The line handled is the last of its command when it came on the present
\* connection, or when it is an acknowledgement.
LEMMA LastCopy ==
    ASSUME TypeOK, ConnInv, LinesInv, toSup # <<>>, toSup' = Tail(toSup),
           \/ Head(toSup).type = "command" /\ Head(toSup).conn = conn
           \/ Head(toSup).type = "ack_result",
           NEW c \in Commands, c = Head(toSup).cmd
    PROVE  NoLine(c)'
<1>1. toSup \in Seq(Lines) /\ conns \in Nat
      BY DEF TypeOK, WireTypes, ClientTypes
<1>2. /\ Len(toSup) \in Nat /\ Len(toSup') = Len(toSup) - 1
      /\ \A i \in 1..Len(toSup') : toSup'[i] = toSup[i + 1]
      BY <1>1, TailFacts
<1>3. ASSUME NEW i \in Places', Waits(i, c)' PROVE FALSE
  <2>1. i + 1 \in Places /\ 1 < i + 1 /\ Waits(i + 1, c)
        BY <1>2, <1>3 DEF Places, Waits
  <2>2. CASE Head(toSup).type = "command" /\ Head(toSup).conn = conn
    <3>1. Waits(1, c) /\ 1 \in Places
          BY <2>2, NextLine DEF Waits
    <3>2. toSup[1].conn < toSup[i + 1].conn
          BY <2>1, <3>1 DEF LinesInv, CopiesAscend
    <3>3. toSup[1].conn = conn /\ toSup[1].conn \in 1..conns /\ toSup[i + 1].conn \in 1..conns
          BY <2>1, <2>2, <3>1, NextLine DEF LinesInv
    <3>4. conn = conns
          BY <1>1, <3>3 DEF ConnInv
    <3>5. QED
          BY <1>1, <3>2, <3>3, <3>4
  <2>3. CASE Head(toSup).type = "ack_result"
        BY <2>1, <2>3, NextLine DEF LinesInv, AckIsLast
  <2>4. QED
        BY <2>2, <2>3
<1>4. QED
      BY <1>3 DEF NoLine

\* Answers are taken one by one or lost, or one is added.
LEMMA ReplyAdds ==
    ASSUME TypeOK, NEW to, NEW c \in Commands, NEW says \in Responses \cup {"uncertain", "rejected"},
           Reply(to, c, says), NEW m \in Replies'
    PROVE  \/ m \in Replies
           \/ linked /\ to = conn /\ m.cmd = c /\ m.says = says
<1>1. PICK i \in 1..Len(toCli') : m = toCli'[i]
      BY DEF Replies
<1>2. toCli \in Seq(Answered) /\ [cmd |-> c, says |-> says] \in Answered
      BY DEF TypeOK, WireTypes, Answered
<1>3. CASE toCli' = toCli
      BY <1>1, <1>3 DEF Replies
<1>4. CASE linked /\ to = conn /\ toCli' = Append(toCli, [cmd |-> c, says |-> says])
  <2>1. /\ Len(toCli) \in Nat /\ Len(toCli') = Len(toCli) + 1
        /\ \A n \in 1..Len(toCli) : toCli'[n] = toCli[n]
        /\ toCli'[Len(toCli) + 1] = [cmd |-> c, says |-> says]
        BY <1>2, <1>4, AppendFacts
  <2>2. CASE i \in 1..Len(toCli)
        BY <1>1, <2>1, <2>2 DEF Replies
  <2>3. CASE i = Len(toCli) + 1
        BY <1>1, <1>4, <2>1, <2>3
  <2>4. QED
        BY <2>1, <2>2, <2>3
<1>5. QED
      BY <1>3, <1>4 DEF Reply

LEMMA RepliesFall ==
    ASSUME TypeOK, Next, ~Known, ~Refused,
           ~ \E c \in Commands, r \in Responses : Finish(c, r)
    PROVE  Replies' \subseteq Replies
<1>1. toCli \in Seq(Answered)
      BY DEF TypeOK, WireTypes
<1>2. CASE Response
  <2>1. /\ Len(toCli) \in Nat /\ Len(toCli') = Len(toCli) - 1
        /\ \A i \in 1..Len(toCli') : toCli'[i] = toCli[i + 1]
        BY <1>1, <1>2, TailFacts DEF Response
  <2>2. \A i \in 1..Len(toCli') : i + 1 \in 1..Len(toCli)
        BY <2>1
  <2>3. QED
        BY <2>1, <2>2 DEF Replies
<1>3. CASE toCli' = <<>>
      BY <1>3, EmptyFacts DEF Replies
<1>4. CASE toCli' = toCli
      BY <1>4 DEF Replies
<1>5. QED
      BY <1>2, <1>3, <1>4
      DEF Next, Request, RequestTimeout, Disconnected, Reconnect, GiveUp, WorkerExecutes, WorkerDrops,
          Supervisor, Admit, Acknowledge, UpdateRestart, Stop, StopAfterAppend, StopInAppend, Stopped,
          Restart, wire

LEMMA RepliesOnWire == ASSUME ConnInv, NEW m \in Replies PROVE conn # 0
    BY EmptyFacts DEF ConnInv, Replies

LEMMA ReplyTypesOf ==
    ASSUME TypeOK, NEW m \in Replies PROVE m.cmd \in Commands /\ m.says \in Responses \cup {"uncertain", "rejected"}
<1>1. \A i \in 1..Len(toCli) : toCli[i] \in Answered
      BY ElementFacts DEF TypeOK, WireTypes
<1>2. QED
      BY <1>1 DEF Replies, Answered

LEMMA AnswersStayTrue ==
    ASSUME TypeOK, ConnInv, LinesInv, UnsentInv, ReplyInv, Next, NEW m \in Replies
    PROVE  TrueAnswer(m)'
<1>1. m.cmd \in Commands /\ conn # 0 /\ req[m.cmd] # "unsent"
      BY ReplyTypesOf, RepliesOnWire DEF UnsentInv
<1>2. TrueAnswer(m)
      BY DEF ReplyInv
<1>3. QED
      BY <1>1, <1>2, NoLineStays, EffectsStay DEF TrueAnswer

LEMMA ReplyPreserved ==
    ASSUME TypeOK, ConnInv, LinesInv, FlightInv, UnsentInv, ReplyInv, JournalInv, Next PROVE ReplyInv'
<1>1. ASSUME NEW to, NEW c \in Commands, NEW says \in Responses \cup {"uncertain", "rejected"},
             Reply(to, c, says),
             (linked /\ to = conn) => NoLine(c)' /\ ((says = "ok") => (effect'[c] > 0))
                                      /\ ((says = "rejected") => Untouched(c)')
      PROVE  ReplyInv'
  <2>1. ASSUME NEW m \in Replies' PROVE TrueAnswer(m)'
    <3>1. CASE m \in Replies
          BY <3>1, AnswersStayTrue
    <3>2. CASE linked /\ to = conn /\ m.cmd = c /\ m.says = says
          BY <1>1, <3>2 DEF TrueAnswer
    <3>3. QED
          BY <1>1, <3>1, <3>2, ReplyAdds
  <2>2. QED
        BY <2>1 DEF ReplyInv
<1>2. CASE Known \/ Refused
  <2>1. /\ up /\ toSup # <<>> /\ Head(toSup).type = "command" /\ toSup' = Tail(toSup)
        /\ UNCHANGED worker
        BY <1>2 DEF Known, Refused, Line
  <2>2. PICK c \in Commands : c = Head(toSup).cmd
        BY <2>1, NextLine
  <2>3. PICK to : to = Head(toSup).conn
        OBVIOUS
  <2>4. (to = conn) => NoLine(c)'
        BY <2>1, <2>2, <2>3, LastCopy
  <2>5. CASE Known
    <3>1. PICK says : says = IF entries[c] = "pending" THEN "uncertain" ELSE entries[c]
          OBVIOUS
    <3>2. entries[c] \in Statuses /\ entries[c] # "absent"
          BY <2>2, <2>5 DEF Known, TypeOK, JournalTypes
    <3>3. says \in Responses \cup {"uncertain", "rejected"} /\ says # "rejected" /\ (says = "ok" => entries[c] = "ok")
          BY <3>1, <3>2 DEF Statuses, Responses
    <3>4. (says = "ok") => (effect'[c] > 0)
          BY <2>1, <3>3 DEF JournalInv, Book, worker
    <3>5. Reply(to, c, says)
          BY <2>2, <2>3, <2>5, <3>1 DEF Known
    <3>6. QED
          BY <1>1, <2>4, <3>3, <3>4, <3>5
  <2>6. CASE Refused
    <3>1. entries[c] = "absent" /\ Waits(1, c) /\ 1 \in Places
          BY <2>1, <2>2, <2>6, NextLine DEF Refused, Waits
    <3>2. Untouched(c)
          BY <2>1, <3>1 DEF JournalInv, Book, NoLine
    <3>3. Untouched(c)'
          BY <2>1, <3>2 DEF Untouched, worker
    <3>4. Reply(to, c, "rejected")
          BY <2>2, <2>3, <2>6 DEF Refused
    <3>5. QED
          BY <1>1, <2>4, <3>3, <3>4
  <2>7. QED
        BY <1>2, <2>5, <2>6
<1>3. ASSUME NEW c \in Commands, NEW r \in Responses, Finish(c, r) PROVE ReplyInv'
  <2>1. flight[c] # 0 /\ ((r = "ok") => (effect[c] > 0)) /\ UNCHANGED <<toSup, worker>>
        BY <1>3 DEF Finish
  <2>2. PICK to : to = flight[c]
        OBVIOUS
  <2>3. PICK says \in Responses : Reply(to, c, says) /\ (says = r \/ says = "failed")
        BY <1>3, <2>2 DEF Finish, Responses
  <2>4. (to = conn) => NoLine(c)'
        BY <2>1, <2>2 DEF FlightInv, NoLine, Places, Waits
  <2>5. (says = "ok") => (effect'[c] > 0)
        BY <2>1, <2>3 DEF worker
  <2>6. says # "rejected"
        BY DEF Responses
  <2>7. QED
        BY <1>1, <2>3, <2>4, <2>5, <2>6
<1>4. CASE /\ ~Known /\ ~Refused
           /\ ~ \E c \in Commands, r \in Responses : Finish(c, r)
      BY <1>4, RepliesFall, AnswersStayTrue DEF ReplyInv
<1>5. QED
      BY <1>2, <1>3, <1>4

LEMMA UnsentPreserved ==
    ASSUME TypeOK, ConnInv, LinesInv, UnsentInv, Next PROVE UnsentInv'
<1>1. Forward
      BY RequestsForward
<1>2. ASSUME NEW m \in Replies' PROVE req'[m.cmd] # "unsent"
  <2>1. CASE m \in Replies
        BY <1>1, <2>1, ReplyTypesOf DEF Forward, UnsentInv
  <2>2. CASE Known \/ Refused
    <3>1. /\ toSup # <<>>
          /\ \E says \in Responses \cup {"uncertain", "rejected"} :
                Reply(Head(toSup).conn, Head(toSup).cmd, says)
      <4>1. CASE Refused
            BY <4>1 DEF Refused, Line
      <4>2. CASE Known
        <5>1. toSup # <<>> /\ entries[Head(toSup).cmd] # "absent"
              BY <4>2 DEF Known, Line
        <5>2. entries[Head(toSup).cmd] \in Statuses
              BY <5>1, NextLine DEF TypeOK, JournalTypes
        <5>3. QED
              BY <4>2, <5>1, <5>2 DEF Known, Statuses
      <4>3. QED
            BY <2>2, <4>1, <4>2
    <3>2. PICK c \in Commands : c = Head(toSup).cmd
          BY <3>1, NextLine
    <3>3. req[c] # "unsent"
          BY <3>1, <3>2, NextLine DEF LinesInv
    <3>4. m \in Replies \/ m.cmd = c
          BY <3>1, <3>2, ReplyAdds
    <3>5. QED
          BY <1>1, <2>1, <3>3, <3>4 DEF Forward
  <2>3. ASSUME NEW c \in Commands, NEW r \in Responses, Finish(c, r) PROVE req'[m.cmd] # "unsent"
    <3>1. flight[c] # 0 /\ \E says \in Responses : Reply(flight[c], c, says)
          BY <2>3 DEF Finish, Responses
    <3>2. req[c] # "unsent"
          BY <3>1 DEF UnsentInv
    <3>3. m \in Replies \/ m.cmd = c
          BY <3>1, ReplyAdds
    <3>4. QED
          BY <1>1, <2>1, <3>2, <3>3 DEF Forward
  <2>4. QED
        BY <2>1, <2>2, <2>3, RepliesFall
<1>3. ASSUME NEW c \in Commands, req'[c] = "unsent" PROVE Untouched(c)' /\ flight'[c] = 0
  <2>1. req[c] = "unsent" /\ Untouched(c) /\ flight[c] = 0 /\ NoLine(c)
        BY <1>1, <1>3 DEF Forward, UnsentInv, LinesInv, NoLine, Waits
  <2>2. Untouched(c)'
        BY <2>1, EffectsStay
  <2>3. CASE Admit
    <3>1. toSup # <<>> /\ Head(toSup).type = "command"
          BY <2>3 DEF Admit, Line
    <3>2. Head(toSup).cmd # c
          BY <2>1, <3>1, NextLine DEF NoLine, Waits
    <3>3. QED
          BY <2>1, <2>2, <2>3, <3>2 DEF Admit
  <2>4. CASE ~Admit
    <3>1. flight \in [Commands -> Nat]
          BY DEF TypeOK, ProcessTypes
    <3>2. \/ UNCHANGED flight
          \/ \E d \in Commands : flight' = [flight EXCEPT ![d] = 0]
          \/ flight' = [d \in Commands |-> 0]
          BY <2>4 DEF Next, Request, RequestTimeout, Response, Disconnected, Reconnect, GiveUp,
             WorkerExecutes, WorkerDrops, Finish, Supervisor, Known, Refused, Acknowledge,
             UpdateRestart, Stop, StopAfterAppend, StopInAppend, Stopped, Restart
    <3>3. QED
          BY <2>1, <2>2, <3>1, <3>2
  <2>5. QED
        BY <2>3, <2>4
<1>4. QED
      BY <1>2, <1>3 DEF UnsentInv

LEMMA RejectedPreserved ==
    ASSUME TypeOK, ConnInv, LinesInv, ReplyInv, RejectedInv, Next PROVE RejectedInv'
<1>1. ASSUME NEW c \in Commands, req'[c] = "rejected" PROVE NoLine(c)' /\ Untouched(c)'
  <2>1. CASE req[c] = "rejected"
        BY <2>1, NoLineStays, EffectsStay DEF RejectedInv
  <2>2. CASE req[c] # "rejected"
    <3>1. Response /\ c = Head(toCli).cmd /\ Head(toCli).says = "rejected" /\ req[c] = "sent"
      <4>1. req \in [Commands -> {"unsent"} \cup Pending \cup Outcomes]
            BY DEF TypeOK, ClientTypes
      <4>2. CASE Response
            BY <1>1, <2>2, <4>1, <4>2 DEF Response
      <4>3. CASE ~Response
            BY <1>1, <2>2, <4>1, <4>3
            DEF Next, Request, RequestTimeout, Disconnected, Reconnect, GiveUp, WorkerExecutes,
                WorkerDrops, Finish, Supervisor, Known, Refused, Admit, Acknowledge, UpdateRestart,
                Stop, StopAfterAppend, StopInAppend, Stopped, Restart, client
      <4>4. QED
            BY <4>2, <4>3
    <3>2. Head(toCli) \in Replies /\ conn # 0
      <4>1. toCli \in Seq(Answered) /\ toCli # <<>> /\ conn # 0
            BY <3>1 DEF Response, TypeOK, WireTypes
      <4>2. Head(toCli) = toCli[1] /\ Len(toCli) \in Nat /\ Len(toCli) >= 1
            BY <4>1, TailFacts
      <4>3. QED
            BY <4>1, <4>2 DEF Replies
    <3>3. NoLine(c) /\ Untouched(c)
          BY <3>1, <3>2 DEF ReplyInv, TrueAnswer
    <3>4. QED
          BY <3>1, <3>2, <3>3, NoLineStays, EffectsStay
  <2>3. QED
        BY <2>1, <2>2
<1>2. QED
      BY <1>1 DEF RejectedInv

LEMMA FlightPreserved ==
    ASSUME TypeOK, ConnInv, LinesInv, UnsentInv, FlightInv, Next PROVE FlightInv'
<1>1. ASSUME NEW c \in Commands, flight'[c] # 0, flight'[c] = conn' PROVE NoLine(c)'
  <2>1. conn \in Nat /\ conns \in Nat /\ flight \in [Commands -> Nat]
        BY DEF TypeOK, ClientTypes, ProcessTypes
  <2>2. CASE flight'[c] = flight[c] /\ conn' = conn
    <3>1. NoLine(c) /\ req[c] # "unsent" /\ conn # 0
          BY <1>1, <2>2 DEF FlightInv, UnsentInv
    <3>2. QED
          BY <3>1, NoLineStays
  <2>3. CASE Admit
    <3>1. toSup # <<>> /\ Head(toSup).type = "command" /\ toSup' = Tail(toSup) /\ conn' = conn
          BY <2>3 DEF Admit, Line, client
    <3>2. CASE c = Head(toSup).cmd
      <4>1. flight'[c] = Head(toSup).conn
            BY <2>1, <2>3, <3>2 DEF Admit
      <4>2. QED
            BY <1>1, <3>1, <3>2, <4>1, LastCopy
    <3>3. CASE c # Head(toSup).cmd
          BY <2>1, <2>2, <2>3, <3>1, <3>3 DEF Admit
    <3>4. QED
          BY <3>2, <3>3
  <2>4. CASE Reconnect
        BY <1>1, <2>1, <2>4 DEF Reconnect, ConnInv
  <2>5. CASE Disconnected
        BY <1>1, <2>5 DEF Disconnected
  <2>6. CASE ~Admit /\ ~Reconnect /\ ~Disconnected
    <3>1. /\ conn' = conn
          /\ \/ UNCHANGED flight
             \/ \E d \in Commands : flight' = [flight EXCEPT ![d] = 0]
             \/ flight' = [d \in Commands |-> 0]
          BY <2>6 DEF Next, Request, RequestTimeout, Response, GiveUp,
             WorkerExecutes, WorkerDrops, Finish, Supervisor, Known, Refused, Acknowledge,
             UpdateRestart, Stop, StopAfterAppend, StopInAppend, Stopped, Restart, client
    <3>2. QED
          BY <1>1, <2>1, <2>2, <3>1
  <2>7. QED
        BY <2>3, <2>4, <2>5, <2>6
<1>2. QED
      BY <1>1 DEF FlightInv

-----------------------------------------------------------------------------
(* The journal and its file. *)

\* With the file whole, what is written is what is known.
LEMMA WriteKeepsFile ==
    ASSUME JournalTypes, unended = Ended, disk = entries,
           NEW r \in Entries, NEW es, es = [entries EXCEPT ![r.key] = r.says],
           (r.says \in Responses) => (entries[r.key] # "absent"),
           NEW compacts, Write(r, es, compacts)
    PROVE  unended' = Ended /\ disk' = entries'
<1>1. entries' = es /\ (Compact(es) \/ FileAppend(r))
      BY DEF Write
<1>2. CASE Compact(es)
      BY <1>1, <1>2 DEF Compact
<1>3. CASE FileAppend(r)
  <2>1. Load(disk[r.key], r) = r.says
        BY DEF Load
  <2>2. QED
        BY <1>1, <1>3, <2>1 DEF FileAppend
<1>4. QED
      BY <1>1, <1>2, <1>3

\* What the supervisor writes about, and under which conditions.
Writes(r) ==
    /\ r \in Entries /\ up
    /\ (r.says = "pending") =>
           entries[r.key] = "absent" /\ Waits(1, r.key) /\ toSup # <<>>
    /\ (r.says = "absent") =>
           toSup # <<>> /\ Head(toSup).type = "ack_result" /\ Head(toSup).cmd = r.key
    /\ (r.says \in Responses) => (entries[r.key] # "absent")
    /\ (r.says = "ok") => (effect[r.key] > 0)

LEMMA StopsWrite == ASSUME TypeOK, up, NEW r \in Appending PROVE Writes(r)
<1>1. r \in Entries
      BY AppendingTypes
<1>2. CASE \E c \in Commands : /\ Line("command") /\ Head(toSup).cmd = c /\ entries[c] = "absent"
                               /\ r = Received(c)
  <2>1. PICK c \in Commands : /\ Line("command") /\ Head(toSup).cmd = c /\ entries[c] = "absent"
                              /\ r = Received(c)
        BY <1>2
  <2>2. r.key = c /\ r.says = "pending"
        BY <2>1 DEF Received
  <2>3. Waits(1, c) /\ toSup # <<>>
        BY <2>1, NextLine DEF Line, Waits
  <2>4. QED
        BY <1>1, <2>1, <2>2, <2>3 DEF Writes, Responses
<1>3. CASE \E c \in Commands : Line("ack_result") /\ Head(toSup).cmd = c /\ r = Acknowledged(c)
      BY <1>1, <1>3 DEF Acknowledged, Line, Writes, Responses
<1>4. CASE \E c \in Commands : entries[c] # "absent" /\ r = Result(c, "failed")
      BY <1>1, <1>4 DEF Result, Writes, Responses
<1>5. CASE \E c \in Commands : entries[c] # "absent" /\ effect[c] > 0 /\ r = Result(c, "ok")
      BY <1>1, <1>5 DEF Result, Writes, Responses
<1>6. QED
      BY <1>2, <1>3, <1>4, <1>5 DEF Appending

\* A step that changes what the journal knows writes one entry.
Enters(r) == /\ Writes(r)
             /\ Book' = [Book EXCEPT ![r.key] = r.says]
             /\ (r.says = "absent") => NoLine(r.key)'

LEMMA HandlerEnters ==
    ASSUME TypeOK, ConnInv, LinesInv, FileInv,
           \/ Admit \/ Acknowledge \/ \E c \in Commands, r \in Responses : Finish(c, r)
    PROVE  /\ FileInv'
           /\ Book' = Book \/ \E r \in Entries : Enters(r)
<1>1. up /\ up' = up /\ crashes' = crashes
      BY DEF Admit, Acknowledge, Finish, Line, process
<1>2. ASSUME NEW r \in Entries, Writes(r), NEW es, es = [entries EXCEPT ![r.key] = r.says],
             NEW compacts, Write(r, es, compacts), (r.says = "absent") => NoLine(r.key)'
      PROVE  FileInv' /\ Enters(r)
  <2>1. entries' = es
        BY <1>2 DEF Write
  <2>2. Book' = [Book EXCEPT ![r.key] = r.says]
        BY <1>1, <1>2, <2>1 DEF Book
  <2>3. FileInv'
        BY <1>1, <1>2, WriteKeepsFile DEF FileInv, TypeOK, Writes
  <2>4. QED
        BY <1>2, <2>2, <2>3 DEF Enters
<1>3. ASSUME UNCHANGED <<journal, file>> PROVE FileInv' /\ Book' = Book
      BY <1>1, <1>3 DEF FileInv, Book, journal, file
<1>4. CASE Admit
  <2>1. toSup # <<>> /\ Head(toSup).type = "command"
        BY <1>4 DEF Admit, Line
  <2>2. PICK c \in Commands : c = Head(toSup).cmd
        BY <2>1, NextLine
  <2>3. PICK r : r = Received(c)
        OBVIOUS
  <2>4. r \in Entries /\ r.key = c /\ r.says = "pending"
        BY <2>3 DEF Received, Entries
  <2>5. Writes(r)
        BY <1>1, <1>4, <2>1, <2>2, <2>4, NextLine DEF Admit, Writes, Waits, Responses
  <2>6. PICK es : es = [entries EXCEPT ![c] = "pending"]
        OBVIOUS
  <2>7. Write(r, es, FALSE)
        BY <1>4, <2>2, <2>3, <2>6 DEF Admit, begin
  <2>8. QED
        BY <1>2, <2>4, <2>5, <2>6, <2>7
<1>5. CASE Acknowledge
  <2>1. toSup # <<>> /\ Head(toSup).type = "ack_result" /\ toSup' = Tail(toSup)
        BY <1>5 DEF Acknowledge, Line
  <2>2. PICK c \in Commands : c = Head(toSup).cmd
        BY <2>1, NextLine
  <2>3. CASE entries[c] = "absent"
        BY <1>3, <1>5, <2>2, <2>3 DEF Acknowledge, acknowledge
  <2>4. CASE entries[c] # "absent"
    <3>1. PICK r : r = Acknowledged(c)
          OBVIOUS
    <3>2. r \in Entries /\ r.key = c /\ r.says = "absent"
          BY <3>1 DEF Acknowledged, Entries
    <3>3. Writes(r)
          BY <1>1, <2>1, <2>2, <3>2 DEF Writes, Responses
    <3>4. NoLine(c)'
          BY <2>1, <2>2, LastCopy
    <3>5. PICK es : es = [entries EXCEPT ![c] = "absent"]
          OBVIOUS
    <3>6. PICK compacts : compacts = (es = Absent)
          OBVIOUS
    <3>7. Write(r, es, compacts)
          BY <1>5, <2>2, <2>4, <3>1, <3>5, <3>6 DEF Acknowledge, acknowledge
    <3>8. QED
          BY <1>2, <3>2, <3>3, <3>4, <3>5, <3>7
  <2>5. QED
        BY <2>3, <2>4
<1>6. ASSUME NEW c \in Commands, NEW s \in Responses, Finish(c, s)
      PROVE  FileInv' /\ (Book' = Book \/ \E r \in Entries : Enters(r))
  <2>1. CASE entries[c] = "absent"
        BY <1>3, <1>6, <2>1 DEF Finish
  <2>2. CASE entries[c] # "absent"
    <3>1. PICK r : r = Result(c, s)
          OBVIOUS
    <3>2. r \in Entries /\ r.key = c /\ r.says = s /\ s # "absent" /\ s # "pending"
          BY <3>1 DEF Result, Entries, Responses
    <3>3. Writes(r)
          BY <1>1, <1>6, <2>2, <3>2 DEF Finish, Writes
    <3>4. PICK es : es = [entries EXCEPT ![c] = s]
          OBVIOUS
    <3>5. Write(r, es, FALSE)
          BY <1>6, <2>2, <3>1, <3>4 DEF Finish, recordResult
    <3>6. QED
          BY <1>2, <3>2, <3>3, <3>4, <3>5
  <2>3. QED
        BY <2>1, <2>2
<1>7. QED
      BY <1>4, <1>5, <1>6

\* A stop, in or out of an append.
LEMMA StopEnters ==
    ASSUME TornLast, TypeOK, FileInv, Stop \/ StopAfterAppend \/ StopInAppend
    PROVE  /\ FileInv'
           /\ Book' = Book \/ \E r \in Entries : Enters(r)
<1>1. /\ up /\ ~up' /\ crashes < MaxCrashes /\ crashes' = crashes + 1 /\ toSup' = <<>>
      BY DEF Stop, StopAfterAppend, StopInAppend, Stopped
<1>2. unended = Ended /\ disk = entries /\ Book = disk /\ Book' = disk'
      BY <1>1 DEF FileInv, Book
<1>3. \A c \in Commands : NoLine(c)'
      BY <1>1, EmptyFacts DEF NoLine, Places
<1>4. ASSUME NEW r \in Appending, disk' = [disk EXCEPT ![r.key] = Load(disk[r.key], r)]
      PROVE  \E e \in Entries : Enters(e)
  <2>1. Writes(r) /\ r \in Entries /\ r.key \in Commands
        BY <1>1, StopsWrite, AppendingTypes DEF Entries
  <2>2. Load(disk[r.key], r) = r.says
        BY <1>2, <2>1 DEF Load, Writes
  <2>3. QED
        BY <1>2, <1>3, <1>4, <2>1, <2>2 DEF Enters
<1>5. CASE Stop
      BY <1>1, <1>2, <1>5 DEF Stop, file, FileInv
<1>6. CASE StopAfterAppend
  <2>1. PICK r \in Appending : FileAppend(r)
        BY <1>6 DEF StopAfterAppend
  <2>2. disk' = [disk EXCEPT ![r.key] = Load(disk[r.key], r)] /\ unended' = Ended
        BY <1>2, <2>1 DEF FileAppend
  <2>3. QED
        BY <1>1, <1>4, <2>2 DEF FileInv
<1>7. CASE StopInAppend
  <2>1. crashes' = MaxCrashes
        BY <1>7 DEF StopInAppend, TornLast
  <2>2. FileInv'
        BY <2>1, BoundsAssumption DEF FileInv
  <2>3. PICK r \in Appending, whole \in BOOLEAN : FileCut(r, whole)
        BY <1>7 DEF StopInAppend
  <2>4. CASE whole
    <3>1. disk' = [disk EXCEPT ![r.key] = Load(disk[r.key], r)]
          BY <1>2, <2>3, <2>4 DEF FileCut
    <3>2. QED
          BY <1>4, <2>2, <3>1
  <2>5. CASE ~whole
    <3>1. disk' = disk
          BY <1>2, <2>3, <2>5 DEF FileCut, Shortened
    <3>2. QED
          BY <1>2, <2>2, <3>1
  <2>6. QED
        BY <2>4, <2>5
<1>8. QED
      BY <1>5, <1>6, <1>7

LEMMA FileStep ==
    ASSUME TornLast, TypeOK, ConnInv, LinesInv, FileInv, Next
    PROVE  /\ FileInv'
           /\ Book' = Book \/ \E r \in Entries : Enters(r)
<1>1. CASE Restart
      BY <1>1 DEF Restart, FileInv, Book, file
<1>2. CASE \/ \E c \in Commands : Request(c) \/ RequestTimeout(c) \/ WorkerExecutes(c) \/ WorkerDrops(c)
           \/ Response \/ Disconnected \/ Reconnect \/ GiveUp \/ Known \/ Refused
  <2>1. UNCHANGED <<process, journal, file>>
        BY <1>2 DEF Request, RequestTimeout, WorkerExecutes, WorkerDrops, Response, Disconnected,
                    Reconnect, GiveUp, Known, Refused
  <2>2. QED
        BY <2>1 DEF FileInv, Book, process, journal, file
<1>3. CASE UpdateRestart
      BY <1>3 DEF UpdateRestart, FileInv, Book, journal, file
<1>4. QED
      BY <1>1, <1>2, <1>3, HandlerEnters, StopEnters DEF Next, Supervisor

\* Only an admission dispatches, and it makes an entry.
LEMMA JournalPreserved ==
    ASSUME TornLast, TypeOK, ConnInv, LinesInv, UnsentInv, FileInv, JournalInv, Next PROVE JournalInv'
<1>1. Forward /\ (Book' = Book \/ \E r \in Entries : Enters(r)) /\ Book \in [Commands -> Statuses]
      BY RequestsForward, FileStep DEF Book, TypeOK, JournalTypes
<1>2. ASSUME NEW c \in Commands, Book'[c] = "ok" PROVE effect'[c] > 0
  <2>1. Book[c] = "ok" \/ effect[c] > 0
        BY <1>1, <1>2 DEF Enters, Writes
  <2>2. QED
        BY <2>1, EffectsStay DEF JournalInv
<1>3. ASSUME NEW c \in Commands, Book'[c] = "absent" PROVE (Untouched(c) \/ (Settled(c) /\ NoLine(c)))'
  <2>1. CASE Book[c] = "absent" /\ Settled(c) /\ NoLine(c)
    <3>1. req[c] # "unsent" /\ req[c] # "awaitingReconnect"
          BY <2>1 DEF Settled, Outcomes
    <3>2. QED
          BY <1>1, <2>1, <3>1, NoLineStays DEF Forward
  <2>2. CASE Book[c] = "absent" /\ Untouched(c)
    <3>1. CASE Admit
      <4>1. up /\ up' /\ toSup # <<>> /\ entries' = [entries EXCEPT ![Head(toSup).cmd] = "pending"]
            BY <3>1 DEF Admit, Line, begin, Write, process
      <4>2. Head(toSup).cmd # c
            BY <1>3, <4>1 DEF Book, TypeOK, JournalTypes
      <4>3. effect' = effect /\ work' = [work EXCEPT ![Head(toSup).cmd] = @ + 1]
            BY <3>1 DEF Admit
      <4>4. QED
            BY <2>2, <4>2, <4>3 DEF Untouched, TypeOK, ProcessTypes
    <3>2. CASE ~Admit
      <4>1. work \in [Commands -> Nat] /\ effect \in [Commands -> Nat]
            BY DEF TypeOK, ProcessTypes
      <4>2. \/ UNCHANGED worker
            \/ \E d \in Commands : WorkerExecutes(d) \/ WorkerDrops(d)
            BY <3>2 DEF Next, Request, RequestTimeout, Response, Disconnected, Reconnect, GiveUp, Finish,
               Supervisor, Known, Refused, Acknowledge, UpdateRestart, Stop, StopAfterAppend,
               StopInAppend, Stopped, Restart
      <4>3. QED
            BY <2>2, <4>1, <4>2 DEF WorkerExecutes, WorkerDrops, Untouched, worker
    <3>3. QED
          BY <3>1, <3>2
  <2>3. CASE Book[c] # "absent"
    <3>1. PICK r \in Entries : Enters(r)
          BY <1>1, <1>3, <2>3
    <3>2. r.key = c /\ r.says = "absent"
          BY <1>1, <1>3, <2>3, <3>1 DEF Enters
    <3>3. toSup # <<>> /\ Head(toSup).type = "ack_result" /\ Head(toSup).cmd = c /\ NoLine(c)'
          BY <3>1, <3>2 DEF Enters, Writes
    <3>4. Settled(c)
          BY <3>3, NextLine DEF LinesInv, AckIsLast
    <3>5. QED
          BY <1>1, <3>3, <3>4 DEF Forward
  <2>4. QED
        BY <2>1, <2>2, <2>3 DEF JournalInv
<1>4. QED
      BY <1>2, <1>3 DEF JournalInv

LEMMA OncePreserved ==
    ASSUME TypeOK, JournalInv, AtMostOnce, Next PROVE AtMostOnce'
<1>1. work \in [Commands -> Nat] /\ effect \in [Commands -> Nat]
      BY DEF TypeOK, ProcessTypes
<1>2. ASSUME NEW c \in Commands, WorkerExecutes(c) \/ WorkerDrops(c) PROVE AtMostOnce'
      BY <1>1, <1>2 DEF WorkerExecutes, WorkerDrops, AtMostOnce
<1>3. CASE Admit
  <2>1. up /\ toSup # <<>> /\ Head(toSup).type = "command" /\ entries[Head(toSup).cmd] = "absent"
        BY <1>3 DEF Admit, Line
  <2>2. PICK c \in Commands : c = Head(toSup).cmd
        BY <2>1, NextLine
  <2>3. ~NoLine(c)
        BY <2>1, <2>2, NextLine DEF NoLine, Waits
  <2>4. effect[c] = 0 /\ work[c] = 0
        BY <2>1, <2>2, <2>3 DEF JournalInv, Book, Untouched
  <2>5. effect' = effect /\ work' = [work EXCEPT ![c] = @ + 1]
        BY <1>3, <2>2 DEF Admit
  <2>6. QED
        BY <1>1, <2>4, <2>5 DEF AtMostOnce
<1>4. ASSUME UNCHANGED worker PROVE AtMostOnce'
      BY <1>4 DEF worker, AtMostOnce
<1>5. QED
      BY <1>2, <1>3, <1>4
      DEF Next, Request, RequestTimeout, Response, Disconnected, Reconnect, GiveUp, Finish, Supervisor,
          Known, Refused, Acknowledge, UpdateRestart, Stop, StopAfterAppend, StopInAppend, Stopped, Restart

-----------------------------------------------------------------------------
(* The invariant. *)

LEMMA Initially == Init => IInv
<1>1. ASSUME Init PROVE IInv
  <2>1. TypeOK
        BY <1>1, TypeInitially
  <2>2. Len(toSup) = 0 /\ Len(toCli) = 0 /\ toSup = <<>> /\ toCli = <<>>
        BY <1>1, EmptyFacts DEF Init
  <2>3. Places = {} /\ Replies = {}
        BY <2>2 DEF Places, Replies
  <2>4. LinesInv /\ ReplyInv /\ \A c \in Commands : NoLine(c)
        BY <2>3 DEF LinesInv, CopiesAscend, AckIsLast, ReplyInv, NoLine
  <2>5. \A c \in Commands : Untouched(c) /\ flight[c] = 0 /\ req[c] = "unsent"
        BY <1>1 DEF Init, Untouched
  <2>6. ConnInv
        BY <1>1, <2>2, <2>5 DEF Init, ConnInv
  <2>7. UnsentInv /\ RejectedInv /\ FlightInv
        BY <2>3, <2>5 DEF UnsentInv, RejectedInv, FlightInv
  <2>8. JournalInv
        BY <1>1, <2>5 DEF Init, JournalInv, Book, Absent
  <2>9. FileInv /\ AtMostOnce
        BY <1>1 DEF Init, FileInv, AtMostOnce
  <2>10. QED
        BY <2>1, <2>4, <2>6, <2>7, <2>8, <2>9 DEF IInv
<1>2. QED
      BY <1>1

LEMMA Preserved == ASSUME TornLast, IInv, [Next]_vars PROVE IInv'
<1>1. CASE Next
      BY <1>1, TypePreserved, ConnPreserved, LinesPreserved, FlightPreserved, ReplyPreserved, RejectedPreserved,
         UnsentPreserved, JournalPreserved, FileStep, OncePreserved DEF IInv
<1>2. CASE UNCHANGED vars
  <2>1. TypeOK'
        BY <1>2, TypePreserved DEF IInv
  <2>2. UNCHANGED <<Places, Replies, Book>> /\ UNCHANGED <<req, conn, conns, linked, toSup, toCli>>
        BY <1>2 DEF vars, client, wire, process, journal, file, Places, Replies, Book
  <2>3. UNCHANGED <<up, crashes, entries, disk, unended, flight, work, effect>>
        BY <1>2 DEF vars, process, journal, file, worker
  <2>4. \A c \in Commands : /\ NoLine(c)' = NoLine(c) /\ Untouched(c)' = Untouched(c)
                            /\ Settled(c)' = Settled(c)
        BY <2>2, <2>3 DEF NoLine, Waits, Untouched, Settled
  <2>5. ConnInv' /\ FileInv' /\ AtMostOnce'
        BY <2>2, <2>3 DEF IInv, ConnInv, FileInv, AtMostOnce
  <2>6. LinesInv'
        BY <2>2, <2>3 DEF IInv, LinesInv, CopiesAscend, AckIsLast, Waits, Settled
  <2>7. FlightInv' /\ RejectedInv' /\ UnsentInv' /\ JournalInv'
        BY <2>2, <2>3, <2>4 DEF IInv, FlightInv, RejectedInv, UnsentInv, JournalInv
  <2>8. ReplyInv'
        BY <2>2, <2>3 DEF IInv, ReplyInv, TrueAnswer, NoLine, Waits, Untouched
  <2>9. QED
        BY <2>1, <2>5, <2>6, <2>7, <2>8 DEF IInv
<1>3. QED
      BY <1>1, <1>2

\* A command runs at most once, and none is dispatched a second time.
THEOREM RunsAtMostOnce == ASSUME TornLast PROVE Spec => []AtMostOnce
<1>1. IInv /\ [Next]_vars => IInv'
      BY Preserved
<1>2. IInv => AtMostOnce
      BY DEF IInv
<1>3. QED
      BY <1>1, <1>2, Initially, PTL DEF Spec

-----------------------------------------------------------------------------
(* The whole implements the service. *)

Outcome == [c \in Commands |-> IF req[c] \in Pending THEN "open" ELSE req[c]]

LEMMA ServiceInitially == Init => Service!Init
    BY DEF Init, Service!Init, Pending

\* A step that leaves requests pending or as they were, and executes nothing.
LEMMA Stutters ==
    ASSUME UNCHANGED effect,
           \A c \in Commands : req'[c] = req[c] \/ (req[c] \in Pending /\ req'[c] \in Pending)
    PROVE  UNCHANGED Service!svars
<1>1. Outcome' = Outcome
      BY DEF Outcome
<1>2. QED
      BY <1>1 DEF Outcome, Service!svars

\* An answer is true when it is read.
LEMMA AnswerSteps ==
    ASSUME IInv, Response PROVE [Service!Next]_Service!svars
<1>1. toCli \in Seq(Answered) /\ toCli # <<>> /\ UNCHANGED effect
      BY DEF Response, IInv, TypeOK, WireTypes, worker
<1>2. Head(toCli) = toCli[1] /\ Len(toCli) \in Nat /\ Len(toCli) >= 1
      BY <1>1, TailFacts
<1>3. Head(toCli) \in Replies
      BY <1>2 DEF Replies
<1>4. PICK c \in Commands, r \in Responses \cup {"uncertain", "rejected"} :
          c = Head(toCli).cmd /\ r = Head(toCli).says
      BY <1>3, ReplyTypesOf DEF IInv
<1>5. CASE req[c] # "sent"
      BY <1>1, <1>4, <1>5, Stutters DEF Response
<1>6. CASE req[c] = "sent"
  <2>1. req' = [req EXCEPT ![c] = r] /\ req \in [Commands -> {"unsent"} \cup Pending \cup Outcomes]
        BY <1>4, <1>6 DEF Response, IInv, TypeOK, ClientTypes
  <2>2. Outcome[c] = "open" /\ r \in Service!Answers /\ r \notin Pending
        BY <1>6 DEF Outcome, Pending, Service!Answers, Responses
  <2>3. Outcome' = [Outcome EXCEPT ![c] = r]
        BY <2>1, <2>2 DEF Outcome
  <2>4. effect[c] \in Nat /\ work[c] \in Nat /\ effect[c] + work[c] <= 1
        BY DEF IInv, TypeOK, ProcessTypes, AtMostOnce
  <2>5. TrueAnswer(Head(toCli))
        BY <1>3 DEF IInv, ReplyInv
  <2>6. ((r = "ok") => (effect[c] = 1)) /\ ((r = "rejected") => (effect[c] = 0))
        BY <1>4, <2>4, <2>5 DEF TrueAnswer, Untouched
  <2>7. Service!Answer(c, r)
        BY <1>1, <2>2, <2>3, <2>6 DEF Service!Answer, Outcome
  <2>8. QED
        BY <2>2, <2>7 DEF Service!Next
<1>7. QED
      BY <1>5, <1>6

LEMMA RunSteps ==
    ASSUME IInv, NEW c \in Commands, WorkerExecutes(c) PROVE Service!Next
<1>1. effect[c] \in Nat /\ work[c] \in Nat /\ effect[c] + work[c] <= 1 /\ work[c] > 0
      BY DEF WorkerExecutes, IInv, TypeOK, ProcessTypes, AtMostOnce
<1>2. effect[c] = 0 /\ req[c] # "unsent" /\ req[c] # "rejected"
      BY <1>1 DEF IInv, UnsentInv, RejectedInv, Untouched
<1>3. Outcome[c] \notin {"unsent", "rejected"}
      BY <1>2 DEF Outcome
<1>4. effect' = [effect EXCEPT ![c] = 1] /\ UNCHANGED req
      BY <1>1, <1>2 DEF WorkerExecutes, IInv, TypeOK, ProcessTypes, client
<1>5. Service!Run(c)
      BY <1>2, <1>3, <1>4 DEF Service!Run, Outcome
<1>6. QED
      BY <1>5 DEF Service!Next

LEMMA ClientSteps ==
    ASSUME IInv, NEW c \in Commands, Request(c) \/ RequestTimeout(c) PROVE Service!Next
<1>1. req \in [Commands -> {"unsent"} \cup Pending \cup Outcomes] /\ UNCHANGED effect
      BY DEF Request, RequestTimeout, IInv, TypeOK, ClientTypes, worker
<1>2. CASE Request(c)
  <2>1. req[c] = "unsent" /\ req' = [req EXCEPT ![c] = "sent"]
        BY <1>2 DEF Request
  <2>2. Outcome[c] = "unsent" /\ Outcome' = [Outcome EXCEPT ![c] = "open"]
        BY <1>1, <2>1 DEF Outcome, Pending
  <2>3. Service!Request(c)
        BY <1>1, <2>2 DEF Service!Request, Outcome
  <2>4. QED
        BY <2>3 DEF Service!Next
<1>3. CASE RequestTimeout(c)
  <2>1. req[c] = "sent" /\ req' = [req EXCEPT ![c] = "abandoned"]
        BY <1>3 DEF RequestTimeout
  <2>2. Outcome[c] = "open" /\ Outcome' = [Outcome EXCEPT ![c] = "abandoned"]
        BY <1>1, <2>1 DEF Outcome, Pending
  <2>3. Service!Answer(c, "abandoned")
        BY <1>1, <2>2 DEF Service!Answer, Outcome
  <2>4. "abandoned" \in Service!Answers
        BY DEF Service!Answers
  <2>5. QED
        BY <2>3, <2>4 DEF Service!Next
<1>4. QED
      BY <1>2, <1>3

LEMMA GiveUpSteps == ASSUME IInv, GiveUp PROVE Service!Next
<1>1. /\ req' = [c \in Commands |-> IF c \in Resent THEN "abandoned" ELSE req[c]]
      /\ UNCHANGED effect
      BY DEF GiveUp, worker
<1>2. PICK S \in SUBSET Commands : S = Resent
      BY DEF Resent
<1>3. /\ \A c \in S : Outcome[c] = "open"
      /\ Outcome' = [c \in Commands |-> IF c \in S THEN "abandoned" ELSE Outcome[c]]
      BY <1>1, <1>2 DEF Resent, Outcome, Pending
<1>4. Service!Abandon(S)
      BY <1>1, <1>3 DEF Service!Abandon, Outcome
<1>5. QED
      BY <1>4 DEF Service!Next

LEMMA ServiceSteps == ASSUME IInv, [Next]_vars PROVE [Service!Next]_Service!svars
<1>1. CASE Disconnected \/ Reconnect
  <2>1. /\ \A c \in Commands : req'[c] = req[c] \/ (req[c] \in Pending /\ req'[c] \in Pending)
        /\ UNCHANGED effect
        BY <1>1 DEF Disconnected, Reconnect, Resent, Pending, worker
  <2>2. QED
        BY <2>1, Stutters
<1>2. CASE \/ \E c \in Commands : WorkerDrops(c)
           \/ \E c \in Commands, r \in Responses : Finish(c, r)
           \/ Supervisor \/ UpdateRestart \/ Stop \/ StopAfterAppend \/ StopInAppend \/ Restart
           \/ UNCHANGED vars
  <2>1. UNCHANGED <<req, effect>>
        BY <1>2 DEF WorkerDrops, Finish, Supervisor, Known, Refused, Admit, Acknowledge, UpdateRestart,
                    Stop, StopAfterAppend, StopInAppend, Stopped, Restart, vars, client, worker
  <2>2. QED
        BY <2>1, Stutters
<1>3. QED
      BY <1>1, <1>2, AnswerSteps, RunSteps, ClientSteps, GiveUpSteps DEF Next

\* Client, supervisor, journal and worker implement the service: at most one
\* execution, success only of what ran, a refusal only of what never runs.
THEOREM ImplementsService == ASSUME TornLast PROVE Spec => ServiceSpec
<1>1. IInv /\ [Next]_vars => IInv'
      BY Preserved
<1>2. IInv /\ [Next]_vars => [Service!Next]_Service!svars
      BY ServiceSteps
<1>3. QED
      BY <1>1, <1>2, Initially, ServiceInitially, PTL DEF Spec, ServiceSpec, Service!Spec
=============================================================================
