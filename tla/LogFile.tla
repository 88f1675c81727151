------------------------------- MODULE LogFile -------------------------------
(***************************************************************************)
(* The log file (log.py): processes that open it, append lines piece by    *)
(* piece, fail to write, and crash within a line; readers beside them.     *)
(*                                                                         *)
(* A line is Pieces pieces, the last with the end of the line.  A write    *)
(* puts one piece, as the operating system may take less than it is given. *)
(* Not modelled: a truncate that fails, and a machine that loses what it   *)
(* was told is written.                                                    *)
(***************************************************************************)
EXTENDS Integers, Sequences, FiniteSets

CONSTANTS
    Event,       \* the events appended
    Process,     \* the processes that open the log
    NoLog,       \* what is held instead of the events of a log
    Pieces,      \* pieces to a line
    MaxLines,    \* bound: lines in the file
    MaxCrashes   \* bound: crashes

ASSUME LogFileAssumption == Pieces \in Nat \ {0} /\ MaxLines \in Nat /\ MaxCrashes \in Nat

VARIABLES
    file,      \* the pieces in the file, each with its event and its number
    held,      \* the processes that hold the file's lock
    events,    \* the events a process's log has, NoLog before it has read them
    writing,   \* the line a process writes: its event, what is written, the size before
    crashes    \* crashes so far

logVars == <<file, held, events, writing, crashes>>

NotWriting == [size |-> 0, written |-> 0, event |-> "none"]

InitLogFile ==
    /\ file = <<>>
    /\ held = {}
    /\ events = [p \in Process |-> NoLog]
    /\ writing = [p \in Process |-> NotWriting]
    /\ crashes = 0

\* The places in the file at which a line ends.
LineEnds(f) == {i \in 1..Len(f) : f[i].piece = Pieces}

\* The file without a last line cut short.
CompleteLines(f) ==
    SubSeq(f, 1, IF LineEnds(f) = {} THEN 0 ELSE CHOOSE i \in LineEnds(f) :
                                                   \A j \in LineEnds(f) : j <= i)

\* The event of the line that ends at i: of all its pieces, and nothing else.
LineAt(f, i) ==
    LET start == i - Pieces
        whole == /\ start >= 0
                 /\ \A j \in 1..Pieces : f[start + j] = [event |-> f[i].event, piece |-> j]
                 /\ start = 0 \/ start \in LineEnds(f)
    IN IF whole THEN f[i].event ELSE "not an event"

\* The events of the complete lines, the n-th of which ends where n lines have.
NthEnd(f, n) == CHOOSE i \in LineEnds(f) : Cardinality({j \in LineEnds(f) : j <= i}) = n
EventsOf(f) == [n \in 1..Cardinality(LineEnds(f)) |-> LineAt(f, NthEnd(f, n))]

-----------------------------------------------------------------------------
\* A process opens the file and takes its lock, or is refused.
Hold(p) ==
    /\ p \notin held
    /\ held = {}
    /\ held' = {p}
    /\ UNCHANGED <<file, events, writing, crashes>>

\* It drops a last line cut short, and has the events of the others.
\* Mutant: the line stays in the file.
Recover_Keeps(p) ==
    /\ p \in held
    /\ events[p] = NoLog
    /\ events' = [events EXCEPT ![p] = EventsOf(CompleteLines(file))]
    /\ UNCHANGED <<file, held, writing, crashes>>
Recover(p) ==
    /\ p \in held
    /\ events[p] = NoLog
    /\ file' = CompleteLines(file)
    /\ events' = [events EXCEPT ![p] = EventsOf(CompleteLines(file))]
    /\ UNCHANGED <<held, writing, crashes>>

\* append: the line is written piece by piece, and then the log has the event.
BeginAppend(p, e) ==
    /\ events[p] # NoLog
    /\ writing[p] = NotWriting
    /\ Cardinality(LineEnds(file)) < MaxLines
    /\ writing' = [writing EXCEPT ![p] = [size |-> Len(file), written |-> 0, event |-> e]]
    /\ UNCHANGED <<file, held, events, crashes>>
WritePiece(p) ==
    /\ writing[p] # NotWriting
    /\ writing[p].written < Pieces
    /\ file' = Append(file, [event |-> writing[p].event, piece |-> writing[p].written + 1])
    /\ writing' = [writing EXCEPT ![p].written = @ + 1]
    /\ UNCHANGED <<held, events, crashes>>
EndAppend(p) ==
    /\ writing[p] # NotWriting
    /\ writing[p].written = Pieces
    /\ events' = [events EXCEPT ![p] = Append(@, writing[p].event)]
    /\ writing' = [writing EXCEPT ![p] = NotWriting]
    /\ UNCHANGED <<file, held, crashes>>

\* A write fails: the file is cut to its size before the line.
WriteFails(p) ==
    /\ writing[p] # NotWriting
    /\ writing[p].written < Pieces
    /\ file' = SubSeq(file, 1, writing[p].size)
    /\ writing' = [writing EXCEPT ![p] = NotWriting]
    /\ UNCHANGED <<held, events, crashes>>

\* The log is closed, or its process ends, and the lock goes with it.
LetsGo(p) ==
    /\ held' = held \ {p}
    /\ events' = [events EXCEPT ![p] = NoLog]
    /\ writing' = [writing EXCEPT ![p] = NotWriting]
    /\ UNCHANGED file
Close(p) ==
    /\ events[p] # NoLog
    /\ writing[p] = NotWriting
    /\ LetsGo(p)
    /\ UNCHANGED crashes
Crash(p) ==
    /\ p \in held
    /\ crashes < MaxCrashes
    /\ crashes' = crashes + 1
    /\ LetsGo(p)

NextLogFile ==
    \E p \in Process :
        \/ Hold(p)
        \/ Recover(p)
        \/ \E e \in Event : BeginAppend(p, e)
        \/ WritePiece(p)
        \/ EndAppend(p)
        \/ WriteFails(p)
        \/ Close(p)
        \/ Crash(p)

SpecLogFile == InitLogFile /\ [][NextLogFile]_logVars

-----------------------------------------------------------------------------
\* What Log.read gives a reader that does not hold the file.
Read == EventsOf(CompleteLines(file))

\* The file implements the log that log.py promises: what any reader finds in it
\* only grows, by whole events of the one process that holds it, and that
\* process has what a reader finds, but for the event it is appending.  No crash
\* within a line, and no write that fails, makes a later event follow a line cut
\* short, or takes an event back.
Log == INSTANCE EventLog WITH log <- Read, holds <- events
ImplementsLog == Log!SpecEventLog

=============================================================================
