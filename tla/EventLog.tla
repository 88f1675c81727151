------------------------------ MODULE EventLog ------------------------------
(***************************************************************************)
(* What a log promises (the docstring of Log in log.py): a sequence that   *)
(* only grows, by whole events of one writer at a time, whatever crashes.  *)
(***************************************************************************)
EXTENDS Sequences

CONSTANTS Event, Process, NoLog

VARIABLES
    log,    \* the events, in the order they were appended
    holds   \* of each process, the events its log has, or NoLog if it has none

InitEventLog ==
    /\ log = <<>>
    /\ holds = [p \in Process |-> NoLog]

\* A process opens the log, which no other has open, and has all events.
OpenLog(p) ==
    /\ \A q \in Process : holds[q] = NoLog
    /\ holds' = [holds EXCEPT ![p] = log]
    /\ UNCHANGED log

\* An event is appended whole, by the process that has every event so far; and
\* the process has it when the append returns.
AppendEvent(p, e) ==
    /\ holds[p] = log
    /\ log' = Append(log, e)
    /\ UNCHANGED holds
ReturnEvent(p) ==
    /\ holds[p] # NoLog
    /\ holds' = [holds EXCEPT ![p] = log]
    /\ UNCHANGED log

\* The log is closed, or the process ends.
CloseLog(p) ==
    /\ holds' = [holds EXCEPT ![p] = NoLog]
    /\ UNCHANGED log

NextEventLog ==
    \E p \in Process :
        \/ OpenLog(p)
        \/ \E e \in Event : AppendEvent(p, e)
        \/ ReturnEvent(p)
        \/ CloseLog(p)

SpecEventLog == InitEventLog /\ [][NextEventLog]_<<log, holds>>

=============================================================================
