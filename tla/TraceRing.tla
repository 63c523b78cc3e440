----------------------------- MODULE TraceRing ------------------------------
(***************************************************************************)
(* History of syscall/diagnostics.rs: SIGSYS handlers record events in a ring *)
(* of sequence-locked slots; a null fault dumps the recent ones.  An event is *)
(* known by its ticket; two of its fields stand for all of them.              *)
(***************************************************************************)
EXTENDS Integers

CONSTANTS
  Tracers,           \* threads
  HistoryCapacity,
  NullFaultDumpLimit,
  MaxEvents          \* bound on events recorded

ASSUME TraceAssumption == HistoryCapacity \in Nat \ {0} /\ NullFaultDumpLimit \in Nat

VARIABLES
  next_ticket, slots, dumps,   \* next, slots, NULL_FAULT_DUMPS
  tpc, tl,                     \* what each thread executes, and its locals
  trace_forked

traceVars == <<next_ticket, slots, dumps, tpc, tl, trace_forked>>

(* ticket: the event being written or visited; stop: where the dump ends. *)
NoTrace == [ticket |-> 0, current |-> 0, fields |-> <<-1, -1>>, stop |-> 0]

TraceInit ==
  /\ next_ticket = 0 /\ dumps = 0 /\ trace_forked = FALSE
  /\ slots = [i \in 0..(HistoryCapacity - 1) |-> [sequence |-> 0, writing |-> FALSE, fields |-> <<-1, -1>>]]
  /\ tpc = [t \in Tracers |-> "idle"] /\ tl = [t \in Tracers |-> NoTrace]

TGo(t, label, l) == tpc' = [tpc EXCEPT ![t] = label] /\ tl' = [tl EXCEPT ![t] = l]
SlotOf(t) == tl[t].ticket % HistoryCapacity

-----------------------------------------------------------------------------
(* record *)

TakeTicket(t) ==
  /\ tpc[t] = "idle" /\ next_ticket < MaxEvents
  /\ next_ticket' = next_ticket + 1
  /\ TGo(t, "sequence", [NoTrace EXCEPT !.ticket = next_ticket])
  /\ UNCHANGED <<slots, dumps, trace_forked>>

(* A slot that is being written, or holds a newer ticket, keeps what it has. *)
LoadSequence(t) ==
  LET held == slots[SlotOf(t)] IN
  /\ tpc[t] = "sequence"
  /\ IF held.writing \/ held.sequence > tl[t].ticket + 1
     THEN TGo(t, "idle", NoTrace)
     ELSE TGo(t, "own", [tl[t] EXCEPT !.current = held.sequence])
  /\ UNCHANGED <<next_ticket, slots, dumps, trace_forked>>

OwnSlot(t) ==   \* compare_exchange(current, sequence | WRITING_BIT)
  LET held == slots[SlotOf(t)] IN
  /\ tpc[t] = "own"
  /\ IF held.sequence = tl[t].current /\ ~held.writing
     THEN /\ slots' = [slots EXCEPT ![SlotOf(t)].sequence = tl[t].ticket + 1, ![SlotOf(t)].writing = TRUE]
          /\ TGo(t, "first", [tl[t] EXCEPT !.current = 0])
     ELSE UNCHANGED slots /\ TGo(t, "sequence", [tl[t] EXCEPT !.current = 0])
  /\ UNCHANGED <<next_ticket, dumps, trace_forked>>

StoreField(t, here, i, after) ==
  /\ tpc[t] = here
  /\ slots' = [slots EXCEPT ![SlotOf(t)].fields[i] = tl[t].ticket]
  /\ TGo(t, after, tl[t])
  /\ UNCHANGED <<next_ticket, dumps, trace_forked>>

PublishEvent(t) ==
  /\ tpc[t] = "publish"
  /\ slots' = [slots EXCEPT ![SlotOf(t)].sequence = tl[t].ticket + 1, ![SlotOf(t)].writing = FALSE]
  /\ TGo(t, "idle", NoTrace)
  /\ UNCHANGED <<next_ticket, dumps, trace_forked>>

-----------------------------------------------------------------------------
(* dump_on_null_fault and visit_recent *)

NullFault(t) ==
  /\ tpc[t] = "idle" /\ dumps < NullFaultDumpLimit /\ dumps' = dumps + 1
  /\ TGo(t, "visit", [NoTrace EXCEPT
       !.ticket = IF next_ticket > HistoryCapacity THEN next_ticket - HistoryCapacity ELSE 0,
       !.stop = next_ticket])
  /\ UNCHANGED <<next_ticket, slots, trace_forked>>

IsExpected(t) == slots[SlotOf(t)].sequence = tl[t].ticket + 1 /\ ~slots[SlotOf(t)].writing
NextTicket(t) == [tl[t] EXCEPT !.ticket = @ + 1, !.fields = NoTrace.fields]

VisitSlot(t) ==
  /\ tpc[t] = "visit" /\ tl[t].ticket < tl[t].stop
  /\ IF IsExpected(t) THEN TGo(t, "read 1", tl[t]) ELSE TGo(t, "visit", NextTicket(t))
  /\ UNCHANGED <<next_ticket, slots, dumps, trace_forked>>

ReadField(t, here, i, after) ==
  /\ tpc[t] = here
  /\ TGo(t, after, [tl[t] EXCEPT !.fields[i] = slots[SlotOf(t)].fields[i]])
  /\ UNCHANGED <<next_ticket, slots, dumps, trace_forked>>

(* Mutant: the fields are logged without a second look at the sequence. *)
RecheckNothing(t) ==
  /\ tpc[t] = "recheck"
  /\ TGo(t, "log", tl[t])
  /\ UNCHANGED <<next_ticket, slots, dumps, trace_forked>>

Recheck(t) ==
  /\ tpc[t] = "recheck"
  /\ IF IsExpected(t) THEN TGo(t, "log", tl[t]) ELSE TGo(t, "visit", NextTicket(t))
  /\ UNCHANGED <<next_ticket, slots, dumps, trace_forked>>

LogEvent(t) ==
  /\ tpc[t] = "log" /\ TGo(t, "visit", NextTicket(t))
  /\ UNCHANGED <<next_ticket, slots, dumps, trace_forked>>

EndDump(t) ==
  /\ tpc[t] = "visit" /\ tl[t].ticket = tl[t].stop /\ TGo(t, "idle", NoTrace)
  /\ UNCHANGED <<next_ticket, slots, dumps, trace_forked>>

(* A child keeps a slot that was being written as it was, for good. *)
TraceFork(t) ==
  /\ tpc[t] = "idle" /\ ~trace_forked /\ trace_forked' = TRUE
  /\ tpc' = [u \in Tracers |-> IF u = t THEN "idle" ELSE "gone"]
  /\ tl' = [u \in Tracers |-> NoTrace]
  /\ UNCHANGED <<next_ticket, slots, dumps>>

TraceStep(t) ==
  \/ LoadSequence(t) \/ OwnSlot(t) \/ StoreField(t, "first", 1, "second")
  \/ StoreField(t, "second", 2, "publish") \/ PublishEvent(t)
  \/ VisitSlot(t) \/ ReadField(t, "read 1", 1, "read 2") \/ ReadField(t, "read 2", 2, "recheck")
  \/ Recheck(t) \/ LogEvent(t) \/ EndDump(t)

TraceNext == \E t \in Tracers : TakeTicket(t) \/ NullFault(t) \/ TraceStep(t) \/ TraceFork(t)

TraceSpec == TraceInit /\ [][TraceNext]_traceVars

-----------------------------------------------------------------------------
(* A dump never logs a mixed record, nor an event under another's ticket, with *)
(* handlers lapping each other around the ring; and a slot has one writer.     *)
DumpedEventsAreWhole ==
  /\ \A t \in Tracers : tpc[t] = "log" => tl[t].fields = <<tl[t].ticket, tl[t].ticket>>
  /\ \A t, u \in Tracers : tpc[t] \in {"first", "second", "publish"} /\ tpc[u] \in {"first", "second", "publish"}
       /\ SlotOf(t) = SlotOf(u) => t = u
=============================================================================
