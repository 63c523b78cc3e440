------------------------------ MODULE Faketime ------------------------------
(***************************************************************************)
(* The faked clock: runtime/src/faketime.rs over protocol/faketime.rs.        *)
(* SET_TIME makes set_offset store a clock offset in the process and write    *)
(* it to a datagram socket pair that child processes inherit; a process       *)
(* without an offset peeks that socket pair in gettimeofday.                  *)
(*                                                                         *)
(* Processes start as children of processes, by fork alone or by fork and     *)
(* exec.  Every load, store, recv and write of shared state is a step.        *)
(***************************************************************************)
EXTENDS Integers, Sequences

CONSTANTS
  Processes, Threads,
  Root,                 \* the process the launcher started
  Filetimes,            \* the times SET_TIME asks for
  Modulus,              \* 2^64 in the code
  TicksPerSecond,       \* TICKS_PER_SECOND
  Seconds1601To1970,    \* SECONDS_1601_TO_1970
  PeekInterval,         \* PEEK_INTERVAL_MS, in clock steps
  QueueLimit,           \* datagrams the kernel queues on the pair
  FirstNow,             \* the real clock at the start
  MaxTime,              \* bound: clock steps
  MaxSets, MaxReads,    \* bounds: calls to set_offset and gettimeofday
  Ready                 \* whether init_socketpair succeeded in the root

ASSUME FaketimeAssumption ==
  /\ Root \in Processes
  /\ Modulus \in Nat \ {0}
  /\ TicksPerSecond \in Nat \ {0}
  /\ Filetimes \subseteq Nat
  /\ Seconds1601To1970 \in Nat
  /\ FirstNow \in 0..(Modulus - 1)
  /\ PeekInterval \in Nat /\ QueueLimit \in Nat /\ MaxTime \in Nat
  /\ MaxSets \in Nat /\ MaxReads \in Nat
  /\ Ready \in BOOLEAN

Words == 0..(Modulus - 1)
Never == 0 - 1     \* u64::MAX in LAST_PEEK_MS

VARIABLES
  elapsed,     \* clock steps since the start
  alive,       \* the processes that exist
  queue,       \* the datagrams on the socket pair; recv only peeks
  OFFSET,      \* per process
  LAST_PEEK,   \* per process
  guard,       \* per process: whether the page guard is held
  pc, word,    \* per process and thread: where it is, and the offset it holds
  seconds,     \* per process and thread: the real seconds it read
  result,      \* history: what the last gettimeofday returned, the real seconds, the offset
  made,        \* history: the offsets set_offset computed, and for what
  sets, reads

threadVars == <<pc, word, seconds, result>>
vars == <<elapsed, alive, queue, OFFSET, LAST_PEEK, guard, threadVars, made, sets, reads>>

Now == (FirstNow + elapsed) % Modulus

Requested(filetime) == (filetime \div TicksPerSecond - Seconds1601To1970) % Modulus

(* Mutant: the offset is added. *)
apply_added_offset(secs, offset) == (secs + offset) % Modulus

offset_from_filetime(now, filetime) == (now - Requested(filetime)) % Modulus
apply_offset(secs, offset) == (secs - offset) % Modulus

Init ==
  /\ elapsed = 0
  /\ alive = {Root}
  /\ queue = << >>
  /\ OFFSET = [p \in Processes |-> 0]
  /\ LAST_PEEK = [p \in Processes |-> Never]
  /\ guard = [p \in Processes |-> FALSE]
  /\ pc = [p \in Processes |-> [t \in Threads |-> "idle"]]
  /\ word = [p \in Processes |-> [t \in Threads |-> 0]]
  /\ seconds = [p \in Processes |-> [t \in Threads |-> 0]]
  /\ result = << >>
  /\ made = {}
  /\ sets = 0
  /\ reads = 0

Tick ==
  /\ elapsed < MaxTime
  /\ elapsed' = elapsed + 1
  /\ UNCHANGED <<alive, queue, OFFSET, LAST_PEEK, guard, threadVars, made, sets, reads>>

(* A child process.  fork copies the statics, exec starts them afresh; both  *)
(* keep the descriptors.                                                     *)
Spawn(p, c, exec) ==
  /\ p \in alive
  /\ c \notin alive
  /\ alive' = alive \cup {c}
  /\ OFFSET' = [OFFSET EXCEPT ![c] = IF exec THEN 0 ELSE OFFSET[p]]
  /\ LAST_PEEK' = [LAST_PEEK EXCEPT ![c] = IF exec THEN Never ELSE LAST_PEEK[p]]
  /\ UNCHANGED <<elapsed, queue, guard, threadVars, made, sets, reads>>

At(p, t, label) == p \in alive /\ pc[p][t] = label
Goto(p, t, label) == pc' = [pc EXCEPT ![p][t] = label]

-----------------------------------------------------------------------------
(* gettimeofday *)

(* The locals of the call are gone. *)
Return(p, t, offset) ==
  /\ Goto(p, t, "idle")
  /\ word' = [word EXCEPT ![p][t] = 0] /\ seconds' = [seconds EXCEPT ![p][t] = 0]
  /\ result' = <<apply_offset(seconds[p][t], offset), seconds[p][t], offset>>

ReadClock(p, t) ==
  /\ At(p, t, "idle")
  /\ reads < MaxReads
  /\ reads' = reads + 1
  /\ seconds' = [seconds EXCEPT ![p][t] = Now]
  /\ Goto(p, t, "load")
  /\ UNCHANGED <<elapsed, alive, queue, OFFSET, LAST_PEEK, guard, word, result, made, sets>>

PeekDue(p) == LAST_PEEK[p] = Never \/ elapsed - LAST_PEEK[p] >= PeekInterval

(* current_offset up to the recv: a local offset, no socket pair or a recent *)
(* peek end it here.                                                         *)
LoadOffset(p, t) ==
  /\ At(p, t, "load")
  /\ \/ /\ OFFSET[p] # 0 \/ ~Ready \/ ~PeekDue(p)
        /\ Return(p, t, OFFSET[p])
        /\ UNCHANGED LAST_PEEK
     \/ /\ OFFSET[p] = 0 /\ Ready /\ PeekDue(p)
        /\ LAST_PEEK' = [LAST_PEEK EXCEPT ![p] = elapsed]
        /\ Goto(p, t, "peek")
        /\ UNCHANGED <<word, seconds, result>>
  /\ UNCHANGED <<elapsed, alive, queue, OFFSET, guard, made, sets, reads>>

(* Mutant: the length that recv returned is not looked at. *)
PeekUnchecked(p, t) ==
  /\ At(p, t, "peek")
  /\ word' = [word EXCEPT ![p][t] = IF queue = << >> THEN 0 ELSE Head(queue)]
  /\ Goto(p, t, "adopt")
  /\ UNCHANGED <<elapsed, alive, queue, OFFSET, LAST_PEEK, guard, seconds, result, made,
                 sets, reads>>

(* recv with MSG_PEEK: the oldest datagram, which stays queued. *)
Peek(p, t) ==
  /\ At(p, t, "peek")
  /\ \/ /\ queue = << >>
        /\ Return(p, t, 0)
     \/ /\ queue # << >>
        /\ word' = [word EXCEPT ![p][t] = Head(queue)]
        /\ Goto(p, t, "adopt")
        /\ UNCHANGED <<seconds, result>>
  /\ UNCHANGED <<elapsed, alive, queue, OFFSET, LAST_PEEK, guard, made, sets, reads>>

AdoptOffset(p, t) ==
  /\ At(p, t, "adopt")
  /\ OFFSET' = [OFFSET EXCEPT ![p] = word[p][t]]
  /\ Return(p, t, word[p][t])
  /\ UNCHANGED <<elapsed, alive, queue, LAST_PEEK, guard, made, sets, reads>>

-----------------------------------------------------------------------------
(* set_offset *)

(* A held page guard drops the command. *)
SetOffset(p, t, filetime) ==
  /\ At(p, t, "idle")
  /\ sets < MaxSets
  /\ sets' = sets + 1
  /\ \/ /\ ~guard[p]
        /\ guard' = [guard EXCEPT ![p] = TRUE]
        /\ word' = [word EXCEPT ![p][t] = offset_from_filetime(Now, filetime)]
        /\ made' = made \cup {[offset |-> offset_from_filetime(Now, filetime),
                               at |-> Now, filetime |-> filetime]}
        /\ Goto(p, t, "store")
     \/ /\ guard[p]
        /\ UNCHANGED <<guard, word, made, pc>>
  /\ UNCHANGED <<elapsed, alive, queue, OFFSET, LAST_PEEK, seconds, result, reads>>

StoreOffset(p, t) ==
  /\ At(p, t, "store")
  /\ OFFSET' = [OFFSET EXCEPT ![p] = word[p][t]]
  /\ Goto(p, t, "publish")
  /\ UNCHANGED <<elapsed, alive, queue, LAST_PEEK, guard, word, seconds, result, made, sets, reads>>

(* The write fails on a full queue, and only logs that; then the guard drops. *)
PublishOffset(p, t) ==
  /\ At(p, t, "publish")
  /\ \/ Ready /\ Len(queue) < QueueLimit /\ queue' = Append(queue, word[p][t])
     \/ ~(Ready /\ Len(queue) < QueueLimit) /\ UNCHANGED queue
  /\ guard' = [guard EXCEPT ![p] = FALSE]
  /\ Goto(p, t, "idle") /\ word' = [word EXCEPT ![p][t] = 0]
  /\ UNCHANGED <<elapsed, alive, OFFSET, LAST_PEEK, seconds, result, made, sets, reads>>

Step(p, t) ==
  \/ LoadOffset(p, t) \/ Peek(p, t) \/ AdoptOffset(p, t)
  \/ StoreOffset(p, t) \/ PublishOffset(p, t)

Next ==
  \/ Tick
  \/ \E p, c \in Processes, exec \in BOOLEAN : Spawn(p, c, exec)
  \/ \E p \in Processes, t \in Threads :
       \/ ReadClock(p, t) \/ Step(p, t)
       \/ \E f \in Filetimes : SetOffset(p, t, f)

Spec == Init /\ [][Next]_vars

-----------------------------------------------------------------------------
(* Properties *)

Labels == {"idle", "load", "peek", "adopt", "store", "publish"}

(* The type of every variable. *)
TypeOK ==
  /\ elapsed \in 0..MaxTime
  /\ alive \subseteq Processes /\ Root \in alive
  /\ queue \in Seq(Words) /\ Len(queue) <= QueueLimit
  /\ OFFSET \in [Processes -> Words]
  /\ LAST_PEEK \in [Processes -> Never..MaxTime]
  /\ guard \in [Processes -> BOOLEAN]
  /\ pc \in [Processes -> [Threads -> Labels]]
  /\ word \in [Processes -> [Threads -> Words]]
  /\ seconds \in [Processes -> [Threads -> Words]]
  /\ result \in {<< >>} \cup (Words \X Words \X Words)
  /\ made \subseteq [offset : Words, at : Words, filetime : Filetimes]
  /\ sets \in 0..MaxSets /\ reads \in 0..MaxReads

(* A faked clock starts at the time SET_TIME asked for and runs at the speed  *)
(* of the real one, in whichever process it is read and across the wrap of   *)
(* the arithmetic in offset_from_filetime and apply_offset.                  *)
FakedClockRunsOn ==
  result # << >> /\ result[3] # 0 =>
    \E m \in made :
      /\ m.offset = result[3]
      /\ result[1] = (Requested(m.filetime) + (result[2] - m.at)) % Modulus

(* current_offset and set_offset never take the faked clock away: an offset   *)
(* that is in force is only replaced by one that SET_TIME asked for.         *)
OffsetIsNeverInvented ==
  [][\A p \in Processes :
       OFFSET'[p] # OFFSET[p] => OFFSET'[p] \in {m.offset : m \in made'}]_vars

(* faketime.rs:2: "every thread and every process that shares this Wine       *)
(* prefix sees the same faked time": with no call in progress, the processes  *)
(* that have an offset have the same one.                                    *)
EveryProcessSeesTheSameTime ==
  (\A p \in Processes, t \in Threads : pc[p][t] = "idle") =>
    \A p, q \in alive : OFFSET[p] # 0 /\ OFFSET[q] # 0 => OFFSET[p] = OFFSET[q]

(* The faked clock of every process, with wrapping arithmetic: its words have  *)
(* their width, and it runs on from the time that SET_TIME asked for.          *)
FakedClockIsSound == TypeOK /\ FakedClockRunsOn
=============================================================================
