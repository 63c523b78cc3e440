----------------------------- MODULE SocketPair -----------------------------
(***************************************************************************)
(* init_socketpair of runtime/src/faketime.rs: how a process comes by the two *)
(* fixed descriptors over which the faked clock is published, on the          *)
(* descriptor table it starts with, and again in the process image that an    *)
(* exec starts with the same table.                                           *)
(***************************************************************************)
EXTENDS Naturals, FiniteSets, FiniteSetsExt

CONSTANTS
  RecvFd, SendFd,   \* OFFSET_RECV_FD and OFFSET_SEND_FD
  FdLimits,         \* the descriptor limits a process may start under
  MaxExecs,         \* bound: process images in a behaviour
  Inherited         \* what descriptors of the launcher may be

Closed == [kind |-> "closed", pair |-> 0]
File == [kind |-> "file", pair |-> 0]
Socket == [kind |-> "socket", pair |-> 0]
RecvEnd(n) == [kind |-> "recv", pair |-> n]
SendEnd(n) == [kind |-> "send", pair |-> n]

ASSUME SocketPairAssumption ==
  /\ RecvFd \in Nat /\ SendFd \in Nat /\ RecvFd # SendFd
  /\ FdLimits \subseteq Nat \ {0} /\ MaxExecs \in Nat \ {0}
  /\ Inherited \subseteq {Closed, File, Socket}

VARIABLES
  limit,     \* RLIMIT_NOFILE
  fds,       \* the descriptor table
  before,    \* history: the table when this process image started
  READY,     \* SOCKETPAIR_READY
  pair_pc,
  recv_fd, send_fd,
  execs      \* process images started; numbers their socket pairs

pairVars == <<limit, fds, before, READY, pair_pc, recv_fd, send_fd, execs>>

Fds == 0..(limit - 1)

PairInit ==
  /\ limit \in FdLimits
  /\ fds \in [Fds -> Inherited]
  /\ before = fds
  /\ READY = FALSE
  /\ pair_pc = "init"
  /\ recv_fd = 0 /\ send_fd = 0
  /\ execs = 1

IsOpen(fd) == fd \in Fds /\ fds[fd] # Closed
fd_is_socket(fd) == IsOpen(fd) /\ fds[fd].kind # "file"
Free == {fd \in Fds : fds[fd] = Closed}

(* Two sockets there already are taken for the pair of a parent. *)
Reuse ==
  /\ pair_pc = "init"
  /\ fd_is_socket(RecvFd) /\ fd_is_socket(SendFd)
  /\ READY' = TRUE
  /\ pair_pc' = "done"
  /\ UNCHANGED <<limit, fds, before, recv_fd, send_fd, execs>>

(* Mutant: what is open there is not looked at. *)
NeverTaken(fd) == FALSE

Taken(fd) == ~fd_is_socket(fd) /\ IsOpen(fd)

LeaveAlone ==
  /\ pair_pc = "init"
  /\ Taken(RecvFd) \/ Taken(SendFd)
  /\ pair_pc' = "done"
  /\ UNCHANGED <<limit, fds, before, READY, recv_fd, send_fd, execs>>

MayCreate ==
  /\ pair_pc = "init"
  /\ ~(fd_is_socket(RecvFd) /\ fd_is_socket(SendFd))
  /\ ~Taken(RecvFd) /\ ~Taken(SendFd)

(* The kernel hands out the two lowest free descriptors, or refuses. *)
CreatePair ==
  /\ MayCreate
  /\ \/ /\ Cardinality(Free) >= 2
        /\ recv_fd' = Min(Free)
        /\ send_fd' = Min(Free \ {recv_fd'})
        /\ fds' = [fds EXCEPT ![recv_fd'] = RecvEnd(execs), ![send_fd'] = SendEnd(execs)]
        /\ pair_pc' = "dup_recv"
     \/ /\ Cardinality(Free) < 2
        /\ pair_pc' = "done"
        /\ UNCHANGED <<fds, recv_fd, send_fd>>
  /\ UNCHANGED <<limit, before, READY, execs>>

(* dup2: closes the target and makes it the same socket; fails beyond the     *)
(* limit, and then the temporary descriptors are closed.                     *)
Dup(from, to, here, next) ==
  /\ pair_pc = here
  /\ \/ /\ to \in Fds
        /\ fds' = [fds EXCEPT ![to] = fds[from]]
        /\ pair_pc' = next
     \/ /\ to \notin Fds
        /\ fds' = [fds EXCEPT ![recv_fd] = Closed, ![send_fd] = Closed]
        /\ pair_pc' = "done"
  /\ UNCHANGED <<limit, before, READY, recv_fd, send_fd, execs>>

DupRecv == Dup(recv_fd, RecvFd, "dup_recv", "dup_send")
DupSend == Dup(send_fd, SendFd, "dup_send", "close")

Temporary == {recv_fd, send_fd} \ {RecvFd, SendFd}

CloseTemporary ==
  /\ pair_pc = "close"
  /\ fds' = [fd \in Fds |-> IF fd \in Temporary THEN Closed ELSE fds[fd]]
  /\ READY' = TRUE
  /\ pair_pc' = "done"
  /\ UNCHANGED <<limit, before, recv_fd, send_fd, execs>>

(* The program opens a descriptor of its own, or starts a process image.     *)
ProgramOpens ==
  /\ pair_pc = "done"
  /\ Free # {}
  /\ \E d \in Inherited \ {Closed} : fds' = [fds EXCEPT ![Min(Free)] = d]
  /\ before' = [before EXCEPT ![Min(Free)] = fds'[Min(Free)]]
  /\ UNCHANGED <<limit, READY, pair_pc, recv_fd, send_fd, execs>>

Exec ==
  /\ pair_pc = "done"
  /\ execs < MaxExecs
  /\ execs' = execs + 1
  /\ before' = fds
  /\ READY' = FALSE
  /\ pair_pc' = "init"
  /\ UNCHANGED <<limit, fds, recv_fd, send_fd>>

PairNext ==
  \/ Reuse \/ LeaveAlone \/ CreatePair \/ DupRecv \/ DupSend \/ CloseTemporary
  \/ ProgramOpens \/ Exec

PairSpec == PairInit /\ [][PairNext]_pairVars

-----------------------------------------------------------------------------
(* Properties *)

Ours(d) == d.kind \in {"recv", "send"}

(* The type of every variable. *)
PairTypeOK ==
  /\ limit \in FdLimits
  /\ fds \in [Fds -> {Closed, File, Socket} \cup {RecvEnd(n) : n \in 1..MaxExecs}
                       \cup {SendEnd(n) : n \in 1..MaxExecs}]
  /\ DOMAIN before = Fds
  /\ READY \in BOOLEAN
  /\ pair_pc \in {"init", "dup_recv", "dup_send", "close", "done"}
  /\ recv_fd \in Fds /\ send_fd \in Fds
  /\ execs \in 1..MaxExecs

(* However initialisation ends, also when a dup2 or the socketpair call fails *)
(* and across an exec, the process keeps no socket of the pair but the one    *)
(* on OFFSET_RECV_FD and the one on OFFSET_SEND_FD.                          *)
NoStrayDescriptors ==
  pair_pc = "done" => \A fd \in Fds : Ours(fds[fd]) => fd \in {RecvFd, SendFd}

(* An open descriptor that is not a socket is never closed or replaced by     *)
(* init_socketpair, wherever the kernel places the pair.                     *)
FilesAreKept == \A fd \in Fds : before[fd] = File => fds[fd] = File

(* faketime.rs:77: "If either fd is already open for something unrelated,     *)
(* leave it alone entirely".                                                 *)
ForeignDescriptorsAreKept ==
  \A fd \in Fds : before[fd] \in {File, Socket} => fds[fd] = before[fd]

(* init_socketpair on any descriptor table: the process loses no file and      *)
(* keeps no descriptor that it does not know of.                              *)
DescriptorsAreKept == PairTypeOK /\ NoStrayDescriptors /\ FilesAreKept
=============================================================================
