----------------------------- MODULE ImageCopies -----------------------------
(***************************************************************************)
(* syscall/pe_stub_layout.rs, the part on images.  Wine maps the header of an *)
(* image and then its sections.  The first image of a file is the process's   *)
(* own; the sections of a later one get Windows' syscall tails.  IMAGE_COPIES  *)
(* tells them apart, by file and address, without a lock.                      *)
(***************************************************************************)
EXTENDS Integers, Sequences

CONSTANTS
  Mappers,          \* threads
  Files, DeviceOf, InodeOf,   \* PE files, by device and inode
  NoFile,
  ImageSlots,       \* IMAGE_TRACK_SLOTS
  BaseAddresses,    \* where images are mapped
  MaxImages         \* bound on the images of a file

ASSUME ImageCopiesAssumption ==
  /\ DeviceOf \in [Files -> Nat \ {0}] /\ InodeOf \in [Files -> Nat \ {0}]
  /\ ImageSlots \in Nat \ {0} /\ BaseAddresses \subseteq Nat \ {0} /\ NoFile \notin Files

VARIABLES
  device, inode, copy_start, copy_end,   \* IMAGE_COPIES
  images,           \* external: every file's images, in the order of their headers
  mpc, job          \* what each thread executes, and the image it maps

copyVars == <<device, inode, copy_start, copy_end>>
imageVars == <<copyVars, images, mpc, job>>

NoJob == [file |-> NoFile, image |-> 0, slot |-> 0]

(* alone: no other image of the file was begun meanwhile; tails: what the       *)
(* sections show.                                                                *)
NewImage(base, alone) == [base |-> base, alone |-> alone, tracked |-> TRUE, tails |-> {}]

ImageInit ==
  /\ device = [i \in 1..ImageSlots |-> 0] /\ inode = device
  /\ copy_start = device /\ copy_end = device
  /\ images = [f \in Files |-> <<>>]
  /\ mpc = [t \in Mappers |-> "idle"] /\ job = [t \in Mappers |-> NoJob]

MGo(t, label, j) == mpc' = [mpc EXCEPT ![t] = label] /\ job' = [job EXCEPT ![t] = j]

-----------------------------------------------------------------------------
MappedNow(f) == {job[t].image : t \in {u \in Mappers : job[u].file = f}}

(* Wine loads a DLL with syscall thunks before the game's code runs, which is    *)
(* what maps copies: the own image is complete by then.                          *)
MapHeader(t, f, base) ==
  /\ mpc[t] = "idle" /\ Len(images[f]) < MaxImages
  /\ \A g \in Files : \A i \in DOMAIN images[g] : images[g][i].base # base
  /\ 1 \notin MappedNow(f)
  /\ images' = [images EXCEPT ![f] = Append(
       [i \in DOMAIN images[f] |->
         [images[f][i] EXCEPT !.alone = @ /\ i \notin MappedNow(f)]],
       NewImage(base, MappedNow(f) = {}))]
  /\ MGo(t, "note", [file |-> f, image |-> Len(images[f]) + 1, slot |-> 1])
  /\ UNCHANGED copyVars

Base(t) == images[job[t].file][job[t].image].base

(* Mutant: the device is not compared. *)
SlotMatchesInode(i, f) == inode[i] = InodeOf[f]

SlotMatches(i, f) == inode[i] = InodeOf[f] /\ device[i] = DeviceOf[f]

slot(f) == {i \in 1..ImageSlots : SlotMatches(i, f) /\ \A j \in 1..(i - 1) : ~SlotMatches(j, f)}

(* note_header: a file that has a slot is mapped again. *)
NoteHeader(t) ==
  /\ mpc[t] = "note"
  /\ \/ \E i \in slot(job[t].file) : MGo(t, "start", [job[t] EXCEPT !.slot = i])
     \/ slot(job[t].file) = {} /\ MGo(t, "claim", job[t])
  /\ UNCHANGED <<copyVars, images>>

StoreStart(t) ==
  /\ mpc[t] = "start"
  /\ copy_start' = [copy_start EXCEPT ![job[t].slot] = Base(t)]
  /\ MGo(t, "end", job[t])
  /\ UNCHANGED <<device, inode, copy_end, images>>

StoreEnd(t) ==
  /\ mpc[t] = "end"
  /\ copy_end' = [copy_end EXCEPT ![job[t].slot] = Base(t) + 1]
  /\ MGo(t, "section", [job[t] EXCEPT !.slot = 0])
  /\ UNCHANGED <<device, inode, copy_start, images>>

(* One compare_exchange of an inode; behind the last slot the file is untracked. *)
ClaimSlot(t) ==
  LET i == job[t].slot IN
  /\ mpc[t] = "claim"
  /\ \/ /\ i <= ImageSlots /\ inode[i] = 0
        /\ inode' = [inode EXCEPT ![i] = InodeOf[job[t].file]]
        /\ MGo(t, "device", job[t]) /\ UNCHANGED images
     \/ /\ i <= ImageSlots /\ inode[i] # 0
        /\ MGo(t, "claim", [job[t] EXCEPT !.slot = i + 1]) /\ UNCHANGED <<inode, images>>
     \/ /\ i > ImageSlots
        /\ images' = [images EXCEPT ![job[t].file][job[t].image].tracked = FALSE]
        /\ MGo(t, "section", [job[t] EXCEPT !.slot = 0]) /\ UNCHANGED inode
  /\ UNCHANGED <<device, copy_start, copy_end>>

(* The device, and an empty range: nobody else looks for this file yet. *)
StoreDevice(t) ==
  /\ mpc[t] = "device"
  /\ device' = [device EXCEPT ![job[t].slot] = DeviceOf[job[t].file]]
  /\ copy_start' = [copy_start EXCEPT ![job[t].slot] = 0]
  /\ copy_end' = [copy_end EXCEPT ![job[t].slot] = 0]
  /\ MGo(t, "section", [job[t] EXCEPT !.slot = 0])
  /\ UNCHANGED <<inode, images>>

in_copy(f, address) ==
  \E i \in slot(f) :
    copy_start[i] # 0 /\ copy_start[i] <= address /\ address + 1 <= copy_end[i]

(* after_image_map at a later offset: the section is rewritten in place, unless  *)
(* it is read-only and cannot be made writable.                                   *)
MapSection(t) ==
  LET f == job[t].file IN
  /\ mpc[t] = "section"
  /\ \E tail \in IF in_copy(f, Base(t)) THEN {"windows", "refused"} ELSE {"wine"} :
       images' = [images EXCEPT ![f][job[t].image].tails = @ \cup {tail}]
  /\ UNCHANGED <<copyVars, mpc, job>>

EndImage(t) ==
  /\ mpc[t] = "section"
  /\ MGo(t, "idle", NoJob)
  /\ UNCHANGED <<copyVars, images>>

MapperStep(t) ==
  \/ NoteHeader(t) \/ StoreStart(t) \/ StoreEnd(t) \/ ClaimSlot(t) \/ StoreDevice(t)
  \/ MapSection(t) \/ EndImage(t)
  \/ \E f \in Files, base \in BaseAddresses : MapHeader(t, f, base)

ImageNext == \E t \in Mappers : MapperStep(t)

ImageSpec == ImageInit /\ [][ImageNext]_imageVars

-----------------------------------------------------------------------------
(* The process's own image of a file keeps Wine's tails, whatever other files,   *)
(* with the same inode number on another device, or concurrent copies do to the  *)
(* table; and the sections of a copy that no other copy of the same file         *)
(* overtakes all qualify for Windows' tails, if the file has a slot.              *)
ImagesAreToldApart ==
  \A f \in Files : \A i \in DOMAIN images[f] :
    LET m == images[f][i] IN
    /\ i = 1 => m.tails \subseteq {"wine"}
    /\ i > 1 /\ m.alone /\ images[f][1].tracked /\ m.tracked => "wine" \notin m.tails
=============================================================================
