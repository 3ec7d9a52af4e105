------------------------------ MODULE FdTable -------------------------------
(***************************************************************************)
(* The file descriptors of the HAL: the pool alt_fd_list, its high-water   *)
(* mark alt_max_fd, the system calls that allocate, lock, change and free  *)
(* descriptors, and the redirection of standard input and output to the    *)
(* JTAG UART at start-up.                                                  *)
(*                                                                         *)
(* The BSP has one thread and the calls of this module are made by no      *)
(* interrupt routine, so that a call is one step. What is hard is what     *)
(* long sequences of legal calls leave in the pool.                        *)
(*                                                                         *)
(* A definition named Mut... is the one after it with a plausible bug in.  *)
(***************************************************************************)
EXTENDS Integers, FiniteSets

CONSTANTS
  ALT_MAX_FD,      \* the size of the pool
  NullDev, Uart,   \* alt_dev_null and the JTAG UART, the device of the three streams
  Filesystems,     \* registered with alt_fs_reg
  MayRefuse,       \* those with an open() function, which may fail
  FlagArgs,        \* flags arguments of open and fcntl
  None             \* no device

ASSUME FdAssumption ==
  /\ ALT_MAX_FD \in Nat /\ ALT_MAX_FD > 3
  /\ NullDev # Uart /\ {NullDev, Uart} \cap Filesystems = {}
  /\ None \notin {NullDev, Uart} \cup Filesystems
  /\ MayRefuse \subseteq Filesystems

Fds == 0 .. (ALT_MAX_FD - 1)
Stdio == 0 .. 2
Devices == {NullDev, Uart}
ALT_FD_FLAGS_MASK == {"EXCL", "DEV"}
ALT_FCNTL_FLAGS_MASK == {"APPEND", "NONBLOCK"}
Flags == ALT_FD_FLAGS_MASK \cup ALT_FCNTL_FLAGS_MASK \cup {"WRONLY", "RDWR"}

ASSUME FlagAssumption == FlagArgs \subseteq SUBSET Flags

VARIABLES
  alt_fd_list,  \* dev and fd_flags of each descriptor
  alt_max_fd,   \* the highest descriptor ever allocated from the pool
  registered,   \* the devices and filesystems in the two lists
  phase,        \* "boot", the stream being redirected, or "main"
  held          \* history: descriptors open() has returned and close() not freed

vars == <<alt_fd_list, alt_max_fd, registered, phase, held>>

Unused == [dev |-> None, fd_flags |-> {}]

Init ==
  /\ alt_fd_list = [f \in Fds |-> IF f \in Stdio THEN [Unused EXCEPT !.dev = NullDev]
                                  ELSE Unused]
  /\ alt_max_fd = -1 /\ registered = {NullDev} /\ phase = "boot" /\ held = {}

-----------------------------------------------------------------------------
(* alt_get_fd and alt_release_fd *)

\* The first free descriptor is f.
FirstFree(f) ==
  /\ alt_fd_list[f].dev = None
  /\ \A g \in Fds : g < f => alt_fd_list[g].dev # None

MutRaiseMax(f) == alt_max_fd' = f
RaiseMax(f) == alt_max_fd' = IF f > alt_max_fd THEN f ELSE alt_max_fd

\* The pool list with f freed; the standard streams are never freed.
Release(list, f) == IF f > 2 THEN [list EXCEPT ![f] = Unused] ELSE list

-----------------------------------------------------------------------------
(* open() *)

\* Some descriptor up to alt_max_fd, but not f itself, holds a lock on dev.
MutFileLocked(dev, f, max) ==
  \E g \in Fds \ {f} :
    /\ g < max /\ alt_fd_list[g].dev = dev /\ "EXCL" \in alt_fd_list[g].fd_flags
FileLocked(dev, f, max) ==
  \E g \in Fds \ {f} :
    /\ g <= max /\ alt_fd_list[g].dev = dev /\ "EXCL" \in alt_fd_list[g].fd_flags

\* f refers to dev, with the flags open() gives it.
Filled(f, dev, flags) ==
  [alt_fd_list EXCEPT ![f] =
     [dev |-> dev,
      fd_flags |-> (flags \ ALT_FD_FLAGS_MASK) \cup (IF dev \in Devices THEN {"DEV"} ELSE {})]]

\* open() allocates f, and does or does not find that it may not be used.
Allocates(f, dev) == dev \in registered /\ FirstFree(f) /\ RaiseMax(f)
Refused(f, dev) == (dev \in Devices /\ FileLocked(dev, f, alt_max_fd')) \/ dev \in MayRefuse
Granted(f, dev) == ~(dev \in Devices /\ FileLocked(dev, f, alt_max_fd'))

\* No such device or filesystem, or no free descriptor.
NotAllocated(dev) == dev \notin registered \/ \A f \in Fds : alt_fd_list[f].dev # None

Open(dev, flags) ==
  /\ phase = "main"
  /\ \E f \in Fds :
       /\ Allocates(f, dev) /\ Granted(f, dev)
       /\ alt_fd_list' = Filled(f, dev, flags) /\ held' = held \cup {f}
  /\ UNCHANGED <<registered, phase>>

\* The clean-up of a failed open() frees the descriptor it has got.
OpenFails(dev, flags) ==
  /\ phase = "main"
  /\ \/ NotAllocated(dev) /\ UNCHANGED <<alt_fd_list, alt_max_fd>>
     \/ \E f \in Fds :
          /\ Allocates(f, dev) /\ Refused(f, dev)
          /\ alt_fd_list' = Release(Filled(f, dev, flags), f)
  /\ UNCHANGED <<registered, phase, held>>

-----------------------------------------------------------------------------
(* The other calls, made on descriptors in use *)

InUse == held \cup Stdio

\* The driver's close() may fail; the descriptor is freed all the same.
Close(f) ==
  /\ phase = "main" /\ f \in InUse
  /\ alt_fd_list' = Release(alt_fd_list, f) /\ held' = held \ {f}
  /\ UNCHANGED <<alt_max_fd, registered, phase>>

\* ioctl(f, TIOCEXCL), answered by alt_fd_lock for devices: no other descriptor below
\* alt_max_fd refers to the same one.
Lockable(f) ==
  \A g \in Fds \ {f} : g < alt_max_fd => alt_fd_list[g].dev # alt_fd_list[f].dev

Lock(f) ==
  /\ phase = "main" /\ f \in InUse /\ "DEV" \in alt_fd_list[f].fd_flags
  /\ Lockable(f)
  /\ alt_fd_list' = [alt_fd_list EXCEPT ![f].fd_flags = @ \cup {"EXCL"}]
  /\ UNCHANGED <<alt_max_fd, registered, phase, held>>

\* ioctl(f, TIOCNXCL), answered by alt_fd_unlock.
Unlock(f) ==
  /\ phase = "main" /\ f \in InUse /\ "DEV" \in alt_fd_list[f].fd_flags
  /\ alt_fd_list' = [alt_fd_list EXCEPT ![f].fd_flags = @ \ {"EXCL"}]
  /\ UNCHANGED <<alt_max_fd, registered, phase, held>>

\* fcntl(f, F_SETFL, flags) changes O_APPEND and O_NONBLOCK alone.
MutSetFlags(f, flags) ==
  /\ phase = "main" /\ f \in InUse
  /\ alt_fd_list' = [alt_fd_list EXCEPT ![f].fd_flags = flags \ ALT_FD_FLAGS_MASK]
  /\ UNCHANGED <<alt_max_fd, registered, phase, held>>
SetFlags(f, flags) ==
  /\ phase = "main" /\ f \in InUse
  /\ alt_fd_list' = [alt_fd_list EXCEPT ![f].fd_flags =
                       (@ \ ALT_FCNTL_FLAGS_MASK) \cup (flags \cap ALT_FCNTL_FLAGS_MASK)]
  /\ UNCHANGED <<alt_max_fd, registered, phase, held>>

-----------------------------------------------------------------------------
(* Start-up *)

\* alt_sys_init registers the devices and the filesystems.
SysInit ==
  /\ phase = "boot" /\ phase' = "stdout"
  /\ registered' = Devices \cup Filesystems
  /\ UNCHANGED <<alt_fd_list, alt_max_fd, held>>

\* alt_open_fd: open Uart, copy its descriptor into the stream's and free it; if it
\* cannot be opened the stream stays as it is. Nothing is locked before main.
Redirect(stream, fd, mode, then) ==
  /\ phase = stream /\ phase' = then
  /\ IF NotAllocated(Uart)
     THEN UNCHANGED <<alt_fd_list, alt_max_fd>>
     ELSE \E f \in Fds :
            /\ Allocates(f, Uart) /\ Granted(f, Uart)
            /\ LET opened == Filled(f, Uart, mode)
               IN  alt_fd_list' = Release([opened EXCEPT ![fd] = opened[f]], f)
  /\ UNCHANGED <<registered, held>>

\* alt_io_redirect
IoRedirect ==
  \/ Redirect("stdout", 1, {"WRONLY"}, "stdin")
  \/ Redirect("stdin", 0, {}, "stderr")
  \/ Redirect("stderr", 2, {"WRONLY"}, "main")

-----------------------------------------------------------------------------
Call ==
  \/ \E dev \in Devices \cup Filesystems, flags \in FlagArgs :
       Open(dev, flags) \/ OpenFails(dev, flags)
  \/ \E f \in Fds :
       Close(f) \/ Lock(f) \/ Unlock(f) \/ \E flags \in FlagArgs : SetFlags(f, flags)
Next == SysInit \/ IoRedirect \/ Call

Spec == Init /\ [][Next]_vars

-----------------------------------------------------------------------------
(* Properties *)

Locked(f) == "EXCL" \in alt_fd_list[f].fd_flags
SameDevice(f, g) == alt_fd_list[f].dev = alt_fd_list[g].dev

\* Every variable has its type; open() returns descriptors of the pool.
TypeOK ==
  /\ alt_fd_list \in [Fds -> [dev : Devices \cup Filesystems \cup {None},
                              fd_flags : SUBSET Flags]]
  /\ alt_max_fd \in Fds \cup {-1}
  /\ registered \subseteq Devices \cup Filesystems
  /\ phase \in {"boot", "stdout", "stdin", "stderr", "main"}
  /\ held \subseteq Fds

\* alt_max_fd bounds the descriptors of the pool in use, whatever was opened and closed
\* in whatever order: the searches of alt_file_locked may stop there.
HighWaterMark == \A f \in Fds \ Stdio : alt_fd_list[f].dev # None => f <= alt_max_fd

\* The pool lends exactly the descriptors the application holds: a failed open(), a
\* redirection and a close() leave none behind, and none is taken away.
NothingLeaks == {f \in Fds \ Stdio : alt_fd_list[f].dev # None} = held

\* The pool is exactly what its users think it is.
PoolIsExact == HighWaterMark /\ NothingLeaks

\* Two descriptors never hold a lock on one device.
OneLockPerDevice ==
  \A f, g \in Fds : Locked(f) /\ Locked(g) /\ SameDevice(f, g) => f = g

\* A lock is held by a descriptor of the application, which close() frees together with
\* it: never by a standard stream, which is never freed, nor by a free descriptor.
LocksAreReleasable == \A f \in Fds : Locked(f) => f \in held

\* While a device is locked, open() gives out no descriptor for it.
LockBlocksOpen ==
  [][\A f \in Fds, g \in held' \ held :
       Locked(f) => alt_fd_list'[g].dev # alt_fd_list[f].dev]_vars

\* Locks are what the calls promise of them: one on a device, released by a close, and
\* respected by every open.
LocksAreSound == [](OneLockPerDevice /\ LocksAreReleasable) /\ LockBlocksOpen

\* alt_read and alt_write pass f's call on to a driver (alt_dev_null has no read).
CanRead(f) == "WRONLY" \notin alt_fd_list[f].fd_flags /\ alt_fd_list[f].dev # NullDev
CanWrite(f) == {"WRONLY", "RDWR"} \cap alt_fd_list[f].fd_flags # {}

\* From main on, whatever the application does with descriptors, it can read standard
\* input from the UART and write standard output and error to it.
StdioConnected ==
  phase = "main" =>
    /\ \A f \in Stdio : alt_fd_list[f].dev = Uart
    /\ CanRead(0) /\ CanWrite(1) /\ CanWrite(2)

\* A lock is exclusive: no other descriptor refers to the locked device.
LockIsExclusive ==
  \A f, g \in Fds : Locked(f) /\ SameDevice(f, g) => f = g
=============================================================================
