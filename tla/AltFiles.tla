----------------------------------- MODULE AltFiles -----------------------------------
(***************************************************************************)
(* The file descriptors of the HAL (alt_open.c, alt_close.c, alt_get_fd.c, *)
(* alt_ioctl.c, alt_fcntl.c, alt_io_redirect.c ...): the lists of devices  *)
(* and file systems, the pool of descriptors, exclusive access, and the    *)
(* redirection of the standard streams.  The HAL of this project has one   *)
(* thread (alt_sem.h: semaphores are empty), so a call is one step.  With  *)
(* ALT_USE_DIRECT_DRIVERS the calls go to the standard devices instead     *)
(* (the operators Direct...).                                              *)
(*                                                                         *)
(* A name is the sequence of its parts; the flags of a descriptor are the  *)
(* set of its bits, O_RDONLY being no bit.                                 *)
(***************************************************************************)
EXTENDS Integers, Sequences, SequencesExt

CONSTANTS
  ALT_MAX_FD,
  Devices, Mounts,          \* names that alt_sys_init registers
  Files, AppFlags,          \* names and flags the application opens with
  Callbacks,                \* functions each driver has
  Stdin, Stdout, Stderr     \* names of ALT_STDIN, ALT_STDOUT, ALT_STDERR

None == <<>>
Null == <<"dev", "null">>
Names == Devices \cup Mounts \cup {Null}
Fds == 0..(ALT_MAX_FD - 1)
Bits == {"WRONLY", "RDWR", "APPEND", "NONBLOCK", "EXCL", "DEV"}
ALT_FD_FLAGS_MASK == {"EXCL", "DEV"}
ALT_FCNTL_FLAGS_MASK == {"APPEND", "NONBLOCK"}

ASSUME FilesAssumption ==
  /\ ALT_MAX_FD \in Nat /\ ALT_MAX_FD >= 4      \* one free while a stream is redirected
  /\ AppFlags \subseteq SUBSET Bits
  /\ None \notin Names /\ Null \notin Devices \cup Mounts /\ Devices \cap Mounts = {}
  /\ Callbacks \in [Names -> SUBSET {"open", "close", "read", "write", "lseek", "fstat", "ioctl"}]

VARIABLES
  alt_dev_list, alt_fs_list,
  alt_fd_list, alt_max_fd,
  pc,                       \* "init", the streams to redirect, "main"
  held,                     \* history: descriptors open() gave to the application
  result                    \* history: the last call with its value, and its descriptor
                            \* (open() and close(): -1)

vars == <<alt_dev_list, alt_fs_list, alt_fd_list, alt_max_fd, pc, held, result>>
lists == <<alt_dev_list, alt_fs_list>>

Entry == [dev : Names \cup {None}, priv : Names \cup {None}, fd_flags : SUBSET Bits]
Returns(call, fd, val) == result' = [call |-> call, fd |-> fd, val |-> val]

-----------------------------------------------------------------------------
(* The lists: alt_dev_reg and alt_fs_reg, called by alt_sys_init.          *)

Registers(name) ==
  /\ pc = "init" /\ name \notin ToSet(alt_dev_list) \cup ToSet(alt_fs_list)
  /\ UNCHANGED <<alt_fd_list, alt_max_fd, pc, held, result>>
RegisterDevice(name) ==
  Registers(name) /\ alt_dev_list' = <<name>> \o alt_dev_list /\ UNCHANGED alt_fs_list
RegisterFs(name) ==
  Registers(name) /\ alt_fs_list' = <<name>> \o alt_fs_list /\ UNCHANGED alt_dev_list

Least(S) == CHOOSE i \in S : \A j \in S : i <= j
alt_find_dev(name) == IF name \in ToSet(alt_dev_list) THEN name ELSE None
\* The first file system of the list whose mount point contains the name.
alt_find_file(name) ==
  LET matching == {k \in DOMAIN alt_fs_list : IsPrefix(alt_fs_list[k], name)} IN
  IF matching = {} THEN None ELSE alt_fs_list[Least(matching)]

-----------------------------------------------------------------------------
(* The pool.                                                               *)

Free == {i \in Fds : alt_fd_list[i].dev = None}
\* mutant: the scan stops one short
ScannedShort(fd) == {i \in Fds : i < alt_max_fd \/ i < fd}
\* Descriptors alt_file_locked looks at, once slot fd is allocated.
Scanned(fd) == {i \in Fds : i <= alt_max_fd \/ i <= fd}
alt_file_locked(fd, dev) ==
  \E i \in Scanned(fd) : /\ alt_fd_list[i].dev = dev
                         /\ "EXCL" \in alt_fd_list[i].fd_flags /\ i # fd

\* mutant: nothing is given back
ReleasedNot(list, fd) == list
\* alt_release_fd
Released(list, fd) ==
  IF fd > 2 THEN [list EXCEPT ![fd].fd_flags = {}, ![fd].dev = None] ELSE list

Highest(fd) == IF fd > alt_max_fd THEN fd ELSE alt_max_fd

OpenFlags(flags, dev) ==
  (flags \ ALT_FD_FLAGS_MASK) \cup (IF dev \in Mounts THEN {} ELSE {"DEV"})

\* alt_get_fd and the test for a lock: the slot with its new contents, or the
\* error.  ok is what the open callback of the driver answers.
Opened(name, flags, ok) ==
  LET found == alt_find_dev(name)
      dev == IF found # None THEN found ELSE alt_find_file(name) IN
  IF dev = None THEN [err |-> "ENODEV", fd |-> -1, list |-> alt_fd_list, max |-> alt_max_fd]
  ELSE IF Free = {} THEN [err |-> "EMFILE", fd |-> -1, list |-> alt_fd_list, max |-> alt_max_fd]
  ELSE
    LET fd == Least(Free)
        called == "open" \in Callbacks[dev]
        refused == found # None /\ alt_file_locked(fd, dev)
        err == IF refused THEN "EACCES" ELSE IF called /\ ~ok THEN "EIO" ELSE "none"
        priv == IF called /\ ok /\ ~refused THEN dev ELSE alt_fd_list[fd].priv
        filled == [alt_fd_list EXCEPT ![fd] = [dev |-> dev, priv |-> priv,
                                               fd_flags |-> OpenFlags(flags, dev)]] IN
    [err |-> err, fd |-> fd, max |-> Highest(fd),
     list |-> IF err = "none" THEN filled ELSE Released(filled, fd)]

-----------------------------------------------------------------------------
(* System calls.  A descriptor of the application is a standard stream, one *)
(* that open() returned, or -1.                                             *)

Usable == {-1, 0, 1, 2} \cup held

Open(name, flags, ok) ==
  /\ pc = "main"
  /\ LET o == Opened(name, flags, ok) IN
     /\ alt_fd_list' = o.list /\ alt_max_fd' = o.max
     /\ held' = IF o.err = "none" THEN held \cup {o.fd} ELSE held
     /\ Returns("open", -1, o.err)
  /\ UNCHANGED <<lists, pc>>

\* The descriptor is free whatever the close callback answers.
Close(fd, ok) ==
  /\ pc = "main" /\ fd \in Usable
  /\ IF fd < 0 THEN Returns("close", -1, "EBADFD") /\ UNCHANGED <<alt_fd_list, held>>
     ELSE /\ Returns("close", -1, IF "close" \in Callbacks[alt_fd_list[fd].dev] /\ ~ok
                                    THEN "EIO" ELSE "none")
          /\ alt_fd_list' = Released(alt_fd_list, fd)
          /\ held' = held \ {fd}
  /\ UNCHANGED <<lists, alt_max_fd, pc>>

\* alt_fd_lock: the loop ends before alt_max_fd.
Others(fd) == {i \in 0..(alt_max_fd - 1) : i # fd /\ alt_fd_list[i].dev = alt_fd_list[fd].dev}

\* alt_fd_unlock
Unlocked(flags) == flags \ {"EXCL"}

\* The value is what ioctl() returns.
Ioctl(fd, req) ==
  /\ pc = "main" /\ fd \in Usable
  /\ IF fd < 0 THEN Returns(req, fd, "-EBADFD") /\ UNCHANGED alt_fd_list
     ELSE IF "DEV" \in alt_fd_list[fd].fd_flags /\ req = "TIOCEXCL" THEN
       IF Others(fd) = {}
         THEN /\ alt_fd_list' = [alt_fd_list EXCEPT ![fd].fd_flags = @ \cup {"EXCL"}]
              /\ Returns(req, fd, "0")
         ELSE Returns(req, fd, "-EACCES") /\ UNCHANGED alt_fd_list
     ELSE IF "DEV" \in alt_fd_list[fd].fd_flags /\ req = "TIOCNXCL" THEN
       /\ alt_fd_list' = [alt_fd_list EXCEPT ![fd].fd_flags = Unlocked(@)]
       /\ Returns(req, fd, "0")
     ELSE /\ Returns(req, fd, IF "ioctl" \in Callbacks[alt_fd_list[fd].dev] THEN "driver"
                              ELSE "-ENOTTY")
          /\ UNCHANGED alt_fd_list
  /\ UNCHANGED <<lists, alt_max_fd, pc, held>>

\* mutant: the flags are replaced
SetFlagsAll(old, flags) == flags
SetFlags(old, flags) == (old \ ALT_FCNTL_FLAGS_MASK) \cup (flags \cap ALT_FCNTL_FLAGS_MASK)

FcntlSet(fd, flags) ==
  /\ pc = "main" /\ fd \in Usable
  /\ IF fd < 0 THEN Returns("F_SETFL", fd, "EBADFD") /\ UNCHANGED alt_fd_list
     ELSE /\ alt_fd_list' = [alt_fd_list EXCEPT ![fd].fd_flags = SetFlags(@, flags)]
          /\ Returns("F_SETFL", fd, "0")
  /\ UNCHANGED <<lists, alt_max_fd, pc, held>>

\* read(), write(), lseek() and fstat(): who answers.
Reads(fd) ==
  IF fd < 0 THEN "EBADFD"
  ELSE IF "WRONLY" \notin alt_fd_list[fd].fd_flags /\ "read" \in Callbacks[alt_fd_list[fd].dev]
         THEN "driver" ELSE "EACCES"
Writes(fd) ==
  IF fd < 0 THEN "EBADFD"
  ELSE IF /\ {"WRONLY", "RDWR"} \cap alt_fd_list[fd].fd_flags # {}
          /\ "write" \in Callbacks[alt_fd_list[fd].dev]
         THEN "driver" ELSE "EACCES"
Seeks(fd) ==
  IF fd < 0 THEN "EBADFD"
  ELSE IF "lseek" \in Callbacks[alt_fd_list[fd].dev] THEN "driver" ELSE "ENOTSUP"
Stats(fd) ==
  IF fd < 0 THEN "EBADFD"
  ELSE IF "fstat" \in Callbacks[alt_fd_list[fd].dev] THEN "driver" ELSE "_IFCHR"

\* isatty() looks at st_mode also when the fstat callback has failed and has not
\* written it.
Isatty(fd, mode) ==
  /\ pc = "main" /\ fd \in Usable
  /\ mode \in (IF Stats(fd) = "driver" THEN {"_IFCHR", "_IFREG", "failed"} ELSE {Stats(fd)})
  /\ \E tty \in (IF mode = "failed" THEN {"0", "1"} ELSE {IF mode = "_IFCHR" THEN "1" ELSE "0"}) :
       result' = [call |-> "isatty", fd |-> fd, val |-> tty, mode |-> mode]
  /\ UNCHANGED <<lists, alt_fd_list, alt_max_fd, pc, held>>

\* stat() opens the file, asks fstat() and closes it: an open that failed makes
\* the other two fail with EBADFD.
Stat(name, ok) ==
  /\ pc = "main"
  /\ LET o == Opened(name, {}, ok) IN
     /\ alt_fd_list' = IF o.err = "none" THEN Released(o.list, o.fd) ELSE o.list
     /\ alt_max_fd' = o.max
     /\ Returns("stat", -1, IF o.err = "none" THEN "none" ELSE "EBADFD")
  /\ UNCHANGED <<lists, pc, held>>

-----------------------------------------------------------------------------
(* alt_io_redirect: standard output, input and error, in this order.       *)

Copied(list, fd, o) == [list EXCEPT ![fd] = o.list[o.fd]]

\* alt_open_fd
OpenFd(fd, name, flags, ok) ==
  LET o == Opened(name, flags, ok) IN
  /\ alt_fd_list' = IF o.err = "none" THEN Released(Copied(o.list, fd, o), o.fd) ELSE o.list
  /\ alt_max_fd' = o.max

RedirectStream(from, fd, name, flags, to) ==
  /\ pc = from /\ pc' = to
  /\ \E ok \in BOOLEAN : OpenFd(fd, name, flags, ok)
  /\ UNCHANGED <<lists, held, result>>

StartRedirect ==
  /\ pc = "init" /\ pc' = "stdout"
  /\ UNCHANGED <<lists, alt_fd_list, alt_max_fd, held, result>>
Redirect ==
  \/ RedirectStream("stdout", 1, Stdout, {"WRONLY"}, "stdin")
  \/ RedirectStream("stdin", 0, Stdin, {}, "stderr")
  \/ RedirectStream("stderr", 2, Stderr, {"WRONLY"}, "main")

-----------------------------------------------------------------------------
(* The same calls with ALT_USE_DIRECT_DRIVERS: the device that answers, or  *)
(* the error.                                                               *)

DirectRead(fd) == IF fd = 0 THEN Stdin ELSE None
DirectWrite(fd) == CASE fd = 1 -> Stdout [] fd = 2 -> Stderr [] OTHER -> None
DirectIoctl(fd) == CASE fd = 0 -> Stdin [] fd = 1 -> Stdout [] fd = 2 -> Stderr [] OTHER -> None
DirectFstat(fd) == IF fd \in 0..2 THEN "_IFCHR" ELSE "-1"

-----------------------------------------------------------------------------
Init ==
  /\ alt_dev_list = <<Null>> /\ alt_fs_list = <<>>
  /\ alt_fd_list = [i \in Fds |-> [dev |-> IF i <= 2 THEN Null ELSE None, priv |-> None,
                                   fd_flags |-> {}]]
  /\ alt_max_fd = -1
  /\ pc = "init" /\ held = {} /\ result = [call |-> "none", fd |-> -1, val |-> "none"]

Next ==
  \/ \E name \in Devices : RegisterDevice(name)
  \/ \E name \in Mounts : RegisterFs(name)
  \/ StartRedirect \/ Redirect
  \/ \E name \in Files, flags \in AppFlags, ok \in BOOLEAN : Open(name, flags, ok)
  \/ \E name \in Files, ok \in BOOLEAN : Stat(name, ok)
  \/ \E fd \in Fds \cup {-1} :
       \/ \E ok \in BOOLEAN : Close(fd, ok)
       \/ \E req \in {"TIOCEXCL", "TIOCNXCL", "other"} : Ioctl(fd, req)
       \/ \E flags \in AppFlags : FcntlSet(fd, flags)
       \/ \E mode \in {"_IFCHR", "_IFREG", "failed", "EBADFD"} : Isatty(fd, mode)

Spec == Init /\ [][Next]_vars

-----------------------------------------------------------------------------
TypeOK ==
  /\ alt_fd_list \in [Fds -> Entry] /\ alt_max_fd \in Fds \cup {-1}
  /\ held \subseteq Fds
  /\ pc \in {"init", "stdout", "stdin", "stderr", "main"}

Users(dev) == {i \in Fds : alt_fd_list[i].dev = dev}
Locked(dev) == \E i \in Users(dev) : "EXCL" \in alt_fd_list[i].fd_flags

\* "Further calls to open() for this device will fail until the lock is released"
\* (alt_fd_lock.c): no descriptor of a locked device is added, whatever was
\* opened and closed before and above it.
LockHolds == [][\A dev \in Devices : Locked(dev) => Users(dev)' \subseteq Users(dev)]_vars

\* The pool holds what open() gave to the application and close() did not take
\* back, whichever step of an open or of a redirection failed.
NoLeak == {i \in Fds : i > 2 /\ alt_fd_list[i].dev # None} = held

\* The standard streams always have a device, so a call on them never follows an
\* empty pointer.
StreamsOpen == \A i \in 0..2 : alt_fd_list[i].dev # None

PoolInv == TypeOK /\ NoLeak /\ StreamsOpen

\* Both builds send the standard streams to the same devices, if these are
\* registered and have no open callback that may fail.
DirectAgrees ==
  pc = "main" /\ {Stdin, Stdout, Stderr} \subseteq ToSet(alt_dev_list)
  /\ (\A dev \in {Stdin, Stdout, Stderr} : "open" \notin Callbacks[dev]) =>
    /\ "read" \in Callbacks[Stdin] => Reads(0) = "driver"
    /\ \A fd \in 0..2 :
         /\ alt_fd_list[fd].dev = DirectIoctl(fd)
         /\ fd # 0 /\ "write" \in Callbacks[DirectWrite(fd)] => Writes(fd) = "driver"
         /\ Reads(fd) = "driver" => DirectRead(fd) = alt_fd_list[fd].dev
         /\ Stats(fd) = "_IFCHR" => DirectFstat(fd) = "_IFCHR"

\* "Only the flags: O_APPEND and O_NONBLOCK can be updated by a call to fcntl().
\* All other flags remain unchanged": an open descriptor keeps its access mode,
\* and loses its lock only by its own TIOCNXCL. The streams stay where the other
\* build has them.
DescriptorsKept ==
  [][/\ pc' # pc \/ (\E i \in 0..2 : alt_fd_list'[i] # alt_fd_list[i]) => DirectAgrees'
     /\ \A i \in held \cap held' :
         LET old == alt_fd_list[i].fd_flags
             new == alt_fd_list'[i].fd_flags IN
         /\ \A b \in {"WRONLY", "RDWR", "DEV"} : (b \in old) <=> (b \in new)
         /\ "EXCL" \in old /\ "EXCL" \notin new =>
               result'.call = "TIOCNXCL" /\ result'.fd = i]_vars
=======================================================================================
