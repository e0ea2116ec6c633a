-------------------------------- MODULE AltFiles_proofs --------------------------------
(***************************************************************************)
(* For every size of the pool and every set of devices, file systems and   *)
(* callbacks: nothing of the pool is lost, the standard streams always     *)
(* have a device, and a locked device gets no further descriptor.          *)
(***************************************************************************)
EXTENDS AltFiles, TLAPS, WellFoundedInduction

\* The lock is found because it lies below the high-water mark; no descriptor is
\* handed out or locked before the streams are redirected.
HighWater == \A i \in Fds : i > 2 /\ alt_fd_list[i].dev # None => i <= alt_max_fd
Quiet == pc # "main" => held = {} /\ \A i \in Fds : "EXCL" \notin alt_fd_list[i].fd_flags
Lists == alt_dev_list \in Seq(Devices \cup {Null}) /\ alt_fs_list \in Seq(Mounts)
IInv == TypeOK /\ Lists /\ NoLeak /\ StreamsOpen /\ HighWater /\ Quiet

-----------------------------------------------------------------------------
\* A set of numbers that is not empty has a least element, which Least chooses.
LEMMA LeastIn ==
  ASSUME NEW S, S \subseteq Nat, S # {}
  PROVE  Least(S) \in S
<1>1. PICK x \in S : \A y \in S : ~ (<<y, x>> \in OpToRel(<, Nat))
  BY NatLessThanWellFounded, WFMin
<1>2. \A y \in S : x <= y
  <2> SUFFICES ASSUME NEW y \in S PROVE x <= y
    OBVIOUS
  <2>1. x \in Nat /\ y \in Nat
    OBVIOUS
  <2>2. ~ (y < x)
    BY <1>1, <2>1 DEF OpToRel
  <2> QED
    BY <2>1, <2>2
<1> QED
  BY <1>2 DEF Least

\* alt_find_dev and alt_find_file return a name of their list or none.
LEMMA FindDev ==
  ASSUME Lists, NEW name
  PROVE  alt_find_dev(name) \in Devices \cup {Null, None}
BY DEF alt_find_dev, Lists, ToSet

LEMMA FindFile ==
  ASSUME Lists, NEW name
  PROVE  alt_find_file(name) \in Mounts \cup {None}
<1> DEFINE matching == {k \in DOMAIN alt_fs_list : IsPrefix(alt_fs_list[k], name)}
<1>1. CASE matching = {}
  BY <1>1 DEF alt_find_file
<1>2. CASE matching # {}
  <2>1. matching \subseteq Nat /\ matching \subseteq DOMAIN alt_fs_list
    BY DEF Lists
  <2>2. Least(matching) \in DOMAIN alt_fs_list
    BY <1>2, <2>1, LeastIn
  <2>3. alt_fs_list[Least(matching)] \in Mounts
    BY <2>2 DEF Lists
  <2> QED
    BY <1>2, <2>3 DEF alt_find_file
<1> QED
  BY <1>1, <1>2

\* Released keeps every slot but its own, which it empties when it is not a stream.
LEMMA ReleasedFacts ==
  ASSUME NEW l \in [Fds -> Entry], NEW fd \in Fds
  PROVE  /\ Released(l, fd) \in [Fds -> Entry]
         /\ \A i \in Fds : i # fd => Released(l, fd)[i] = l[i]
         /\ fd > 2 => /\ Released(l, fd)[fd].dev = None
                      /\ Released(l, fd)[fd].fd_flags = {}
         /\ fd <= 2 => Released(l, fd) = l
<1>1. l[fd] \in Entry
  OBVIOUS
<1>2. [l[fd] EXCEPT !.fd_flags = {}] \in Entry
  BY <1>1 DEF Entry
<1>3. [[l[fd] EXCEPT !.fd_flags = {}] EXCEPT !.dev = None] \in Entry
  BY <1>2 DEF Entry
<1>4. [l EXCEPT ![fd].fd_flags = {}, ![fd].dev = None]
        = [l EXCEPT ![fd] = [[l[fd] EXCEPT !.fd_flags = {}] EXCEPT !.dev = None]]
  BY <1>1 DEF Entry
<1>5. CASE fd > 2
  <2>1. Released(l, fd) = [l EXCEPT ![fd] = [[l[fd] EXCEPT !.fd_flags = {}] EXCEPT !.dev = None]]
    BY <1>4, <1>5 DEF Released
  <2>2. /\ [[l[fd] EXCEPT !.fd_flags = {}] EXCEPT !.dev = None].dev = None
        /\ [[l[fd] EXCEPT !.fd_flags = {}] EXCEPT !.dev = None].fd_flags = {}
    BY <1>1 DEF Entry
  <2> QED
    BY <1>3, <1>5, <2>1, <2>2 DEF Fds
<1>6. CASE ~(fd > 2)
  BY <1>6 DEF Released, Fds
<1> QED
  BY <1>5, <1>6

\* What open() does to the pool: an allocated slot was free and its device is not
\* locked; after an error no slot has changed its device or got a lock.
Added(o) ==
  /\ o.fd \in Fds /\ o.fd > 2 /\ alt_fd_list[o.fd].dev = None
  /\ o.list[o.fd].dev \in Names /\ "EXCL" \notin o.list[o.fd].fd_flags
  /\ \A i \in Fds : i # o.fd => o.list[i] = alt_fd_list[i]
  /\ o.max >= o.fd
  /\ o.list[o.fd].dev \in Devices => ~ Locked(o.list[o.fd].dev)
NotAdded(o) ==
  \A i \in Fds : \/ o.list[i] = alt_fd_list[i]
                 \/ /\ i > 2 /\ alt_fd_list[i].dev = None /\ o.list[i].dev = None
                    /\ o.list[i].fd_flags = {}

LEMMA OpenedFacts ==
  ASSUME FilesAssumption, IInv, NEW name, NEW flags \in SUBSET Bits, NEW ok \in BOOLEAN,
         NEW o, o = Opened(name, flags, ok)
  PROVE  /\ o.list \in [Fds -> Entry] /\ o.max \in Fds \cup {-1} /\ o.max >= alt_max_fd
         /\ o.err = "none" => Added(o)
         /\ o.err # "none" => NotAdded(o)
<1> DEFINE found == alt_find_dev(name)
           dev == IF found # None THEN found ELSE alt_find_file(name)
           fd == Least(Free)
           called == "open" \in Callbacks[dev]
           refused == found # None /\ alt_file_locked(fd, dev)
           err == IF refused THEN "EACCES" ELSE IF called /\ ~ok THEN "EIO" ELSE "none"
           priv == IF called /\ ok /\ ~refused THEN dev ELSE alt_fd_list[fd].priv
           entry == [dev |-> dev, priv |-> priv, fd_flags |-> OpenFlags(flags, dev)]
           filled == [alt_fd_list EXCEPT ![fd] = entry]
<1>1. dev \in Devices \cup Mounts \cup {Null, None} /\ (found = None => dev \notin Devices)
  BY FindDev, FindFile DEF IInv, FilesAssumption, Names
<1>2. alt_fd_list \in [Fds -> Entry] /\ alt_max_fd \in Fds \cup {-1} /\ Fds \subseteq Int
  BY DEF IInv, TypeOK, Fds
<1>3. CASE dev = None
  <2>1. o = [err |-> "ENODEV", fd |-> -1, list |-> alt_fd_list, max |-> alt_max_fd]
    BY <1>3 DEF Opened
  <2>2. o.list = alt_fd_list /\ o.max = alt_max_fd /\ o.err # "none"
    BY <2>1
  <2> HIDE DEF dev
  <2> QED
    BY <1>2, <2>2 DEF NotAdded
<1>4. CASE dev # None /\ Free = {}
  <2>1. o = [err |-> "EMFILE", fd |-> -1, list |-> alt_fd_list, max |-> alt_max_fd]
    BY <1>4 DEF Opened
  <2>2. o.list = alt_fd_list /\ o.max = alt_max_fd /\ o.err # "none"
    BY <2>1
  <2> HIDE DEF dev
  <2> QED
    BY <1>2, <2>2 DEF NotAdded
<1>5. CASE dev # None /\ Free # {}
  <2>1. o = [err |-> err, fd |-> fd, max |-> Highest(fd),
             list |-> IF err = "none" THEN filled ELSE Released(filled, fd)]
    BY <1>5 DEF Opened
  <2>2. Free \subseteq Fds /\ Fds \subseteq Nat
    BY DEF Free, Fds, FilesAssumption
  <2>3. fd \in Free /\ fd \in Fds /\ alt_fd_list[fd].dev = None
    <3>1. fd \in Free
      BY <1>5, <2>2, LeastIn
    <3> QED
      BY <3>1 DEF Free
  <2>4. fd > 2 /\ fd \in Nat
    <3> HIDE DEF fd
    <3>1. fd \in Nat /\ fd \notin 0..2
      BY <2>2, <2>3 DEF IInv, StreamsOpen
    <3> QED
      BY <3>1
  <2>5. OpenFlags(flags, dev) \subseteq Bits /\ "EXCL" \notin OpenFlags(flags, dev)
    BY DEF OpenFlags, Bits, ALT_FD_FLAGS_MASK
  <2>6. dev \in Names /\ priv \in Names \cup {None}
    BY <1>1, <1>2, <1>5, <2>3 DEF Names, Entry
  <2>7. entry \in Entry /\ entry.dev = dev /\ entry.fd_flags = OpenFlags(flags, dev)
    BY <2>5, <2>6 DEF Entry
  <2> HIDE DEF entry
  <2>8. filled \in [Fds -> Entry] /\ filled[fd] = entry
        /\ \A i \in Fds : i # fd => filled[i] = alt_fd_list[i]
    BY <1>2, <2>3, <2>7
  <2>9. Highest(fd) \in Fds /\ Highest(fd) >= fd /\ Highest(fd) >= alt_max_fd
    BY <1>2, <2>3, <2>4 DEF Highest
  <2> HIDE DEF filled
  <2>10. CASE err = "none"
    <3>1. o.list = filled /\ o.fd = fd /\ o.max = Highest(fd) /\ o.err = "none"
      BY <2>1, <2>10
    <3>2. dev \in Devices => ~Locked(dev)
      <4> SUFFICES ASSUME dev \in Devices, NEW i \in Users(dev), "EXCL" \in alt_fd_list[i].fd_flags
                   PROVE  FALSE
        BY DEF Locked
      <4>1. i \in Fds /\ alt_fd_list[i].dev = dev
        BY DEF Users
      <4>2. i # fd
        BY <1>5, <2>3, <4>1
      <4>3. i \in Scanned(fd)
        <5>1. CASE i > 2
          <6>1. i <= alt_max_fd
            BY <1>5, <4>1, <5>1 DEF IInv, HighWater
          <6> QED
            BY <4>1, <6>1 DEF Scanned
        <5>2. CASE ~(i > 2)
          <6>1. i <= fd
            BY <1>2, <2>4, <4>1, <5>2
          <6> QED
            BY <4>1, <6>1 DEF Scanned
        <5> QED
          BY <5>1, <5>2
      <4>4. alt_file_locked(fd, dev)
        BY <4>1, <4>2, <4>3 DEF alt_file_locked
      <4>5. found # None
        BY <1>1
      <4> QED
        BY <2>10, <4>4, <4>5
    <3>3. Added(o)
      <4>1. o.list[o.fd].dev = dev /\ o.list[o.fd].fd_flags = OpenFlags(flags, dev)
        BY <2>7, <2>8, <3>1
      <4> HIDE DEF dev, found, fd
      <4> QED
        BY <2>3, <2>4, <2>5, <2>6, <2>8, <2>9, <3>1, <3>2, <4>1 DEF Added
    <3> QED
      BY <2>8, <2>9, <3>1, <3>3
  <2>11. CASE err # "none"
    <3>1. o.list = Released(filled, fd) /\ o.max = Highest(fd) /\ o.err # "none"
      BY <2>1, <2>11
    <3>2. /\ o.list \in [Fds -> Entry]
          /\ \A i \in Fds : i # fd => o.list[i] = filled[i]
          /\ o.list[fd].dev = None /\ o.list[fd].fd_flags = {}
      BY <2>3, <2>4, <2>8, <3>1, ReleasedFacts
    <3> HIDE DEF fd, err
    <3>3. NotAdded(o)
      BY <2>3, <2>4, <2>8, <3>2 DEF NotAdded
    <3> QED
      BY <2>9, <3>1, <3>2, <3>3
  <2> QED
    BY <2>10, <2>11
<1> QED
  BY <1>3, <1>4, <1>5

-----------------------------------------------------------------------------
LockStep == \A dev \in Devices : Locked(dev) => Users(dev)' \subseteq Users(dev)

\* A step that changes no device, no list and not the bounds, once main() runs.
LEMMA SameDevices ==
  ASSUME FilesAssumption, IInv, pc = "main", alt_fd_list' \in [Fds -> Entry],
         \A i \in Fds : alt_fd_list'[i].dev = alt_fd_list[i].dev,
         UNCHANGED <<lists, alt_max_fd, pc, held>>
  PROVE  IInv' /\ LockStep
<1>1. TypeOK' /\ Lists'
  BY DEF IInv, TypeOK, Lists, lists
<1>2. NoLeak' /\ StreamsOpen' /\ HighWater'
  <2>1. \A i \in 0..2 : i \in Fds
    BY DEF Fds, FilesAssumption
  <2> QED
    BY <2>1 DEF IInv, NoLeak, StreamsOpen, HighWater
<1>3. Quiet'
  BY DEF Quiet
<1>4. LockStep
  BY DEF LockStep, Users
<1> QED
  BY <1>1, <1>2, <1>3, <1>4 DEF IInv

LEMMA RegisterStep ==
  ASSUME FilesAssumption, IInv, NEW name,
         \/ name \in Devices /\ RegisterDevice(name)
         \/ name \in Mounts /\ RegisterFs(name)
  PROVE  IInv' /\ LockStep
<1>1. Lists'
  <2>1. CASE name \in Mounts /\ RegisterFs(name)
    <3>1. <<name>> \in Seq(Mounts) /\ alt_fs_list \in Seq(Mounts)
      BY <2>1 DEF IInv, Lists
    <3>2. <<name>> \o alt_fs_list \in Seq(Mounts)
      BY <3>1
    <3> QED
      BY <2>1, <3>2 DEF RegisterFs, IInv, Lists
  <2>2. CASE name \in Devices /\ RegisterDevice(name)
    <3> DEFINE S == Devices \cup {Null}
    <3>1. <<name>> \in Seq(S) /\ alt_dev_list \in Seq(S)
      BY <2>2 DEF IInv, Lists
    <3> HIDE DEF S
    <3>2. <<name>> \o alt_dev_list \in Seq(S)
      BY <3>1
    <3> QED
      BY <2>2, <3>2 DEF RegisterDevice, IInv, Lists, S
  <2> QED
    BY <2>1, <2>2
<1>2. UNCHANGED <<alt_fd_list, alt_max_fd, pc, held>>
  BY DEF RegisterDevice, RegisterFs, Registers
<1>3. TypeOK' /\ NoLeak' /\ StreamsOpen' /\ HighWater' /\ Quiet' /\ LockStep
  BY <1>2 DEF IInv, TypeOK, NoLeak, StreamsOpen, HighWater, Quiet, LockStep, Users
<1> QED
  BY <1>1, <1>3 DEF IInv

LEMMA OpenStep ==
  ASSUME FilesAssumption, IInv, NEW name, NEW flags \in SUBSET Bits, NEW ok \in BOOLEAN,
         Open(name, flags, ok)
  PROVE  IInv' /\ LockStep
<1> DEFINE o == Opened(name, flags, ok)
<1>1. /\ o.list \in [Fds -> Entry] /\ o.max \in Fds \cup {-1} /\ o.max >= alt_max_fd
      /\ o.err = "none" => Added(o)
      /\ o.err # "none" => NotAdded(o)
  BY OpenedFacts
<1>2. /\ pc = "main" /\ alt_fd_list' = o.list /\ alt_max_fd' = o.max
      /\ held' = IF o.err = "none" THEN held \cup {o.fd} ELSE held
      /\ UNCHANGED <<lists, pc>>
  BY DEF Open
<1> HIDE DEF o
<1>3. /\ alt_fd_list \in [Fds -> Entry] /\ alt_max_fd \in Fds \cup {-1} /\ Fds \subseteq Int
      /\ held \subseteq Fds /\ \A i \in 0..2 : i \in Fds
  BY DEF IInv, TypeOK, Fds, FilesAssumption
<1>4. Lists' /\ Quiet'
  BY <1>2 DEF IInv, Lists, Quiet, lists
<1>5. CASE o.err = "none"
  <2>1. Added(o)
    BY <1>1, <1>5
  <2>2. /\ o.fd \in Fds /\ o.fd > 2 /\ alt_fd_list[o.fd].dev = None
        /\ alt_fd_list'[o.fd].dev \in Names /\ alt_fd_list'[o.fd].dev # None
        /\ \A i \in Fds : i # o.fd => alt_fd_list'[i] = alt_fd_list[i]
        /\ alt_max_fd' >= o.fd /\ held' = held \cup {o.fd}
        /\ alt_fd_list'[o.fd].dev \in Devices => ~ Locked(alt_fd_list'[o.fd].dev)
    BY <1>2, <1>5, <2>1 DEF Added, FilesAssumption
  <2>3. TypeOK'
    BY <1>1, <1>2, <1>3, <2>2 DEF IInv, TypeOK
  <2>4. NoLeak' /\ StreamsOpen'
    BY <1>3, <2>2 DEF IInv, NoLeak, StreamsOpen
  <2>5. HighWater'
    <3> SUFFICES ASSUME NEW i \in Fds, i > 2, alt_fd_list'[i].dev # None PROVE i <= alt_max_fd'
      BY DEF HighWater
    <3>1. CASE i = o.fd
      BY <1>1, <1>2, <1>3, <2>2, <3>1
    <3>2. CASE i # o.fd
      <4>1. i <= alt_max_fd
        BY <2>2, <3>2 DEF IInv, HighWater
      <4> QED
        BY <1>1, <1>2, <1>3, <4>1
    <3> QED
      BY <3>1, <3>2
  <2>6. LockStep
    <3> SUFFICES ASSUME NEW dev \in Devices, Locked(dev), NEW i \in Users(dev)'
                 PROVE  i \in Users(dev)
      BY DEF LockStep
    <3>1. i \in Fds /\ alt_fd_list'[i].dev = dev
      BY DEF Users
    <3> QED
      BY <2>2, <3>1 DEF Users
  <2> QED
    BY <1>4, <2>3, <2>4, <2>5, <2>6 DEF IInv
<1>6. CASE o.err # "none"
  <2>1. \A i \in Fds : alt_fd_list'[i].dev = alt_fd_list[i].dev
    BY <1>1, <1>2, <1>6 DEF NotAdded
  <2>2. TypeOK' /\ NoLeak' /\ StreamsOpen'
    BY <1>1, <1>2, <1>3, <1>6, <2>1 DEF IInv, TypeOK, NoLeak, StreamsOpen
  <2>3. HighWater'
    <3> SUFFICES ASSUME NEW i \in Fds, i > 2, alt_fd_list'[i].dev # None PROVE i <= alt_max_fd'
      BY DEF HighWater
    <3>1. i <= alt_max_fd
      BY <2>1 DEF IInv, HighWater
    <3> QED
      BY <1>1, <1>2, <1>3, <3>1
  <2>4. LockStep
    BY <2>1 DEF LockStep, Users
  <2> QED
    BY <1>4, <2>2, <2>3, <2>4 DEF IInv
<1> QED
  BY <1>5, <1>6

LEMMA StatStep ==
  ASSUME FilesAssumption, IInv, NEW name, NEW ok \in BOOLEAN, Stat(name, ok)
  PROVE  IInv' /\ LockStep
<1> DEFINE o == Opened(name, {}, ok)
<1>1. /\ o.list \in [Fds -> Entry] /\ o.max \in Fds \cup {-1} /\ o.max >= alt_max_fd
      /\ o.err = "none" => Added(o)
      /\ o.err # "none" => NotAdded(o)
  BY OpenedFacts
<1>2. /\ alt_fd_list' = IF o.err = "none" THEN Released(o.list, o.fd) ELSE o.list
      /\ alt_max_fd' = o.max /\ pc = "main" /\ UNCHANGED <<lists, pc, held>>
  BY DEF Stat
<1> HIDE DEF o
<1>3. /\ alt_fd_list \in [Fds -> Entry] /\ alt_max_fd \in Fds \cup {-1} /\ Fds \subseteq Int
      /\ held \subseteq Fds /\ \A i \in 0..2 : i \in Fds
  BY DEF IInv, TypeOK, Fds, FilesAssumption
<1>4. alt_fd_list' \in [Fds -> Entry] /\ \A i \in Fds : alt_fd_list'[i].dev = alt_fd_list[i].dev
  <2>1. CASE o.err = "none"
    <3>1. Added(o)
      BY <1>1, <2>1
    <3>2. o.fd \in Fds /\ o.fd > 2 /\ alt_fd_list[o.fd].dev = None
      BY <3>1 DEF Added
    <3>3. /\ Released(o.list, o.fd) \in [Fds -> Entry]
          /\ \A i \in Fds : i # o.fd => Released(o.list, o.fd)[i] = o.list[i]
          /\ Released(o.list, o.fd)[o.fd].dev = None
      BY <1>1, <3>2, ReleasedFacts
    <3>4. \A i \in Fds : i # o.fd => o.list[i] = alt_fd_list[i]
      BY <3>1 DEF Added
    <3> QED
      BY <1>2, <2>1, <3>2, <3>3, <3>4
  <2>2. CASE o.err # "none"
    BY <1>1, <1>2, <2>2 DEF NotAdded
  <2> QED
    BY <2>1, <2>2
<1>5. TypeOK' /\ NoLeak' /\ StreamsOpen'
  BY <1>1, <1>2, <1>3, <1>4 DEF IInv, TypeOK, NoLeak, StreamsOpen
<1>6. HighWater'
  <2> SUFFICES ASSUME NEW i \in Fds, i > 2, alt_fd_list'[i].dev # None PROVE i <= alt_max_fd'
    BY DEF HighWater
  <2>1. i <= alt_max_fd
    BY <1>4 DEF IInv, HighWater
  <2>2. alt_max_fd' \in Int /\ alt_max_fd' >= alt_max_fd /\ alt_max_fd \in Int /\ i \in Int
    <3>1. alt_max_fd' = o.max
      BY <1>2
    <3>2. o.max \in Int
      BY <1>1, Fds \subseteq Int DEF Fds
    <3>3. alt_max_fd \in Int
      BY <1>3, Fds \subseteq Int DEF Fds
    <3>4. i \in Int
      BY Fds \subseteq Int DEF Fds
    <3> QED
      BY <1>1, <3>1, <3>2, <3>3, <3>4
  <2> QED
    BY <2>1, <2>2
<1>7. Lists' /\ Quiet' /\ LockStep
  BY <1>2, <1>4 DEF IInv, Lists, Quiet, lists, LockStep, Users
<1> QED
  BY <1>5, <1>6, <1>7 DEF IInv

LEMMA CloseStep ==
  ASSUME FilesAssumption, IInv, NEW fd \in Fds \cup {-1}, NEW ok \in BOOLEAN, Close(fd, ok)
  PROVE  IInv' /\ LockStep
<1>1. alt_fd_list \in [Fds -> Entry] /\ held \subseteq Fds /\ Fds \subseteq Nat
      /\ \A i \in 0..2 : i \in Fds
  BY DEF IInv, TypeOK, Fds, FilesAssumption
<1>2. pc = "main" /\ UNCHANGED <<lists, alt_max_fd, pc>>
  BY DEF Close
<1>3. CASE fd < 0
  <2>1. UNCHANGED <<alt_fd_list, held>>
    BY <1>3 DEF Close
  <2> QED
    BY <1>1, <1>2, <2>1, SameDevices
<1>4. CASE ~(fd < 0)
  <2>1. fd \in Fds /\ alt_fd_list' = Released(alt_fd_list, fd) /\ held' = held \ {fd}
    BY <1>4 DEF Close
  <2>2. /\ alt_fd_list' \in [Fds -> Entry]
        /\ \A i \in Fds : i # fd => alt_fd_list'[i] = alt_fd_list[i]
        /\ fd > 2 => alt_fd_list'[fd].dev = None
        /\ fd <= 2 => alt_fd_list' = alt_fd_list
    BY <1>1, <2>1, ReleasedFacts
  <2>3. TypeOK' /\ Lists' /\ Quiet'
    BY <1>1, <1>2, <2>1, <2>2 DEF IInv, TypeOK, Lists, Quiet, lists
  <2>4. CASE fd > 2
    <3>1. NoLeak' /\ HighWater'
      BY <1>1, <1>2, <2>1, <2>2, <2>4 DEF IInv, NoLeak, HighWater
    <3>3. StreamsOpen'
      <4> SUFFICES ASSUME NEW i \in 0..2 PROVE alt_fd_list'[i].dev # None
        BY DEF StreamsOpen
      <4>1. i # fd /\ i \in Fds
        BY <1>1, <2>4
      <4> QED
        BY <2>2, <4>1 DEF IInv, StreamsOpen
    <3>2. LockStep
      <4>1. \A dev \in Devices : dev # None
        BY DEF FilesAssumption, Names
      <4> QED
        BY <2>1, <2>2, <2>4, <4>1 DEF LockStep, Users
    <3> QED
      BY <2>3, <3>1, <3>2, <3>3 DEF IInv
  <2>5. CASE ~(fd > 2)
    <3>1. fd <= 2 /\ alt_fd_list' = alt_fd_list
      BY <1>1, <2>1, <2>2, <2>5
    <3>2. held' = held
      BY <1>1, <2>1, <3>1 DEF IInv, NoLeak
    <3> QED
      BY <1>1, <1>2, <3>1, <3>2, SameDevices
  <2> QED
    BY <2>4, <2>5
<1> QED
  BY <1>3, <1>4

LEMMA OtherStep ==
  ASSUME FilesAssumption, IInv, NEW fd \in Fds \cup {-1},
         \/ \E req \in {"TIOCEXCL", "TIOCNXCL", "other"} : Ioctl(fd, req)
         \/ \E flags \in AppFlags : FcntlSet(fd, flags)
         \/ \E mode \in {"_IFCHR", "_IFREG", "failed", "EBADFD"} : Isatty(fd, mode)
  PROVE  IInv' /\ LockStep
<1>1. alt_fd_list \in [Fds -> Entry]
  BY DEF IInv, TypeOK
<1>2. pc = "main" /\ UNCHANGED <<lists, alt_max_fd, pc, held>>
  BY DEF Ioctl, FcntlSet, Isatty
<1>3. ASSUME NEW i \in Fds, NEW flags \in SUBSET Bits,
             alt_fd_list' = [alt_fd_list EXCEPT ![i].fd_flags = flags]
      PROVE  IInv' /\ LockStep
  <2>1. alt_fd_list[i] \in Entry
    BY <1>1
  <2>2. [alt_fd_list[i] EXCEPT !.fd_flags = flags] \in Entry
        /\ [alt_fd_list[i] EXCEPT !.fd_flags = flags].dev = alt_fd_list[i].dev
    BY <2>1 DEF Entry
  <2>3. alt_fd_list' \in [Fds -> Entry]
        /\ \A j \in Fds : alt_fd_list'[j].dev = alt_fd_list[j].dev
    BY <1>1, <1>3, <2>2
  <2> QED
    BY <1>2, <2>3, SameDevices
<1>4. ASSUME UNCHANGED alt_fd_list PROVE IInv' /\ LockStep
  BY <1>1, <1>2, <1>4, SameDevices
<1>5. CASE fd < 0
  <2>1. UNCHANGED alt_fd_list
    BY <1>5 DEF Ioctl, FcntlSet, Isatty
  <2> QED
    BY <1>4, <2>1
<1>6. CASE ~(fd < 0)
  <2>1. fd \in Fds /\ alt_fd_list[fd] \in Entry /\ alt_fd_list[fd].fd_flags \in SUBSET Bits
    BY <1>1, <1>6 DEF Entry
  <2>2. CASE \E req \in {"TIOCEXCL", "TIOCNXCL", "other"} : Ioctl(fd, req)
    <3>1. \/ UNCHANGED alt_fd_list
          \/ alt_fd_list' = [alt_fd_list EXCEPT ![fd].fd_flags = alt_fd_list[fd].fd_flags \cup {"EXCL"}]
          \/ alt_fd_list' = [alt_fd_list EXCEPT ![fd].fd_flags = alt_fd_list[fd].fd_flags \ {"EXCL"}]
      BY <1>1, <1>6, <2>1, <2>2 DEF Ioctl, Unlocked
    <3>2. alt_fd_list[fd].fd_flags \cup {"EXCL"} \in SUBSET Bits
          /\ alt_fd_list[fd].fd_flags \ {"EXCL"} \in SUBSET Bits
      BY <2>1 DEF Bits
    <3> QED
      BY <1>3, <1>4, <2>1, <3>1, <3>2
  <2>3. CASE \E flags \in AppFlags : FcntlSet(fd, flags)
    <3>1. PICK flags \in AppFlags : FcntlSet(fd, flags)
      BY <2>3
    <3>2. alt_fd_list' = [alt_fd_list EXCEPT ![fd].fd_flags = SetFlags(alt_fd_list[fd].fd_flags, flags)]
      BY <1>1, <1>6, <2>1, <3>1 DEF FcntlSet
    <3>3. SetFlags(alt_fd_list[fd].fd_flags, flags) \in SUBSET Bits
      BY <2>1 DEF SetFlags, FilesAssumption
    <3> QED
      BY <1>3, <2>1, <3>2, <3>3
  <2>4. CASE \E mode \in {"_IFCHR", "_IFREG", "failed", "EBADFD"} : Isatty(fd, mode)
    <3>1. UNCHANGED alt_fd_list
      BY <2>4 DEF Isatty
    <3> QED
      BY <1>4, <3>1
  <2> QED
    BY <2>2, <2>3, <2>4
<1> QED
  BY <1>5, <1>6

LEMMA RedirectStep ==
  ASSUME FilesAssumption, IInv, NEW from, NEW fd \in 0..2, NEW name, NEW flags \in SUBSET Bits,
         NEW to, from # "main", to \in {"stdin", "stderr", "main"},
         RedirectStream(from, fd, name, flags, to)
  PROVE  IInv' /\ LockStep
<1>1. PICK ok \in BOOLEAN : OpenFd(fd, name, flags, ok)
  BY DEF RedirectStream
<1> DEFINE o == Opened(name, flags, ok)
           copy == Copied(o.list, fd, o)
<1>2. /\ o.list \in [Fds -> Entry] /\ o.max \in Fds \cup {-1} /\ o.max >= alt_max_fd
      /\ o.err = "none" => Added(o)
      /\ o.err # "none" => NotAdded(o)
  BY OpenedFacts
<1>3. /\ alt_fd_list' = IF o.err = "none" THEN Released(copy, o.fd) ELSE o.list
      /\ alt_max_fd' = o.max
  BY <1>1 DEF OpenFd
<1>4. pc = from /\ pc' = to /\ UNCHANGED <<lists, held, result>>
  BY DEF RedirectStream
<1> HIDE DEF o
<1>5. /\ alt_fd_list \in [Fds -> Entry] /\ alt_max_fd \in Fds \cup {-1} /\ Fds \subseteq Int
      /\ fd \in Fds /\ \A i \in 0..2 : i \in Fds
  BY DEF IInv, TypeOK, Fds, FilesAssumption
<1>6. held = {} /\ \A i \in Fds : "EXCL" \notin alt_fd_list[i].fd_flags
  BY <1>4 DEF IInv, Quiet
<1>7. \A i \in Fds : i > 2 => alt_fd_list[i].dev = None
  BY <1>6 DEF IInv, NoLeak
\* The slot of the stream is filled, and nothing stays above the streams.
<1>8. /\ alt_fd_list' \in [Fds -> Entry]
      /\ \A i \in Fds : i > 2 => alt_fd_list'[i].dev = None
      /\ \A i \in Fds : i <= 2 => alt_fd_list'[i].dev # None
      /\ \A i \in Fds : "EXCL" \notin alt_fd_list'[i].fd_flags
  <2>1. \A i \in Fds : i <= 2 => alt_fd_list[i].dev # None
    <3> SUFFICES ASSUME NEW i \in Fds, i <= 2 PROVE alt_fd_list[i].dev # None
      OBVIOUS
    <3>1. i \in 0..2
      BY DEF Fds
    <3> QED
      BY <3>1 DEF IInv, StreamsOpen
  <2>2. CASE o.err = "none"
    <3>1. Added(o)
      BY <1>2, <2>2
    <3>2. o.fd \in Fds /\ o.fd > 2 /\ o.list[o.fd].dev # None /\ "EXCL" \notin o.list[o.fd].fd_flags
          /\ \A i \in Fds : i # o.fd => o.list[i] = alt_fd_list[i]
      BY <3>1 DEF Added, FilesAssumption
    <3>3. copy \in [Fds -> Entry] /\ copy[fd] = o.list[o.fd]
          /\ \A i \in Fds : i # fd => copy[i] = o.list[i]
      BY <1>2, <1>5, <3>2 DEF Copied
    <3> HIDE DEF copy
    <3>4. /\ alt_fd_list' \in [Fds -> Entry]
          /\ \A i \in Fds : i # o.fd => alt_fd_list'[i] = copy[i]
          /\ alt_fd_list'[o.fd].dev = None /\ alt_fd_list'[o.fd].fd_flags = {}
      BY <1>3, <2>2, <3>2, <3>3, ReleasedFacts
    <3>5. ASSUME NEW i \in Fds
          PROVE  /\ i > 2 => alt_fd_list'[i].dev = None
                 /\ i <= 2 => alt_fd_list'[i].dev # None
                 /\ "EXCL" \notin alt_fd_list'[i].fd_flags
      <4>1. CASE i = o.fd
        BY <1>5, <3>2, <3>4, <4>1
      <4>2. CASE i = fd
        <5>1. i # o.fd /\ ~(i > 2)
          BY <1>5, <3>2, <4>2
        <5>2. alt_fd_list'[i] = o.list[o.fd]
          BY <3>3, <3>4, <4>2, <5>1
        <5> QED
          BY <3>2, <5>1, <5>2
      <4>3. CASE i # fd /\ i # o.fd
        <5>1. alt_fd_list'[i] = alt_fd_list[i]
          BY <3>2, <3>3, <3>4, <4>3
        <5> QED
          BY <1>6, <1>7, <2>1, <5>1
      <4> QED
        BY <4>1, <4>2, <4>3
    <3> QED
      BY <3>4, <3>5
  <2>3. CASE o.err # "none"
    <3>1. alt_fd_list' = o.list /\ NotAdded(o)
      BY <1>2, <1>3, <2>3
    <3>2. ASSUME NEW i \in Fds
          PROVE  /\ alt_fd_list'[i].dev = alt_fd_list[i].dev
                 /\ "EXCL" \notin alt_fd_list'[i].fd_flags
      BY <1>6, <3>1 DEF NotAdded
    <3> QED
      BY <1>2, <1>7, <2>1, <3>1, <3>2
  <2> QED
    BY <2>2, <2>3
<1>9. TypeOK' /\ Lists'
  BY <1>2, <1>3, <1>4, <1>8 DEF IInv, TypeOK, Lists, lists
<1>10. NoLeak' /\ HighWater' /\ Quiet'
  BY <1>4, <1>6, <1>8 DEF NoLeak, HighWater, Quiet
<1>11. StreamsOpen'
  BY <1>5, <1>8 DEF StreamsOpen
<1>12. LockStep
  BY <1>6 DEF LockStep, Locked, Users
<1> QED
  BY <1>9, <1>10, <1>11, <1>12 DEF IInv

-----------------------------------------------------------------------------
LEMMA InitInv ==
  ASSUME FilesAssumption, Init
  PROVE  IInv
<1>1. \A i \in Fds : /\ i <= 2 => alt_fd_list[i].dev = Null
                     /\ ~(i <= 2) => alt_fd_list[i].dev = None
                     /\ alt_fd_list[i].fd_flags = {}
  BY DEF Init
<1>2. TypeOK
  BY DEF Init, TypeOK, Entry, Names
<1>3. Lists
  BY DEF Init, Lists
<1>4. Fds \subseteq Int /\ Null # None /\ held = {}
  BY DEF Fds, Null, None, Init
<1>5. NoLeak /\ HighWater /\ Quiet
  <2>1. \A i \in Fds : i > 2 => alt_fd_list[i].dev = None
    BY <1>1, <1>4
  <2> QED
    BY <1>1, <1>4, <2>1 DEF NoLeak, HighWater, Quiet
<1>6. StreamsOpen
  <2>1. \A i \in 0..2 : i \in Fds /\ i <= 2
    BY DEF Fds, FilesAssumption
  <2> QED
    BY <1>1, <1>4, <2>1 DEF StreamsOpen
<1> QED
  BY <1>2, <1>3, <1>5, <1>6 DEF IInv

LEMMA NextInv ==
  ASSUME FilesAssumption, IInv, [Next]_vars
  PROVE  IInv' /\ LockStep
<1>1. CASE Next
  <2>1. CASE \E name \in Devices : RegisterDevice(name)
    BY <2>1, RegisterStep
  <2>2. CASE \E name \in Mounts : RegisterFs(name)
    BY <2>2, RegisterStep
  <2>3. CASE StartRedirect
    <3>1. /\ UNCHANGED <<lists, alt_fd_list, alt_max_fd, held>>
          /\ pc = "init" /\ pc' = "stdout"
      BY <2>3 DEF StartRedirect
    <3> QED
      BY <3>1 DEF IInv, TypeOK, Lists, NoLeak, StreamsOpen, HighWater, Quiet, LockStep, Users, lists
  <2>4. CASE Redirect
    <3>1. {"WRONLY"} \in SUBSET Bits /\ {} \in SUBSET Bits
      BY DEF Bits
    <3>2. CASE RedirectStream("stdout", 1, Stdout, {"WRONLY"}, "stdin")
      BY <3>1, <3>2, RedirectStep
    <3>3. CASE RedirectStream("stdin", 0, Stdin, {}, "stderr")
      BY <3>1, <3>3, RedirectStep
    <3>4. CASE RedirectStream("stderr", 2, Stderr, {"WRONLY"}, "main")
      BY <3>1, <3>4, RedirectStep
    <3> QED
      BY <2>4, <3>2, <3>3, <3>4 DEF Redirect
  <2>5. CASE \E name \in Files, flags \in AppFlags, ok \in BOOLEAN : Open(name, flags, ok)
    <3>1. AppFlags \subseteq SUBSET Bits
      BY DEF FilesAssumption
    <3> QED
      BY <2>5, <3>1, OpenStep
  <2>8. CASE \E name \in Files, ok \in BOOLEAN : Stat(name, ok)
    BY <2>8, StatStep
  <2>6. CASE \E fd \in Fds \cup {-1} : \E ok \in BOOLEAN : Close(fd, ok)
    BY <2>6, CloseStep
  <2>7. CASE \E fd \in Fds \cup {-1} :
               \/ \E req \in {"TIOCEXCL", "TIOCNXCL", "other"} : Ioctl(fd, req)
               \/ \E flags \in AppFlags : FcntlSet(fd, flags)
               \/ \E mode \in {"_IFCHR", "_IFREG", "failed", "EBADFD"} : Isatty(fd, mode)
    BY <2>7, OtherStep
  <2> QED
    BY <1>1, <2>1, <2>2, <2>3, <2>4, <2>5, <2>6, <2>7, <2>8 DEF Next
<1>2. CASE UNCHANGED vars
  BY <1>2 DEF vars, IInv, TypeOK, Lists, NoLeak, StreamsOpen, HighWater, Quiet, LockStep, Users
<1> QED
  BY <1>1, <1>2

LEMMA Invariant == Spec => []IInv
<1>1. Init => IInv
  BY InitInv, FilesAssumption
<1>2. IInv /\ [Next]_vars => IInv'
  BY NextInv, FilesAssumption
<1> QED
  BY <1>1, <1>2, PTL DEF Spec

\* The pool holds exactly what open() gave and close() has not taken back,
\* stat() leaves nothing in it, and the standard streams always have a device.
THEOREM PoolExact == Spec => []PoolInv
<1>1. IInv => PoolInv
  BY DEF IInv, PoolInv
<1> QED
  BY <1>1, Invariant, PTL

\* While a device is locked, open() adds no descriptor for it.
THEOREM LockedStaysAlone == Spec => LockHolds
<1>1. IInv /\ [Next]_vars =>
        [\A dev \in Devices : Locked(dev) => Users(dev)' \subseteq Users(dev)]_vars
  BY NextInv, FilesAssumption DEF LockStep
<1> QED
  BY <1>1, Invariant, PTL DEF Spec, LockHolds

-----------------------------------------------------------------------------
(* An open descriptor keeps its flags, and the streams stay where the other  *)
(* build has them.                                                           *)

FlagsKept(i) ==
  LET old == alt_fd_list[i].fd_flags
      new == alt_fd_list'[i].fd_flags IN
  /\ \A b \in {"WRONLY", "RDWR", "DEV"} : (b \in old) <=> (b \in new)
  /\ "EXCL" \in old /\ "EXCL" \notin new =>
        result'.call = "TIOCNXCL" /\ result'.fd = i
HeldKept == \A i \in held \cap held' : FlagsKept(i)

\* The device and the access mode of a stream.
Directed(i, name, mode) ==
  /\ alt_fd_list[i].dev = name
  /\ "WRONLY" \in alt_fd_list[i].fd_flags <=> "WRONLY" \in mode
  /\ "RDWR" \in alt_fd_list[i].fd_flags <=> "RDWR" \in mode
StreamsSame ==
  \A i \in 0..2 :
    /\ alt_fd_list'[i].dev = alt_fd_list[i].dev
    /\ \A b \in {"WRONLY", "RDWR"} :
         (b \in alt_fd_list'[i].fd_flags) <=> (b \in alt_fd_list[i].fd_flags)

Plain ==
  /\ {Stdin, Stdout, Stderr} \subseteq ToSet(alt_dev_list)
  /\ \A dev \in {Stdin, Stdout, Stderr} : "open" \notin Callbacks[dev]
StreamsInv ==
  Plain => /\ pc \in {"stdin", "stderr", "main"} => Directed(1, Stdout, {"WRONLY"})
           /\ pc \in {"stderr", "main"} => Directed(0, Stdin, {})
           /\ pc = "main" => Directed(2, Stderr, {"WRONLY"})

LEMMA StreamSlots == ASSUME FilesAssumption PROVE \A i \in 0..2 : i \in Fds
BY DEF Fds, FilesAssumption

\* Every step of main() keeps the streams, and the flags of what stays open.
LEMMA OpenKeeps ==
  ASSUME FilesAssumption, IInv, NEW name, NEW flags \in SUBSET Bits, NEW ok \in BOOLEAN,
         NEW o, o = Opened(name, flags, ok)
  PROVE  /\ \A i \in 0..2 : o.list[i] = alt_fd_list[i]
         /\ \A i \in held : o.list[i] = alt_fd_list[i]
         /\ o.err = "none" => o.fd \in Fds /\ o.fd > 2 /\ o.fd \notin held
         /\ o.list \in [Fds -> Entry]
<1>1. /\ o.err = "none" => Added(o)
      /\ o.err # "none" => NotAdded(o)
      /\ o.list \in [Fds -> Entry]
  BY OpenedFacts
<1>2. \A i \in held : i \in Fds /\ alt_fd_list[i].dev # None
  BY DEF IInv, NoLeak
<1>3. \A i \in 0..2 : i \in Fds
  BY StreamSlots
<1>4. CASE o.err = "none"
  <2>1. o.fd \in Fds /\ o.fd > 2 /\ alt_fd_list[o.fd].dev = None
        /\ \A i \in Fds : i # o.fd => o.list[i] = alt_fd_list[i]
    BY <1>1, <1>4 DEF Added
  <2>2. \A i \in 0..2 : i # o.fd
    BY <2>1
  <2> QED
    BY <1>1, <1>2, <1>3, <2>1, <2>2
<1>5. CASE o.err # "none"
  <2>1. NotAdded(o)
    BY <1>1, <1>5
  <2>2. \A i \in 0..2 : ~(i > 2)
    OBVIOUS
  <2> QED
    BY <1>1, <1>2, <1>3, <1>5, <2>1, <2>2 DEF NotAdded
<1> QED
  BY <1>4, <1>5

LEMMA OpenKept ==
  ASSUME FilesAssumption, IInv, NEW name, NEW flags \in SUBSET Bits, NEW ok \in BOOLEAN,
         \/ Open(name, flags, ok)
         \/ flags = {} /\ Stat(name, ok)
  PROVE  StreamsSame /\ HeldKept
<1> DEFINE o == Opened(name, flags, ok)
<1>2. /\ \A i \in 0..2 : o.list[i] = alt_fd_list[i]
      /\ \A i \in held : o.list[i] = alt_fd_list[i]
      /\ o.err = "none" => o.fd \in Fds /\ o.fd > 2 /\ o.fd \notin held
      /\ o.list \in [Fds -> Entry]
  BY OpenKeeps
<1>1. /\ Open(name, flags, ok) => alt_fd_list' = o.list
      /\ flags = {} /\ Stat(name, ok) =>
           alt_fd_list' = IF o.err = "none" THEN Released(o.list, o.fd) ELSE o.list
  BY DEF Open, Stat
<1> HIDE DEF o
<1>3. held \subseteq Fds /\ \A i \in 0..2 : i \in Fds
  BY StreamSlots DEF IInv, TypeOK
<1>4. /\ \A i \in 0..2 : alt_fd_list'[i] = alt_fd_list[i]
      /\ \A i \in held : alt_fd_list'[i] = alt_fd_list[i]
  <2>1. CASE Open(name, flags, ok)
    BY <1>1, <1>2, <2>1
  <2>2. CASE flags = {} /\ Stat(name, ok)
    <3>1. alt_fd_list' = IF o.err = "none" THEN Released(o.list, o.fd) ELSE o.list
      BY <1>1, <2>2
    <3>2. CASE o.err = "none"
      <4>1. \A i \in Fds : i # o.fd => Released(o.list, o.fd)[i] = o.list[i]
        BY <1>2, <3>2, ReleasedFacts
      <4>2. \A i \in 0..2 : i # o.fd
        BY <1>2, <3>2
      <4> QED
        BY <1>2, <1>3, <3>1, <3>2, <4>1, <4>2
    <3>3. CASE o.err # "none"
      BY <1>2, <3>1, <3>3
    <3> QED
      BY <3>2, <3>3
  <2> QED
    BY <2>1, <2>2
<1> QED
  BY <1>4 DEF StreamsSame, HeldKept, FlagsKept

LEMMA CloseKept ==
  ASSUME FilesAssumption, IInv, NEW fd \in Fds \cup {-1}, NEW ok \in BOOLEAN, Close(fd, ok)
  PROVE  StreamsSame /\ HeldKept
<1>1. alt_fd_list \in [Fds -> Entry] /\ held \subseteq Fds /\ \A i \in 0..2 : i \in Fds
  BY StreamSlots DEF IInv, TypeOK
<1>2. /\ \A i \in 0..2 : alt_fd_list'[i] = alt_fd_list[i]
      /\ \A i \in held \cap held' : alt_fd_list'[i] = alt_fd_list[i]
  <2>1. CASE fd < 0
    BY <2>1 DEF Close
  <2>2. CASE ~(fd < 0)
    <3>1. fd \in Fds /\ alt_fd_list' = Released(alt_fd_list, fd) /\ held' = held \ {fd}
      BY <2>2 DEF Close
    <3>2. /\ \A i \in Fds : i # fd => alt_fd_list'[i] = alt_fd_list[i]
          /\ fd <= 2 => alt_fd_list' = alt_fd_list
      BY <1>1, <3>1, ReleasedFacts
    <3>3. \A i \in 0..2 : i = fd => fd <= 2
      OBVIOUS
    <3> QED
      BY <1>1, <3>1, <3>2, <3>3
  <2> QED
    BY <2>1, <2>2
<1> QED
  BY <1>2 DEF StreamsSame, HeldKept, FlagsKept

LEMMA OtherKept ==
  ASSUME FilesAssumption, IInv, NEW fd \in Fds \cup {-1},
         \/ \E req \in {"TIOCEXCL", "TIOCNXCL", "other"} : Ioctl(fd, req)
         \/ \E flags \in AppFlags : FcntlSet(fd, flags)
         \/ \E mode \in {"_IFCHR", "_IFREG", "failed", "EBADFD"} : Isatty(fd, mode)
  PROVE  StreamsSame /\ HeldKept
<1>1. alt_fd_list \in [Fds -> Entry] /\ held \subseteq Fds /\ \A i \in 0..2 : i \in Fds
  BY StreamSlots DEF IInv, TypeOK
<1>2. CASE UNCHANGED alt_fd_list
  BY <1>2 DEF StreamsSame, HeldKept, FlagsKept
\* The flags of one descriptor change, and only the two groups of bits.
<1>3. ASSUME fd \in Fds, NEW flags \in SUBSET Bits,
             alt_fd_list' = [alt_fd_list EXCEPT ![fd].fd_flags = flags],
             \A b \in {"WRONLY", "RDWR", "DEV"} : (b \in alt_fd_list[fd].fd_flags) <=> (b \in flags),
             "EXCL" \in alt_fd_list[fd].fd_flags /\ "EXCL" \notin flags =>
               result'.call = "TIOCNXCL" /\ result'.fd = fd
      PROVE  StreamsSame /\ HeldKept
  <2>1. alt_fd_list[fd] \in Entry
    BY <1>1, <1>3
  <2>2. [alt_fd_list[fd] EXCEPT !.fd_flags = flags].fd_flags = flags
        /\ [alt_fd_list[fd] EXCEPT !.fd_flags = flags].dev = alt_fd_list[fd].dev
    BY <2>1 DEF Entry
  <2>3. /\ alt_fd_list'[fd].fd_flags = flags /\ alt_fd_list'[fd].dev = alt_fd_list[fd].dev
        /\ \A i \in Fds : i # fd => alt_fd_list'[i] = alt_fd_list[i]
    BY <1>1, <1>3, <2>2
  <2>4. StreamsSame
    <3> SUFFICES ASSUME NEW i \in 0..2
                 PROVE  /\ alt_fd_list'[i].dev = alt_fd_list[i].dev
                        /\ \A b \in {"WRONLY", "RDWR"} :
                             (b \in alt_fd_list'[i].fd_flags) <=> (b \in alt_fd_list[i].fd_flags)
      BY DEF StreamsSame
    <3>1. CASE i = fd
      BY <1>3, <2>3, <3>1
    <3>2. CASE i # fd
      BY <1>1, <2>3, <3>2
    <3> QED
      BY <3>1, <3>2
  <2>5. HeldKept
    <3> SUFFICES ASSUME NEW i \in held PROVE FlagsKept(i)
      BY DEF HeldKept
    <3>1. CASE i = fd
      BY <1>3, <2>3, <3>1 DEF FlagsKept
    <3>2. CASE i # fd
      <4>1. alt_fd_list'[i] = alt_fd_list[i]
        BY <1>1, <2>3, <3>2
      <4> QED
        BY <4>1 DEF FlagsKept
    <3> QED
      BY <3>1, <3>2
  <2> QED
    BY <2>4, <2>5
<1>4. CASE fd < 0
  BY <1>2, <1>4 DEF Ioctl, FcntlSet, Isatty
<1>5. CASE ~(fd < 0)
  <2>1. fd \in Fds /\ alt_fd_list[fd].fd_flags \in SUBSET Bits
    BY <1>1, <1>5 DEF Entry
  <2>2. ASSUME NEW req \in {"TIOCEXCL", "TIOCNXCL", "other"}, Ioctl(fd, req)
        PROVE  StreamsSame /\ HeldKept
    <3>1. \/ UNCHANGED alt_fd_list
          \/ alt_fd_list' = [alt_fd_list EXCEPT ![fd].fd_flags = alt_fd_list[fd].fd_flags \cup {"EXCL"}]
          \/ /\ alt_fd_list' = [alt_fd_list EXCEPT ![fd].fd_flags = alt_fd_list[fd].fd_flags \ {"EXCL"}]
             /\ result' = [call |-> "TIOCNXCL", fd |-> fd, val |-> "0"]
      BY <1>1, <1>5, <2>1, <2>2 DEF Ioctl, Unlocked, Returns
    <3>2. CASE alt_fd_list' = [alt_fd_list EXCEPT ![fd].fd_flags = alt_fd_list[fd].fd_flags \cup {"EXCL"}]
      <4>1. alt_fd_list[fd].fd_flags \cup {"EXCL"} \in SUBSET Bits
        BY <2>1 DEF Bits
      <4> QED
        BY <1>3, <2>1, <3>2, <4>1
    <3>3. CASE /\ alt_fd_list' = [alt_fd_list EXCEPT ![fd].fd_flags = alt_fd_list[fd].fd_flags \ {"EXCL"}]
               /\ result' = [call |-> "TIOCNXCL", fd |-> fd, val |-> "0"]
      <4>1. alt_fd_list[fd].fd_flags \ {"EXCL"} \in SUBSET Bits
            /\ result'.call = "TIOCNXCL" /\ result'.fd = fd
        BY <2>1, <3>3 DEF Bits
      <4> QED
        BY <1>3, <2>1, <3>3, <4>1
    <3> QED
      BY <1>2, <3>1, <3>2, <3>3
  <2>3. ASSUME NEW flags \in AppFlags, FcntlSet(fd, flags)
        PROVE  StreamsSame /\ HeldKept
    <3> DEFINE new == SetFlags(alt_fd_list[fd].fd_flags, flags)
    <3>1. alt_fd_list' = [alt_fd_list EXCEPT ![fd].fd_flags = new]
      BY <1>1, <1>5, <2>1, <2>3 DEF FcntlSet
    <3>2. /\ new \in SUBSET Bits
          /\ \A b \in {"WRONLY", "RDWR", "DEV", "EXCL"} :
               (b \in alt_fd_list[fd].fd_flags) <=> (b \in new)
      BY <2>1 DEF SetFlags, FilesAssumption, ALT_FCNTL_FLAGS_MASK
    <3> HIDE DEF new
    <3> QED
      BY <1>3, <2>1, <3>1, <3>2
  <2>4. ASSUME NEW mode \in {"_IFCHR", "_IFREG", "failed", "EBADFD"}, Isatty(fd, mode)
        PROVE  StreamsSame /\ HeldKept
    BY <1>2, <2>4 DEF Isatty
  <2> QED
    BY <2>2, <2>3, <2>4
<1> QED
  BY <1>4, <1>5

\* A stream whose device is registered and has no open callback gets it: a slot is
\* free, and no device is locked before main() runs.
LEMMA OpenFinds ==
  ASSUME FilesAssumption, IInv, pc # "main", NEW name \in ToSet(alt_dev_list),
         "open" \notin Callbacks[name], NEW flags \in SUBSET Bits, NEW ok \in BOOLEAN,
         NEW o, o = Opened(name, flags, ok)
  PROVE  /\ o.err = "none" /\ o.fd \in Fds /\ o.fd > 2
         /\ o.list[o.fd].dev = name /\ o.list[o.fd].fd_flags = OpenFlags(flags, name)
<1> DEFINE found == alt_find_dev(name)
           dev == IF found # None THEN found ELSE alt_find_file(name)
           fd == Least(Free)
           called == "open" \in Callbacks[dev]
           refused == found # None /\ alt_file_locked(fd, dev)
           err == IF refused THEN "EACCES" ELSE IF called /\ ~ok THEN "EIO" ELSE "none"
           priv == IF called /\ ok /\ ~refused THEN dev ELSE alt_fd_list[fd].priv
           entry == [dev |-> dev, priv |-> priv, fd_flags |-> OpenFlags(flags, dev)]
           filled == [alt_fd_list EXCEPT ![fd] = entry]
<1>1. name \in Names /\ name # None
  BY DEF IInv, Lists, ToSet, Names, FilesAssumption
<1>2. found = name /\ dev = name
  BY <1>1 DEF alt_find_dev
<1>3. 3 \in Free
  <2>1. held = {}
    BY DEF IInv, Quiet
  <2>2. 3 \in Fds
    BY DEF Fds, FilesAssumption
  <2>3. alt_fd_list[3].dev = None
    BY <2>1, <2>2 DEF IInv, NoLeak
  <2> QED
    BY <2>2, <2>3 DEF Free
<1>4. Free \subseteq Fds /\ Fds \subseteq Nat
  BY DEF Free, Fds, FilesAssumption
<1>5. fd \in Free
  BY <1>3, <1>4, LeastIn
<1>6. o = [err |-> err, fd |-> fd, max |-> Highest(fd),
           list |-> IF err = "none" THEN filled ELSE Released(filled, fd)]
  BY <1>1, <1>2, <1>3 DEF Opened
<1>7. ~alt_file_locked(fd, dev)
  BY DEF alt_file_locked, Scanned, IInv, Quiet
<1>8. err = "none"
  BY <1>2, <1>7
<1>9. fd \in Fds /\ fd > 2
  <2> HIDE DEF fd
  <2>1. fd \in Fds /\ alt_fd_list[fd].dev = None
    BY <1>5 DEF Free
  <2>2. fd \in Nat /\ fd \notin 0..2
    BY <1>4, <2>1 DEF IInv, StreamsOpen
  <2> QED
    BY <2>1, <2>2
<1>10. o.err = "none" /\ o.fd = fd /\ o.list = filled
  BY <1>6, <1>8
<1>11. filled[fd] = entry
  BY <1>9 DEF IInv, TypeOK
<1> QED
  BY <1>2, <1>9, <1>10, <1>11

LEMMA Redirected ==
  ASSUME FilesAssumption, IInv, NEW from, from # "main", NEW to, NEW fd \in 0..2, NEW name,
         NEW mode \in SUBSET {"WRONLY", "RDWR"}, RedirectStream(from, fd, name, mode, to)
  PROVE  /\ pc = from /\ pc' = to /\ alt_dev_list' = alt_dev_list
         /\ name \in ToSet(alt_dev_list) /\ "open" \notin Callbacks[name] =>
              Directed(fd, name, mode)'
         /\ \A i \in 0..2 : i # fd => alt_fd_list'[i] = alt_fd_list[i]
<1>1. PICK ok \in BOOLEAN : OpenFd(fd, name, mode, ok)
  BY DEF RedirectStream
<1> DEFINE o == Opened(name, mode, ok)
           copy == Copied(o.list, fd, o)
<1>2. mode \in SUBSET Bits
  BY DEF Bits
<1>3. /\ \A i \in 0..2 : o.list[i] = alt_fd_list[i]
      /\ o.err = "none" => o.fd \in Fds /\ o.fd > 2
      /\ o.list \in [Fds -> Entry]
  BY <1>2, OpenKeeps
<1>4. pc = from /\ pc' = to /\ alt_dev_list' = alt_dev_list
  BY DEF RedirectStream, lists
<1>5. name \in ToSet(alt_dev_list) /\ "open" \notin Callbacks[name] =>
        /\ o.err = "none" /\ o.fd \in Fds /\ o.fd > 2
        /\ o.list[o.fd].dev = name /\ o.list[o.fd].fd_flags = OpenFlags(mode, name)
  BY <1>2, <1>4, OpenFinds
<1>6. alt_fd_list' = IF o.err = "none" THEN Released(copy, o.fd) ELSE o.list
  BY <1>1 DEF OpenFd
<1> HIDE DEF o
<1>7. \A i \in 0..2 : i \in Fds
  BY StreamSlots
<1>8. CASE o.err = "none"
  <2>1. copy \in [Fds -> Entry] /\ copy[fd] = o.list[o.fd]
        /\ \A i \in Fds : i # fd => copy[i] = o.list[i]
    BY <1>3, <1>7, <1>8 DEF Copied
  <2> HIDE DEF copy
  <2>2. \A i \in Fds : i # o.fd => alt_fd_list'[i] = copy[i]
    BY <1>3, <1>6, <1>8, <2>1, ReleasedFacts
  <2>3. \A i \in 0..2 : i # o.fd
    BY <1>3, <1>8
  <2>4. alt_fd_list'[fd] = o.list[o.fd]
    BY <1>7, <2>1, <2>2, <2>3
  <2>5. \A i \in 0..2 : i # fd => alt_fd_list'[i] = alt_fd_list[i]
    BY <1>3, <1>7, <2>1, <2>2, <2>3
  <2>6. ASSUME name \in ToSet(alt_dev_list), "open" \notin Callbacks[name]
        PROVE  Directed(fd, name, mode)'
    <3>1. alt_fd_list'[fd].dev = name /\ alt_fd_list'[fd].fd_flags = OpenFlags(mode, name)
      BY <1>5, <2>4, <2>6
    <3> QED
      BY <3>1 DEF Directed, OpenFlags, ALT_FD_FLAGS_MASK
  <2> QED
    BY <1>4, <2>5, <2>6
<1>9. CASE o.err # "none"
  BY <1>3, <1>4, <1>5, <1>6, <1>9
<1> QED
  BY <1>8, <1>9

\* Before main() a step registers, begins, or redirects a stream; main() keeps all.
LEMMA MainKept ==
  ASSUME FilesAssumption, IInv, Next, pc = "main"
  PROVE  StreamsSame /\ HeldKept /\ pc' = "main" /\ alt_dev_list' = alt_dev_list
<1>1. CASE \E name \in Files, flags \in AppFlags, ok \in BOOLEAN : Open(name, flags, ok)
  <2>1. AppFlags \subseteq SUBSET Bits
    BY DEF FilesAssumption
  <2>2. StreamsSame /\ HeldKept
    BY <1>1, <2>1, OpenKept
  <2>3. pc' = "main" /\ alt_dev_list' = alt_dev_list
    BY <1>1 DEF Open, lists
  <2> QED
    BY <2>2, <2>3
<1>2. CASE \E name \in Files, ok \in BOOLEAN : Stat(name, ok)
  <2>1. PICK name \in Files, ok \in BOOLEAN : Stat(name, ok)
    BY <1>2
  <2>2. {} \in SUBSET Bits
    OBVIOUS
  <2>3. StreamsSame /\ HeldKept
    BY <2>1, <2>2, OpenKept
  <2>4. pc' = "main" /\ alt_dev_list' = alt_dev_list
    BY <2>1 DEF Stat, lists
  <2> QED
    BY <2>3, <2>4
<1>3. CASE \E fd \in Fds \cup {-1} : \E ok \in BOOLEAN : Close(fd, ok)
  <2>1. StreamsSame /\ HeldKept
    BY <1>3, CloseKept
  <2>2. pc' = "main" /\ alt_dev_list' = alt_dev_list
    BY <1>3 DEF Close, lists
  <2> QED
    BY <2>1, <2>2
<1>4. CASE \E fd \in Fds \cup {-1} :
             \/ \E req \in {"TIOCEXCL", "TIOCNXCL", "other"} : Ioctl(fd, req)
             \/ \E flags \in AppFlags : FcntlSet(fd, flags)
             \/ \E mode \in {"_IFCHR", "_IFREG", "failed", "EBADFD"} : Isatty(fd, mode)
  <2>1. StreamsSame /\ HeldKept
    BY <1>4, OtherKept
  <2>2. pc' = "main" /\ alt_dev_list' = alt_dev_list
    BY <1>4 DEF Ioctl, FcntlSet, Isatty, lists
  <2> QED
    BY <2>1, <2>2
<1>5. /\ ~(\E name \in Devices : RegisterDevice(name))
      /\ ~(\E name \in Mounts : RegisterFs(name))
      /\ ~StartRedirect /\ ~Redirect
  BY DEF RegisterDevice, RegisterFs, Registers, StartRedirect, Redirect, RedirectStream
<1> QED
  BY <1>1, <1>2, <1>3, <1>4, <1>5 DEF Next

LEMMA StreamsStep ==
  ASSUME FilesAssumption, IInv, StreamsInv, [Next]_vars
  PROVE  StreamsInv'
<1>1. CASE UNCHANGED vars
  BY <1>1 DEF vars, StreamsInv, Plain, Directed
<1>2. CASE Next /\ pc = "main"
  <2>1. StreamsSame /\ pc' = "main" /\ alt_dev_list' = alt_dev_list
    BY <1>2, MainKept
  <2>2. Plain' => Plain
    BY <2>1 DEF Plain
  <2>3. \A i \in 0..2 : \A name : \A mode : Directed(i, name, mode) => Directed(i, name, mode)'
    BY <2>1 DEF Directed, StreamsSame
  <2> QED
    BY <1>2, <2>1, <2>2, <2>3 DEF StreamsInv
<1>3. CASE \/ \E name \in Devices : RegisterDevice(name)
           \/ \E name \in Mounts : RegisterFs(name)
           \/ StartRedirect
  <2>1. pc' \in {"init", "stdout"}
    BY <1>3 DEF RegisterDevice, RegisterFs, Registers, StartRedirect
  <2> QED
    BY <2>1 DEF StreamsInv
<1>4. CASE Redirect
  <2>1. {"WRONLY"} \in SUBSET {"WRONLY", "RDWR"} /\ {} \in SUBSET {"WRONLY", "RDWR"}
    OBVIOUS
  <2>2. ASSUME alt_dev_list' = alt_dev_list, Plain'
        PROVE  /\ Plain
               /\ \A name \in {Stdin, Stdout, Stderr} :
                    name \in ToSet(alt_dev_list) /\ "open" \notin Callbacks[name]
    BY <2>2 DEF Plain
  <2>3. \A i \in 0..2 : alt_fd_list'[i] = alt_fd_list[i] =>
          \A name : \A mode : Directed(i, name, mode) => Directed(i, name, mode)'
    BY DEF Directed
  <2>4. CASE RedirectStream("stdout", 1, Stdout, {"WRONLY"}, "stdin")
    <3>1. /\ pc' = "stdin" /\ alt_dev_list' = alt_dev_list
          /\ Stdout \in ToSet(alt_dev_list) /\ "open" \notin Callbacks[Stdout] =>
               Directed(1, Stdout, {"WRONLY"})'
      BY <2>1, <2>4, Redirected
    <3> QED
      BY <2>2, <3>1 DEF StreamsInv
  <2>5. CASE RedirectStream("stdin", 0, Stdin, {}, "stderr")
    <3>1. /\ pc = "stdin" /\ pc' = "stderr" /\ alt_dev_list' = alt_dev_list
          /\ Stdin \in ToSet(alt_dev_list) /\ "open" \notin Callbacks[Stdin] =>
               Directed(0, Stdin, {})'
          /\ alt_fd_list'[1] = alt_fd_list[1]
      BY <2>1, <2>5, Redirected
    <3> QED
      BY <2>2, <2>3, <3>1 DEF StreamsInv
  <2>6. CASE RedirectStream("stderr", 2, Stderr, {"WRONLY"}, "main")
    <3>1. /\ pc = "stderr" /\ pc' = "main" /\ alt_dev_list' = alt_dev_list
          /\ Stderr \in ToSet(alt_dev_list) /\ "open" \notin Callbacks[Stderr] =>
               Directed(2, Stderr, {"WRONLY"})'
          /\ alt_fd_list'[1] = alt_fd_list[1] /\ alt_fd_list'[0] = alt_fd_list[0]
      BY <2>1, <2>6, Redirected
    <3> QED
      BY <2>2, <2>3, <3>1 DEF StreamsInv
  <2> QED
    BY <1>4, <2>4, <2>5, <2>6 DEF Redirect
<1>5. CASE Next /\ pc # "main"
  <2>1. /\ ~(\E name \in Files, flags \in AppFlags, ok \in BOOLEAN : Open(name, flags, ok))
        /\ ~(\E name \in Files, ok \in BOOLEAN : Stat(name, ok))
        /\ ~(\E fd \in Fds \cup {-1} :
               \/ \E ok \in BOOLEAN : Close(fd, ok)
               \/ \E req \in {"TIOCEXCL", "TIOCNXCL", "other"} : Ioctl(fd, req)
               \/ \E flags \in AppFlags : FcntlSet(fd, flags)
               \/ \E mode \in {"_IFCHR", "_IFREG", "failed", "EBADFD"} : Isatty(fd, mode))
    BY <1>5 DEF Open, Stat, Close, Ioctl, FcntlSet, Isatty
  <2> QED
    BY <1>3, <1>4, <1>5, <2>1 DEF Next
<1> QED
  BY <1>1, <1>2, <1>5

LEMMA StreamsAgree ==
  ASSUME FilesAssumption, IInv, StreamsInv
  PROVE  DirectAgrees
<1> SUFFICES ASSUME pc = "main", {Stdin, Stdout, Stderr} \subseteq ToSet(alt_dev_list),
                    \A dev \in {Stdin, Stdout, Stderr} : "open" \notin Callbacks[dev]
             PROVE  /\ "read" \in Callbacks[Stdin] => Reads(0) = "driver"
                    /\ \A fd \in 0..2 :
                         /\ alt_fd_list[fd].dev = DirectIoctl(fd)
                         /\ fd # 0 /\ "write" \in Callbacks[DirectWrite(fd)] => Writes(fd) = "driver"
                         /\ Reads(fd) = "driver" => DirectRead(fd) = alt_fd_list[fd].dev
                         /\ Stats(fd) = "_IFCHR" => DirectFstat(fd) = "_IFCHR"
  BY DEF DirectAgrees
<1>1. Directed(0, Stdin, {}) /\ Directed(1, Stdout, {"WRONLY"}) /\ Directed(2, Stderr, {"WRONLY"})
  BY DEF StreamsInv, Plain
<1>2. "read" \in Callbacks[Stdin] => Reads(0) = "driver"
  BY <1>1 DEF Reads, Directed
<1>3. \A fd \in 0..2 : alt_fd_list[fd].dev = DirectIoctl(fd)
  BY <1>1 DEF DirectIoctl, Directed
<1>4. \A fd \in 0..2 : fd # 0 /\ "write" \in Callbacks[DirectWrite(fd)] => Writes(fd) = "driver"
  BY <1>1 DEF DirectWrite, Writes, Directed
<1>5. \A fd \in 0..2 : Reads(fd) = "driver" => DirectRead(fd) = alt_fd_list[fd].dev
  BY <1>1 DEF DirectRead, Reads, Directed
<1>6. \A fd \in 0..2 : DirectFstat(fd) = "_IFCHR"
  BY DEF DirectFstat
<1> QED
  BY <1>2, <1>3, <1>4, <1>5, <1>6

\* An open descriptor keeps its access mode and loses its lock only by its own
\* TIOCNXCL; the streams stay with the devices of the other build.
THEOREM DescriptorsStay == Spec => DescriptorsKept
<1>1. Init => StreamsInv
  BY DEF Init, StreamsInv
<1>2. IInv /\ StreamsInv /\ [Next]_vars => StreamsInv'
  BY StreamsStep, FilesAssumption
<1>3. IInv /\ StreamsInv => DirectAgrees
  BY StreamsAgree, FilesAssumption
<1>4. IInv /\ [Next]_vars => UNCHANGED vars \/ HeldKept
  <2> SUFFICES ASSUME IInv, Next PROVE HeldKept
    OBVIOUS
  <2>1. CASE pc = "main"
    BY <2>1, MainKept, FilesAssumption
  <2>2. CASE pc # "main"
    BY <2>2 DEF IInv, Quiet, HeldKept
  <2> QED
    BY <2>1, <2>2
<1>5. (UNCHANGED vars \/ HeldKept) /\ DirectAgrees' =>
        [/\ pc' # pc \/ (\E i \in 0..2 : alt_fd_list'[i] # alt_fd_list[i]) => DirectAgrees'
         /\ \A i \in held \cap held' :
             LET old == alt_fd_list[i].fd_flags
                 new == alt_fd_list'[i].fd_flags IN
             /\ \A b \in {"WRONLY", "RDWR", "DEV"} : (b \in old) <=> (b \in new)
             /\ "EXCL" \in old /\ "EXCL" \notin new =>
                   result'.call = "TIOCNXCL" /\ result'.fd = i]_vars
  BY DEF HeldKept, FlagsKept
<1> QED
  BY <1>1, <1>2, <1>3, <1>4, <1>5, Invariant, PTL DEF Spec, DescriptorsKept
=======================================================================================
