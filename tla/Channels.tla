------------------------------ MODULE Channels ------------------------------
(***************************************************************************)
(* DMA channels, flash devices and filesystems: drivers register them by   *)
(* name in lists of their own, and a program that has opened one by its    *)
(* name calls the driver through its functions; a file belongs to the      *)
(* filesystem whose name its own begins with. A list is circular, and      *)
(* starts and ends with its head; every device of any list is a node.      *)
(*                                                                         *)
(* The drivers are not part of this repository: what they answer is left   *)
(* open, and that they have been reached is what is kept.                  *)
(*                                                                         *)
(* A definition named Mut... is the one after it with a plausible bug in.  *)
(***************************************************************************)
EXTENDS Integers, SequencesExt

CONSTANTS
  Names,              \* the name of each device, a sequence of characters; <<>> if NULL
  Wanted, Files,      \* the names of devices and of files that programs open
  MAX_STRING_LENGTH,
  NULL

Devices == DOMAIN Names
alt_dma_txchan_list == "alt_dma_txchan_list"
alt_dma_rxchan_list == "alt_dma_rxchan_list"
alt_flash_dev_list == "alt_flash_dev_list"
alt_fs_list == "alt_fs_list"
Lists == {alt_dma_txchan_list, alt_dma_rxchan_list, alt_flash_dev_list, alt_fs_list}
Slash == 47  \* '/'

\* The functions that programs call of a device of each kind.
alt_dma_txchan_dev == {"space", "dma_send", "ioctl"}
alt_dma_rxchan_dev == {"prepare", "ioctl", "depth"}
alt_flash_dev ==
  {"open", "close", "write", "read", "get_info", "erase_block", "write_block", "lock"}
Nodes == Devices \cup Lists

VARIABLES
  next, previous,  \* the pointers of each node
  order,           \* history: the devices registered in each list, the newest first
  search,          \* alt_find_dev: its list, name and the node it is at, or NULL
  fd, opened,      \* the descriptor a program got, and history: what it asked for
  errno,
  reached          \* the function called last, of which driver; of none is -ENODEV

lists == <<next, previous, order>>
channelVars == <<lists, search, fd, opened, errno, reached>>

Init ==
  /\ next = [n \in Nodes |-> IF n \in Lists THEN n ELSE NULL] /\ previous = next
  /\ order = [l \in Lists |-> <<>>] /\ search = NULL
  /\ fd = NULL /\ opened = NULL /\ errno = "0" /\ reached = NULL

-----------------------------------------------------------------------------
(* Registration *)

\* alt_llist_insert: entry becomes the first of the list.
MutInsert(list, entry) ==
  /\ next' = [next EXCEPT ![list] = entry, ![entry] = list]
  /\ previous' = [previous EXCEPT ![entry] = list, ![next[list]] = entry]
Insert(list, entry) ==
  /\ next' = [next EXCEPT ![list] = entry, ![entry] = next[list]]
  /\ previous' = [previous EXCEPT ![entry] = list, ![next[list]] = entry]

\* A driver registers each device once, while nobody searches.
Fresh(dev) == search = NULL /\ \A l \in Lists : \A i \in DOMAIN order[l] : order[l][i] # dev
Inserted(list, dev) == Insert(list, dev) /\ order' = [order EXCEPT ![list] = <<dev>> \o @]

\* alt_dev_llist_insert: a device without a name is refused.
Register(list, dev) ==
  /\ Fresh(dev)
  /\ IF Names[dev] = <<>> THEN errno' = "EINVAL" /\ UNCHANGED lists
                          ELSE Inserted(list, dev) /\ UNCHANGED errno
  /\ UNCHANGED <<search, fd, opened, reached>>
alt_dma_txchan_reg(dev) == Register(alt_dma_txchan_list, dev)
alt_dma_rxchan_reg(dev) == Register(alt_dma_rxchan_list, dev)
alt_flash_device_register(dev) == Register(alt_flash_dev_list, dev)

\* Without a name alt_fs_reg returns -ENODEV and leaves errno alone.
alt_fs_reg(dev) ==
  /\ Fresh(dev) /\ IF Names[dev] = <<>> THEN UNCHANGED lists ELSE Inserted(alt_fs_list, dev)
  /\ UNCHANGED <<search, fd, opened, errno, reached>>

-----------------------------------------------------------------------------
(* alt_find_dev and alt_find_file *)

\* The names are compared up to where one ends or they differ, and match if both end there.
At(name, i) == IF i <= Len(name) THEN name[i] ELSE 0
Match(a, b) ==
  LET stops(i) == \/ At(a, i) = 0 \/ At(b, i) = 0 \/ At(a, i) # At(b, i)
                  \/ i > MAX_STRING_LENGTH
      len == CHOOSE i \in 1 .. (Len(a) + 1) : stops(i) /\ \A j \in 1 .. (i - 1) : ~stops(j)
  IN  At(a, len) = 0 /\ At(b, len) = 0

\* The name of a filesystem ends with its last character, or with a '/' that is its last,
\* and the name of the file there, or with a '/'.
FileMatch(fs, name) ==
  LET ends(i) == At(fs, i) = 0 \/ (At(fs, i) = Slash /\ At(fs, i + 1) = 0)
      stops(i) == ends(i) \/ At(fs, i) # At(name, i) \/ i > MAX_STRING_LENGTH
      len == CHOOSE i \in 1 .. (Len(fs) + 1) : stops(i) /\ \A j \in 1 .. (i - 1) : ~stops(j)
  IN  len <= MAX_STRING_LENGTH /\ ends(len) /\ At(name, len) \in {Slash, 0}
Matches(list, name, dev) ==
  IF list = alt_fs_list THEN FileMatch(Names[dev], name) ELSE Match(name, Names[dev])

Open(list, name) ==
  /\ search = NULL /\ search' = [list |-> list, name |-> name, at |-> next[list]]
  /\ opened' = [list |-> list, name |-> name] /\ fd' = NULL /\ reached' = NULL
  /\ UNCHANGED <<lists, errno>>

Advance ==
  /\ search # NULL /\ search.at # search.list /\ ~Matches(search.list, search.name, search.at)
  /\ search' = [search EXCEPT !.at = next[@]]
  /\ UNCHANGED <<lists, fd, opened, errno, reached>>

\* A DMA channel that is not found is ENODEV; a flash device may have a function open, which
\* has the last word, and a file its filesystem's (module FdTable).
Found ==
  /\ search # NULL /\ search.at # search.list /\ Matches(search.list, search.name, search.at)
  /\ search' = NULL
  /\ IF search.list = alt_flash_dev_list THEN fd' \in {search.at, NULL} ELSE fd' = search.at
  /\ UNCHANGED <<lists, opened, errno, reached>>
NotFound ==
  /\ search # NULL /\ search.at = search.list /\ search' = NULL /\ fd' = NULL
  /\ errno' = IF search.list \in {alt_flash_dev_list, alt_fs_list} THEN errno ELSE "ENODEV"
  /\ UNCHANGED <<lists, opened, reached>>

-----------------------------------------------------------------------------
(* The calls *)

\* Without a channel a DMA call is refused, but alt_dma_rxchan_depth, which programs call
\* only with one. To close a channel does nothing.
Reach(function) == reached' = [driver |-> fd, function |-> function]
Ready(list) == search = NULL /\ opened # NULL /\ opened.list = list
Unchanged == UNCHANGED <<lists, search, fd, opened, errno>>
alt_dma_txchan_call(function) ==
  Ready(alt_dma_txchan_list) /\ Reach(function) /\ Unchanged
alt_dma_rxchan_call(function) ==
  /\ Ready(alt_dma_rxchan_list) /\ (function = "depth" => fd # NULL)
  /\ Reach(function) /\ Unchanged

\* Flash calls do not look whether there is a device; closing none does nothing.
alt_flash_call(function) ==
  Ready(alt_flash_dev_list) /\ fd # NULL /\ Reach(function) /\ Unchanged
alt_flash_close_dev ==
  /\ Ready(alt_flash_dev_list) /\ IF fd = NULL THEN UNCHANGED reached ELSE Reach("close")
  /\ fd' = NULL /\ opened' = NULL
  /\ UNCHANGED <<lists, search, errno>>

Next ==
  \/ \E d \in Devices :
       \/ alt_dma_txchan_reg(d) \/ alt_dma_rxchan_reg(d)
       \/ alt_flash_device_register(d) \/ alt_fs_reg(d)
  \/ \E l \in Lists : \E name \in IF l = alt_fs_list THEN Files ELSE Wanted : Open(l, name)
  \/ Advance \/ Found \/ NotFound
  \/ (\E f \in alt_dma_txchan_dev : alt_dma_txchan_call(f))
  \/ (\E f \in alt_dma_rxchan_dev : alt_dma_rxchan_call(f))
  \/ (\E f \in alt_flash_dev \ {"open", "close"} : alt_flash_call(f))
  \/ alt_flash_close_dev

Spec == Init /\ [][Next]_channelVars

-----------------------------------------------------------------------------
(* Properties *)

TypeOK ==
  /\ next \in [Nodes -> Nodes \cup {NULL}] /\ previous \in [Nodes -> Nodes \cup {NULL}]
  /\ order \in [Lists -> Seq(Devices)] /\ errno \in {"0", "EINVAL", "ENODEV"}
  /\ fd \in Devices \cup {NULL}
  /\ reached # NULL => reached.driver \in Devices \cup {NULL}
  /\ search # NULL => search.at \in Nodes

\* Each list is the circle of the devices registered in it, the newest first, both ways.
ListsAreCircles ==
  \A l \in Lists :
    LET circle == <<l>> \o order[l] \o <<l>>
    IN  \A i \in 1 .. (Len(circle) - 1) :
          next[circle[i]] = circle[i + 1] /\ previous[circle[i + 1]] = circle[i]

\* A program that opens a name reaches a device of exactly that name among those of the
\* kind it asked for; a file belongs to a filesystem, which is its name or one of the
\* directories above it, with or without a '/' at its end. It is told if there is none, and
\* a call reaches a driver that has the function called.
Owns(fs, name) ==
  LET mount == IF fs # <<>> /\ Last(fs) = Slash THEN Front(fs) ELSE fs
  IN  mount = name \/ IsPrefix(Append(mount, Slash), name)
Named(list, name, dev) ==
  IF list = alt_fs_list THEN Owns(Names[dev], name) ELSE Names[dev] = name
Functions(list) ==
  CASE list = alt_dma_txchan_list -> alt_dma_txchan_dev
    [] list = alt_dma_rxchan_list -> alt_dma_rxchan_dev
    [] list = alt_flash_dev_list  -> alt_flash_dev
    [] OTHER                      -> {}
ReachesTheNamed ==
  /\ fd # NULL => fd \in ToSet(order[opened.list]) /\ Named(opened.list, opened.name, fd)
  /\ reached # NULL /\ reached.driver # NULL =>
       \E l \in Lists : reached.driver \in ToSet(order[l]) /\ reached.function \in Functions(l)
  /\ search # NULL /\ search.at = search.list =>
       \A dev \in ToSet(order[search.list]) : ~Named(search.list, search.name, dev)

ChannelsAreFound == ListsAreCircles /\ ReachesTheNamed
=============================================================================
