---------------------------- MODULE MCFilesystemService ----------------------------
(******************************************************************************)
(* The filesystem service, one of its parts in a behaviour: the names of a    *)
(* volume, the data of a file, the device namespace, or the raw storage       *)
(* regions.  The parts share no state the models keep.                        *)
(******************************************************************************)
EXTENDS StorageReservation

CONSTANTS Ino, FileName, TreeFaults, TreeWorkload, Client, Val, DataWorkload, DeviceName,
          Driver, Grant

\* The component a behaviour runs, and that component's variables, in order.
VARIABLES part, r1, r2, r3, r4, r5, r6, r7, r8, r9

vars == <<part, r1, r2, r3, r4, r5, r6, r7, r8, r9, storageVars>>

registers == <<r1, r2, r3, r4, r5, r6, r7, r8, r9>>

Tree == INSTANCE Filesystem WITH
  Name <- FileName, MaxFaults <- TreeFaults, MaxFuse <- 20, MaxLinks <- 4,
  Workload <- TreeWorkload, w <- r1, faults <- r2, load <- r3
Data == INSTANCE FileData WITH
  MaxLen <- 2, MaxOpens <- 2, Workload <- DataWorkload, disk <- r1, opens <- r2,
  holders <- r3, releases <- r4, mem <- r5, want <- r6, next <- r7, dirty <- r8, load <- r9
Devices == INSTANCE DeviceNamespace WITH
  Name <- DeviceName, Admin <- "admin", MaxNodes <- 4, MaxOpens <- 2, nodes <- r1,
  children <- r2, next <- r3, opens <- r4, closes <- r5, ticket <- r6, actor <- r7

\* The same modules without a workload, for the definitions of the workloads.
TreeLoads == INSTANCE Filesystem WITH
  Ino <- Ino, Name <- FileName, MaxFaults <- TreeFaults, MaxFuse <- 20, MaxLinks <- 4,
  Workload <- {}, w <- r1, faults <- r2, load <- r3

\* Volumes to start from, and what is done on them.
Bare == TreeLoads!NoEntries
Volume(tree, kinds, links, up) ==
  [entry |-> tree, kind |-> kinds, links |-> links, up |-> up,
   opens |-> [id \in {} |-> 0], next |-> 1, orphans |-> [i \in {} |-> 0],
   removed |-> [i \in {} |-> 0], fuse |-> 0, ok |-> TRUE]

E(f) == [n \in {TreeLoads!Public(x) : x \in DOMAIN f} |-> f[n[2]]]

TreeWorkload_ == [
  files |-> [start |-> Volume(<<E([a |-> 2, b |-> 3]), E([a |-> 4]), Bare, Bare>>,
                <<"dir", "dir", "file", "file">>, <<3, 2, 1, 1>>, <<1, 1, 0, 0>>),
             kinds |-> {"open", "unlink", "rename", "close"}, opens |-> 2],
  links |-> [start |-> Volume(<<E([a |-> 2, b |-> 3]), Bare, Bare, Bare>>,
                <<"dir", "dir", "file", "free">>, <<3, 2, 1, 0>>, <<1, 1, 0, 0>>),
             kinds |-> {"open", "link", "unlink", "rename", "close"}, opens |-> 2],
  paths |-> [start |-> Volume(<<E([a |-> 2]), E([a |-> 3]), Bare, Bare>>,
                <<"dir", "dir", "file", "free">>, <<3, 2, 1, 0>>, <<1, 1, 0, 0>>),
             kinds |-> {"symlink", "paths"}, opens |-> 0],
  dirs |-> [start |-> Volume(<<E([a |-> 2, b |-> 3]), Bare, Bare, Bare>>,
                <<"dir", "dir", "dir", "free">>, <<4, 2, 2, 0>>, <<1, 1, 1, 0>>),
             kinds |-> {"open", "unlink", "rename", "close"}, opens |-> 2],
  moves |-> [start |-> Volume(<<E([a |-> 2, b |-> 3]), Bare, E([a |-> 4]), Bare>>,
                <<"dir", "dir", "dir", "dir">>, <<4, 2, 3, 2>>, <<1, 1, 1, 3>>),
             kinds |-> {"unlink", "rename"}, opens |-> 0],
  makes |-> [start |-> Volume(<<E([a |-> 2]), Bare, Bare, Bare>>,
                <<"dir", "dir", "free", "free">>, <<3, 2, 0, 0>>, <<1, 1, 0, 0>>),
             kinds |-> {"open", "create", "mkdir", "unlink", "close"}, opens |-> 1]]

\* Three files in two directories, one of them held open while it is replaced.
Replaced_ == [
  replaced |-> [start |-> Volume(<<E([a |-> 2, b |-> 3]), E([a |-> 4, b |-> 5]), Bare,
                                   Bare, Bare>>,
                   <<"dir", "dir", "file", "file", "file">>, <<3, 2, 1, 1, 1>>, <<1, 1, 0, 0, 0>>),
                kinds |-> {"open", "rename", "close"}, opens |-> 1]]

\* What is done with one file, through how many descriptions.
One == {CHOOSE c \in Client : TRUE}
DataWorkload_ == [
  bytes |-> [kinds |-> {"write", "seek"}, clients |-> One, opens |-> 2, append |-> BOOLEAN],
  shared |-> [kinds |-> {"seek", "share"}, clients |-> Client, opens |-> 2, append |-> BOOLEAN],
  modes |-> [kinds |-> {"write", "modes"}, clients |-> One, opens |-> 2, append |-> BOOLEAN],
  sizes |-> [kinds |-> {"modes", "resize"}, clients |-> One, opens |-> 2, append |-> BOOLEAN],
  holes |-> [kinds |-> {"write", "resize"}, clients |-> One, opens |-> 2, append |-> {FALSE}],
  admission |-> [kinds |-> {"resize"}, clients |-> Client, opens |-> 1, append |-> BOOLEAN]]

Unused == "unused"

\* The registers a component has no variable for.
IdleFrom9 == r9 = Unused
IdleFrom8 == r8 = Unused /\ IdleFrom9
IdleFrom7 == r7 = Unused /\ IdleFrom8
IdleFrom6 == r6 = Unused /\ IdleFrom7
IdleFrom5 == r5 = Unused /\ IdleFrom6
IdleFrom4 == r4 = Unused /\ IdleFrom5
IdleFrom3 == r3 = Unused /\ IdleFrom4
IdleFrom2 == r2 = Unused /\ IdleFrom3
IdleFrom1 == r1 = Unused /\ IdleFrom2

\* An extended component that does not run stays as it starts.
StorageIdle == StorageInit

Init ==
  \/ part = "tree" /\ Tree!Init /\ IdleFrom4 /\ StorageIdle
  \/ part = "data" /\ Data!Init /\ StorageIdle
  \/ part = "devices" /\ Devices!Init /\ IdleFrom8 /\ StorageIdle
  \/ part = "storage" /\ StorageInit /\ IdleFrom1

TreeStep == part = "tree" /\ Tree!Next /\ UNCHANGED <<part, r4, r5, r6, r7, r8, r9, storageVars>>
DataStep == part = "data" /\ Data!Next /\ UNCHANGED <<part, storageVars>>
DevicesStep == part = "devices" /\ Devices!Next /\ UNCHANGED <<part, r8, r9, storageVars>>
StorageStep == part = "storage" /\ StorageNext /\ UNCHANGED <<part, registers>>

Next == TreeStep \/ DataStep \/ DevicesStep \/ StorageStep

Spec == Init /\ [][Next]_vars

\* The volume stays a tree, no link count is below the names it stands for, and a
\* description keeps its inode whatever happens to the names; rename is all or nothing
\* whichever storage call fails (TreeSound, DescriptionsHold and RenameAtomic of
\* Filesystem).
TreeSound == part = "tree" => Tree!TreeSound /\ Tree!DescriptionsHold /\ Tree!RenameAtomic

\* Many descriptions with cached inodes, over partial and failing storage calls, are
\* to their users the one file with positions of ByteFile.
ImplementsByteFile ==
  (part = "data" => Data!File!AInit) /\ [][part = "data" => Data!ImplementsByteFile]_vars

\* Data never changes under set-ID bits, and the kernel's mappings, the admission
\* queue and the references agree with the file (SetIdDropped and AliasesAgree of FileData).
DataSound == part = "data" => Data!TypeOK /\ Data!SetIdDropped /\ Data!AliasesAgree

\* The device tree stays a tree, the Handles of a registration are closed exactly
\* once and never in use, and a driver never touches the node that replaced its own
\* (NamespaceSound, GrantsOwned and ReplacementsUntouched of DeviceNamespace).
DevicesSound ==
  [][part = "devices" =>
       Devices!NamespaceSound' /\ Devices!GrantsOwned' /\ Devices!ReplacementsUntouched]_vars

\* The names of a volume alone.
CountsSpec == (part = "tree" /\ Tree!Init /\ IdleFrom4 /\ StorageIdle) /\ [][TreeStep]_vars

\* A link count is exactly the number of names and descriptions it stands for
\* (CountsExact of Filesystem).
CountsExact == part = "tree" => Tree!CountsExact
==============================================================================
