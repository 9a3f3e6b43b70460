--------------------------- MODULE DeviceNamespace ---------------------------
(***************************************************************************)
(* The device tree the filesystem service mounts at /dev                   *)
(* (filesystem/src/devfs.rs), reached through the mount table              *)
(* (namespace.rs), the owner-configuration requests                        *)
(* (device_namespace_ipc.rs, device_registration_ipc.rs), and the open     *)
(* descriptions on its nodes (device_operations.rs, open_publication.rs).  *)
(*                                                                         *)
(* A node is a reference-counted record that outlives its name: an open    *)
(* description keeps it, and so does a registered child.  An external      *)
(* device carries a grant, the pair of native Handles (endpoint, factory)  *)
(* its owner passed with the registration.  Attributes are reduced to      *)
(* whether anyone but uid 0 may open the node; timestamps are left out.    *)
(***************************************************************************)
EXTENDS Naturals, FiniteSets, Functions, TLC

CONSTANTS Name,      \* names a device directory may hold
          Driver,    \* services that register devices
          Admin,     \* the owner that uses unconditional requests
          MaxNodes,  \* bound on node ids, the two initial ones included
          MaxOpens,  \* bound on live open descriptions
          Grant      \* grants the drivers can pass

VARIABLES nodes,     \* id -> [kind, parent, links, shared, grant, owner]
          children,  \* directory id -> [Name -> child id]   (devfs children)
          next,      \* DeviceFilesystem.next_id
          opens,     \* open id -> [node, held]: description, native reference
          closes,    \* grant -> times its two Handles were closed
          ticket,    \* driver -> [parent, name, node] of its last registration
          actor      \* who caused the last step

vars == <<nodes, children, next, opens, closes, ticket, actor>>

None == 0
Root == 1
Null == 2
NoTicket == [parent |-> None, name |-> None, node |-> None]

Node(kind, parent, shared, grant, owner) ==
    [kind |-> kind, parent |-> parent, shared |-> shared, grant |-> grant,
     owner |-> owner, links |-> IF kind = "directory" THEN 2 ELSE 1]

\* Default::default: the root and the null device.  "null" is not in Name.
Init == /\ nodes = (Root :> Node("directory", None, TRUE, None, Admin))
                   @@ (Null :> Node("null", Root, TRUE, None, Admin))
        /\ children = (Root :> <<>>)
        /\ next = 3
        /\ opens = <<>>
        /\ closes = [g \in Grant |-> 0]
        /\ ticket = [d \in Driver |-> NoTicket]
        /\ actor = Admin

----------------------------------------------------------------------------
\* Lookup and lifetime.

Entries(d) == IF d \in DOMAIN children THEN DOMAIN children[d] ELSE {}

Published(ch) == {Root, Null} \cup UNION {Range(ch[d]) : d \in DOMAIN ch}

\* A Node clone is held by its directory entry, by every description on it,
\* and, through Record.parent, by the nodes registered below it.
Retained(ns, ch, os) ==
    LET direct == Published(ch) \cup {os[o].node : o \in DOMAIN os}
        parents == {ns[n].parent : n \in direct} \ {None}
    IN  direct \cup parents \cup ({ns[n].parent : n \in parents} \ {None})

\* directory_path: walk the parents, looking for the entry that names each
\* node; a removed directory has no path (ENOENT), even while it is open.
HasPath(n) ==
    LET step[m \in Nat] ==
          m = Root \/ \E x \in Entries(nodes[m].parent) :
                        /\ children[nodes[m].parent][x] = m
                        /\ step[nodes[m].parent]
    IN  step[n]

\* The last clone of a record drops its factory, which closes its Handles.
Drop(ns, ch, os, received) ==
    LET dead == Retained(nodes, children, opens) \ Retained(ns, ch, os)
    IN  closes' = [g \in Grant |->
                     closes[g] + Cardinality({n \in dead : nodes[n].grant = g})
                               + (IF g \in received THEN 1 ELSE 0)]

\* Owner requests name the directory by an attached description's Handle.
Attached == {o \in DOMAIN opens : opens[o].held}

----------------------------------------------------------------------------
\* Registration: OP_DEVICE_NODE_CREATE and OP_DEVICE_NODE_REGISTER_EXTERNAL.

\* (A mutant.) A removed directory that is still open takes new entries.
CanRegisterAnywhere(parent, name) ==
    /\ nodes[parent].kind = "directory"
    /\ name \notin Entries(parent)
    /\ parent \in DOMAIN children \/ nodes[parent].links = 0
    /\ next <= MaxNodes

\* register_node's refusals: not a directory, the name taken, the directory
\* itself no longer published, the id space used up.
CanRegister(parent, name) ==
    /\ nodes[parent].kind = "directory"
    /\ name \notin Entries(parent)
    /\ nodes[parent].links # 0
    /\ next <= MaxNodes

NextId == next

RegisterNode(parent, name, kind, shared, grant, who) ==
    LET id == NextId
        linked == [nodes EXCEPT ![parent].links =
                                  @ + (IF kind = "directory" THEN 1 ELSE 0)]
        entry == [children EXCEPT ![parent] = (name :> id) @@ @]
    IN  /\ nodes' = (id :> Node(kind, parent, shared, grant, who)) @@ linked
        /\ children' = IF kind = "directory" THEN (id :> <<>>) @@ entry
                       ELSE entry
        /\ next' = id + 1

\* device_namespace_ipc::handle, OP_DEVICE_NODE_CREATE.
CreateNode ==
    \E o \in Attached, name \in Name, kind \in {"directory", "null"} :
       LET parent == opens[o].node IN
       /\ CanRegister(parent, name)
       /\ RegisterNode(parent, name, kind, TRUE, None, Admin)
       /\ actor' = Admin
       /\ UNCHANGED <<opens, closes, ticket>>

\* (A mutant.) Cleanup closes the Handles the factory now owns.
SlotsKept(g) == {g}

\* The slots that common request cleanup still closes once the factory has
\* been adopted: device_registration_ipc::handle clears them first.
SlotsAfterAdoption(g) == {}

\* Grants are interchangeable: the lowest unused one is passed next.
FreshGrants ==
    LET unused == {g \in Grant : /\ closes[g] = 0
                                 /\ \A n \in DOMAIN nodes : nodes[n].grant # g}
    IN  {g \in unused : \A h \in unused : g <= h}

\* device_registration_ipc::handle.  A request refused before adoption
\* (delivery flags, rights, an unidentified directory) is cleaned up as
\* received; afterwards NativeFactory owns both Handles, and a registration
\* the tree refuses drops it.
RegisterExternal ==
    \E d \in Driver, g \in FreshGrants :
       /\ actor' = d
       /\ UNCHANGED opens
       /\ \/ /\ closes' = [closes EXCEPT ![g] = @ + 1]
             /\ UNCHANGED <<nodes, children, next, ticket>>
          \/ \E o \in Attached, name \in Name :
                LET parent == opens[o].node IN
                /\ CanRegister(parent, name)
                /\ RegisterNode(parent, name, "external", TRUE, g, d)
                /\ ticket' = [ticket EXCEPT ![d] =
                                [parent |-> parent, name |-> name, node |-> next]]
                /\ Drop(nodes', children', opens, SlotsAfterAdoption(g))

----------------------------------------------------------------------------
\* Removal and attribute changes, unconditional or "if same".

\* (A mutant.) Only the name is compared.
SameName(parent, name, expected) == name \in Entries(parent)

Same(parent, name, expected) == children[parent][name] = expected

\* unregister: a directory must be empty; its record survives with no links.
Unregister(parent, name) ==
    LET n == children[parent][name]
        isDir == nodes[n].kind = "directory"
        cut == [children EXCEPT ![parent] =
                  Restrict(@, DOMAIN @ \ {name})]
        kept == DOMAIN cut \ {n}
    IN  /\ isDir => Entries(n) = {}
        /\ children' = Restrict(cut, kept)
        /\ nodes' = [nodes EXCEPT ![parent].links = @ - (IF isDir THEN 1 ELSE 0),
                                  ![n].links = 0]
        /\ UNCHANGED <<next, opens>>
        /\ Drop(nodes', children', opens, {})

\* OP_DEVICE_NODE_REMOVE, the administrator's.
Remove ==
    \E o \in Attached : \E name \in Entries(opens[o].node) :
       /\ Unregister(opens[o].node, name)
       /\ actor' = Admin
       /\ UNCHANGED ticket

\* OP_DEVICE_NODE_REMOVE_IF_SAME: a driver withdraws what it registered last,
\* however stale its ticket; ESTALE leaves everything as it was.
RemoveIfSame ==
    \E d \in Driver, o \in Attached :
       LET t == ticket[d] IN
       /\ t.node # None
       /\ opens[o].node = t.parent
       /\ t.name \in Entries(t.parent)
       /\ Same(t.parent, t.name, t.node)
       /\ Unregister(t.parent, t.name)
       /\ ticket' = [ticket EXCEPT ![d] = NoTicket]
       /\ actor' = d

\* OP_DEVICE_NODE_SET_ATTRIBUTES_IF_SAME, and the unconditional form.
SetAttributesIfSame ==
    \E d \in Driver, o \in Attached, shared \in BOOLEAN :
       LET t == ticket[d] IN
       /\ t.node # None
       /\ opens[o].node = t.parent
       /\ t.name \in Entries(t.parent)
       /\ Same(t.parent, t.name, t.node)
       /\ nodes' = [nodes EXCEPT ![children[t.parent][t.name]].shared = shared]
       /\ actor' = d
       /\ UNCHANGED <<children, next, opens, closes, ticket>>

SetAttributes ==
    \E o \in Attached, shared \in BOOLEAN :
    \E name \in Entries(opens[o].node) :
       /\ nodes' = [nodes EXCEPT ![children[opens[o].node][name]].shared = shared]
       /\ actor' = Admin
       /\ UNCHANGED <<children, next, opens, closes, ticket>>

\* chmod by uid 0 through an open description (change_attributes): the
\* retained node changes whether or not it still has a name.
ChangeAttributes ==
    \E o \in Attached, shared \in BOOLEAN :
       /\ nodes' = [nodes EXCEPT ![opens[o].node].shared = shared]
       /\ actor' = Admin
       /\ UNCHANGED <<children, next, opens, closes, ticket>>

----------------------------------------------------------------------------
\* Open descriptions.

FreshOpen == CHOOSE o \in 1..MaxOpens : o \notin DOMAIN opens

\* open_external and open_null: the mode must admit the caller, not uid 0 here.
Admits(n) == nodes[n].shared

\* open_with: an external device's owner is called with the metadata reference
\* and may keep it, whether or not its answer is accepted.
OwnerKeeps(n) == IF nodes[n].kind = "external" THEN BOOLEAN ELSE {FALSE}

\* The client gets the metadata reference itself for a directory or the null
\* device, unless the reply is lost.
ClientKeeps(n) == IF nodes[n].kind = "external" THEN {FALSE} ELSE BOOLEAN

\* publish: the service's own metadata reference is gone when it returns.
Publish(n) == \E kept \in OwnerKeeps(n), got \in ClientKeeps(n) :
    LET held == kept \/ got IN
    /\ opens' = (FreshOpen :> [node |-> n, held |-> held]) @@ opens
    /\ UNCHANGED closes

\* open_device_at on a path below the device root: the walk finds published
\* nodes only.
OpenDeviceAt ==
    \E n \in Published(children) \ {Null} :
       /\ Cardinality(DOMAIN opens) < MaxOpens
       /\ Admits(n)
       /\ Publish(n)
       /\ actor' = Admin
       /\ UNCHANGED <<nodes, children, next, ticket>>

\* A description opened by name through a directory Handle, also a removed
\* one: resolution starts at the retained node itself (path ".").
Reopen ==
    \E o \in Attached :
       /\ Cardinality(DOMAIN opens) < MaxOpens
       /\ nodes[opens[o].node].kind = "directory"
       /\ Publish(opens[o].node)
       /\ actor' = Admin
       /\ UNCHANGED <<nodes, children, next, ticket>>

\* The last native reference goes, and the kernel's release reaches
\* provider_close, in a later message.
LoseReference ==
    \E o \in Attached :
       /\ opens' = [opens EXCEPT ![o].held = FALSE]
       /\ UNCHANGED <<nodes, children, next, closes, ticket, actor>>

ProviderClose ==
    \E o \in DOMAIN opens \ Attached :
       /\ opens' = Restrict(opens, DOMAIN opens \ {o})
       /\ Drop(nodes, children, opens', {})
       /\ UNCHANGED <<nodes, children, next, ticket, actor>>

\* device_namespace_ipc::handle.
OwnerRequests == CreateNode \/ Remove \/ RemoveIfSame \/ SetAttributes \/ SetAttributesIfSame

Next == \/ OwnerRequests \/ RegisterExternal \/ ChangeAttributes
        \/ OpenDeviceAt \/ Reopen \/ LoseReference \/ ProviderClose

Spec == Init /\ [][Next]_vars

----------------------------------------------------------------------------
\* Properties.

Subdirectories(d) ==
    {x \in Entries(d) : nodes[children[d][x]].kind = "directory"}

\* The device tree stays a tree whatever is removed while it is open: every
\* entry's node names that directory as its parent and has one entry only; a
\* published directory counts two links and one per subdirectory, any other
\* published node one; a removed node has no links, no entries and no path,
\* and nothing can be registered below it (register_node, unregister,
\* directory_path).
NamespaceSound ==
    /\ \A d \in DOMAIN children : \A x \in Entries(d) :
         /\ nodes[children[d][x]].parent = d
         /\ \A y \in Entries(d) \ {x} : children[d][y] # children[d][x]
    /\ \A n \in DOMAIN nodes :
         IF n \in Published(children)
         THEN nodes[n].links = IF nodes[n].kind = "directory"
                               THEN 2 + Cardinality(Subdirectories(n)) ELSE 1
         ELSE nodes[n].links = 0 /\ Entries(n) = {}
    /\ DOMAIN children = {n \in Published(children) : nodes[n].kind = "directory"}
    /\ \A n \in DOMAIN nodes \ {Null} :
         nodes[n].kind = "directory" => (HasPath(n) <=> n \in Published(children))

\* The Handles that came with a registration are closed exactly once, and not
\* while a node that uses them can still be opened or is open
\* (device_registration_ipc::handle, NativeFactory::drop, Record).
GrantsOwned ==
    \A g \in Grant :
       LET users == {n \in DOMAIN nodes : nodes[n].grant = g} IN
       /\ closes[g] <= 1
       /\ users # {} => ((closes[g] = 0) <=>
                           (users \cap Retained(nodes, children, opens) # {}))

\* Of every step: a driver that withdraws or reconfigures its device by identity never
\* touches a replacement that took the name meanwhile: a driver's node loses
\* its name, or changes its attributes, by that driver's request or an
\* unconditional one only (unregister_device_node_checked,
\* set_device_attributes_if_same; ids are never reused).
ReplacementsUntouched ==
    \A n \in DOMAIN nodes :
      (\/ n \in Published(children) /\ n \notin Published(children')
       \/ nodes[n].shared # nodes'[n].shared)
      => actor' \in {nodes[n].owner, Admin}
=============================================================================
