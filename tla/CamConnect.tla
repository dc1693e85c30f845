----------------------------- MODULE CamConnect -----------------------------
(***************************************************************************)
(* Loading and unloading of qvcam: the devices of the settings are made,   *)
(* connected as the settings say, and registered.  A connection lists an   *)
(* output and the captures that show what is written to it; two connected  *)
(* devices hold a reference to each other.                                 *)
(***************************************************************************)
EXTENDS Naturals, Sequences, SequencesExt

CONSTANTS
  N, Outputs,     \* devices 1 .. N, and which of them are outputs
  Numbered,       \* those for which the settings ask a number
  Settings,       \* what "Connections" may say: sequences of node lists
  MaxRejected     \* bound: registrations rejected, per load

Devices == 1 .. N
\* Assumed of the constants.
OutputsAreDevices ==
  /\ N \in Nat /\ MaxRejected \in Nat
  /\ Outputs \subseteq Devices /\ Numbered \subseteq Devices
  /\ Settings \subseteq Seq(Seq(Nat))

VARIABLES
  phase,      \* of the module
  connections,\* the part of the settings that is still to be read
  stale,      \* "it" was left inside a list that is gone
  links,      \* connected_devices of each
  refs,       \* kref of each
  turn,       \* the device whose registration is next
  registered, \* those with a video device
  rejected    \* counted for the bound

vars == <<phase, connections, stale, links, refs, turn, registered, rejected>>

NoLinks == [d \in Devices |-> << >>]
ListedOnly == [d \in Devices |-> 1] \* the list of devices has the only reference

Init ==
  /\ phase = "connect" /\ connections \in Settings /\ stale = FALSE
  /\ links = NoLinks /\ refs = ListedOnly
  /\ turn = 1 /\ registered = {} /\ rejected = 0

-----------------------------------------------------------------------------
(* akvcam_driver_connect_devices.                                          *)

Valid(nodes) ==
  \A j \in DOMAIN nodes :
    /\ nodes[j] \in Devices \* it is a number in range
    /\ j = 1 <=> nodes[j] \in Outputs

\* A node that is there already counts as none.
akvcam_driver_contains_node(nodes, j) == \E k \in 1 .. j - 1 : nodes[k] = nodes[j]

\* A capture shows one output.
TakenByIt(l, o, d) == d \in ToSet(l[o]) \* a mutated form
Taken(l, o, d) == l[d] # << >>
Link(l, o, d) ==
  IF Taken(l, o, d) THEN l ELSE [l EXCEPT ![d] = Append(@, o), ![o] = Append(@, d)]
New(nodes) == {j \in 2 .. Len(nodes) : ~akvcam_driver_contains_node(nodes, j)}
LinkedUpTo(nodes) ==
  LET upTo[j \in 0 .. Len(nodes)] ==
        IF j = 0 THEN links
        ELSE IF j \in New(nodes) THEN Link(upTo[j - 1], nodes[1], nodes[j])
        ELSE upTo[j - 1] IN
  upTo
Linked(nodes) == LinkedUpTo(nodes)[Len(nodes)]

\* A list that is no connection leaves the iterator where it was; the next one
\* would be read from there, and the model ends.
akvcam_driver_connect_devices ==
  /\ phase = "connect" /\ connections # << >>
  /\ LET nodes == Head(connections) IN
       IF Len(nodes) < 2 THEN UNCHANGED <<stale, links, refs>>
       ELSE /\ ~stale /\ stale' = ~Valid(nodes)
            /\ links' = IF Valid(nodes) THEN Linked(nodes) ELSE links
            /\ refs' = [d \in Devices |->
                          refs[d] + Len(links'[d]) - Len(links[d])]
  /\ connections' = Tail(connections)
  /\ UNCHANGED <<phase, turn, registered, rejected>>

-----------------------------------------------------------------------------
(* akvcam_driver_register: those with a number, then the others.           *)

Connected ==
  /\ phase = "connect" /\ connections = << >> /\ phase' = "numbered"
  /\ UNCHANGED <<connections, stale, links, refs, turn, registered, rejected>>

\* akvcam_device_register, and the end of the list.
Register ==
  /\ registered' = registered \cup {turn} /\ turn' = turn + 1
  /\ UNCHANGED <<phase, rejected>>
Skip ==
  /\ turn' = turn + 1 /\ UNCHANGED <<phase, registered, rejected>>
GivesUp == registered' = {} /\ phase' = "ready"
\* A number that is rejected is tried again without one.
Refused ==
  /\ rejected < MaxRejected /\ rejected' = rejected + 1
  /\ IF phase = "numbered" THEN turn' = turn + 1 /\ UNCHANGED <<phase, registered>>
     ELSE GivesUp /\ UNCHANGED turn

OneMore == turn <= N + 1 \* a mutated form: one device too many
More == turn <= N
RegisterNumbered ==
  /\ phase = "numbered" /\ More
  /\ IF turn \in Numbered THEN Register \/ Refused ELSE Skip
  /\ UNCHANGED <<connections, stale, links, refs>>
Again ==
  /\ phase = "numbered" /\ ~More /\ phase' = "others" /\ turn' = 1
  /\ UNCHANGED <<connections, stale, links, refs, registered, rejected>>
RegisterOthers ==
  /\ phase = "others" /\ More
  /\ IF turn \notin registered THEN Register \/ Refused ELSE Skip
  /\ UNCHANGED <<connections, stale, links, refs>>
\* akvcam_driver_init does not look at the result.
Registered ==
  /\ phase = "others" /\ ~More /\ phase' = "ready"
  /\ UNCHANGED <<connections, stale, links, refs, turn, registered, rejected>>

\* The list of devices goes, and who has no other reference.
akvcam_driver_uninit ==
  /\ phase = "ready" /\ phase' = "gone"
  /\ registered' = {}
  /\ refs' = [d \in Devices |-> refs[d] - 1]
  /\ UNCHANGED <<connections, stale, links, turn, rejected>>

akvcam_driver_init ==
  /\ phase = "gone"
  /\ phase' = "connect" /\ connections' \in Settings /\ stale' = FALSE
  /\ links' = NoLinks /\ refs' = ListedOnly
  /\ turn' = 1 /\ registered' = {} /\ rejected' = 0

Next ==
  \/ akvcam_driver_connect_devices \/ Connected
  \/ RegisterNumbered \/ Again \/ RegisterOthers \/ Registered
  \/ akvcam_driver_uninit \/ akvcam_driver_init

Spec == Init /\ [][Next]_vars

-----------------------------------------------------------------------------
(* Properties.                                                             *)

TypeOK ==
  /\ phase \in {"connect", "numbered", "others", "ready", "gone"}
  /\ links \in [Devices -> Seq(Devices)] /\ refs \in [Devices -> 0 .. N]
  /\ turn \in 1 .. N + 1 /\ registered \subseteq Devices
  /\ rejected \in 0 .. MaxRejected

\* Connections go both ways, between an output and captures that have no other
\* output; each holds a reference.  After a load all devices are registered, or
\* none; after an unload none is, and just the connected ones are left behind.
WellConnected ==
  /\ \A c, d \in Devices :
       d \in ToSet(links[c]) => /\ c \in ToSet(links[d])
                                /\ (c \in Outputs) # (d \in Outputs)
  /\ \A d \in Devices : d \notin Outputs => Len(links[d]) <= 1
  /\ \A d \in Devices :
       /\ IsInjective(links[d])
       /\ refs[d] = Len(links[d]) + IF phase = "gone" THEN 0 ELSE 1
  /\ phase = "ready" => registered \in {{}, Devices}
  /\ phase = "gone" => registered = {}
=============================================================================
