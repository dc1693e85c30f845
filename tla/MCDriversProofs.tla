-------------------------- MODULE MCDriversProofs ---------------------------
(***************************************************************************)
(* What the run of MCDrivers checks of small instances, for every value of *)
(* the constants: a part's step lemma carries over, as the parts that a    *)
(* behaviour is not of rest.                                               *)
(***************************************************************************)
EXTENDS MCDrivers, ListFacts

\* A step of a behaviour of the capture queue is a step of the queue, or none.
LEMMA Lemma_QueuePart ==
  ASSUME part = "queue", [Next]_vars
  PROVE  [Queue!Next]_(Queue!vars)
BY DEF Next, vars, ofQueue, Queue!vars, Queue!memory, Queue!counts

\* The driver has each buffer in one place, and those it has are vb2's active
\* ones and those vb2 took back by force: whatever fails or is interrupted.
THEOREM BuffersAccounted == Spec => []Accounted
<1> DEFINE Inv == part = "queue" => Queue!QueueInv
<1>1. Init => Inv
  BY Queue!Lemma_Init DEF Init
<1>2. Inv /\ [Next]_vars => Inv'
  <2> SUFFICES ASSUME Inv, [Next]_vars, part' = "queue" PROVE Queue!QueueInv'
    OBVIOUS
  <2>1. part = "queue" /\ Queue!QueueInv
    BY DEF Next, vars
  <2> QED
    BY <2>1, Lemma_QueuePart, Queue!QueueStep
<1>3. Inv => Accounted
  BY Queue!Lemma_Accounted DEF Accounted, Queue!QueueInv
<1> QED
  BY <1>1, <1>2, <1>3, PTL DEF Spec

\* Formats, allocations, the check of a buffer and its DMA pieces agree, for
\* every size, alignment and page size.
THEOREM SizesKept == Spec => []SizesAgree
<1> DEFINE Inv == part = "queue" => Queue!SizesInv
<1>1. Init => Inv
  BY Queue!Lemma_SizesInit DEF Init
<1>2. Inv /\ [Next]_vars => Inv'
  <2> SUFFICES ASSUME Inv, [Next]_vars, part' = "queue" PROVE Queue!SizesInv'
    OBVIOUS
  <2>1. part = "queue" /\ Queue!SizesInv
    BY DEF Next, vars
  <2> QED
    BY <2>1, Lemma_QueuePart, ConstantsFit, Queue!Lemma_SizesStep
       DEF ConstantsFit
<1>3. Inv => SizesAgree
  BY ConstantsFit, Queue!Lemma_SizesAgree DEF SizesAgree, ConstantsFit
<1> QED
  BY <1>1, <1>2, <1>3, PTL DEF Spec

-----------------------------------------------------------------------------
(* qvcam's devices.                                                        *)

\* Links go both ways, between an output and captures, each once; a capture has
\* one.
Wired ==
  {l \in [Load!Devices -> Seq(Load!Devices)] :
     /\ \A c \in Load!Devices : \A d \in ToSet(l[c]) :
          c \in ToSet(l[d]) /\ (c \in Outputs) # (d \in Outputs)
     /\ \A d \in Load!Devices : IsInjective(l[d])
     /\ \A d \in Load!Devices : d \notin Outputs => Len(l[d]) <= 1}

\* Devices that are linked hold a reference to each other; a registration that
\* is under way has left none out.
LoadInv ==
  /\ phase \in {"connect", "numbered", "others", "ready", "gone"}
  /\ connections \in Seq(Seq(Nat)) /\ links \in Wired
  /\ refs = [d \in Load!Devices |->
               Len(links[d]) + IF phase = "gone" THEN 0 ELSE 1]
  /\ turn \in 1 .. N + 1 /\ rejected \in 0 .. MaxRejected
  /\ registered \subseteq Load!Devices
  /\ phase = "connect" => turn = 1
  /\ phase \in {"connect", "gone"} => registered = {}
  /\ phase = "others" => 1 .. turn - 1 \subseteq registered
  /\ phase = "ready" => registered \in {{}, Load!Devices}

\* What is assumed of the settings.
LEMMA Lemma_LoadConstants ==
  /\ N \in Nat /\ MaxRejected \in Nat
  /\ Outputs \subseteq Load!Devices /\ Numbered \subseteq Load!Devices
  /\ Settings \subseteq Seq(Seq(Nat))
  /\ Load!Devices = 1 .. N
BY ConstantsFit DEF ConstantsFit, Load!OutputsAreDevices, Load!Devices

\* Nothing is linked at first.
LEMMA Lemma_NoLinks == Load!NoLinks \in Wired
BY ListEmpty DEF Load!NoLinks, Wired

\* A capture that shows no output yet gets this one, and the output gets it.
LEMMA Lemma_Link ==
  ASSUME NEW l \in Wired, NEW o \in Outputs, NEW d \in Load!Devices \ Outputs
  PROVE  Load!Link(l, o, d) \in Wired
<1> DEFINE D == Load!Devices
           m == [l EXCEPT ![d] = Append(l[d], o), ![o] = Append(l[o], d)]
<1>1. /\ l \in [D -> Seq(D)] /\ o \in D /\ d \in D /\ o # d /\ d \notin Outputs
      /\ \A c \in D : \A e \in ToSet(l[c]) :
           e \in D /\ c \in ToSet(l[e]) /\ (c \in Outputs) # (e \in Outputs)
      /\ \A e \in D : IsInjective(l[e])
      /\ \A e \in D : e \notin Outputs => Len(l[e]) <= 1
  <2>1. \A c \in D : \A e \in ToSet(l[c]) : e \in D
    BY ListEntries DEF Wired
  <2> QED
    BY <2>1, Lemma_LoadConstants DEF Wired
<1>2. CASE l[d] # << >>
  BY <1>2 DEF Load!Link, Load!Taken
<1>3. CASE l[d] = << >>
  <2>1. Load!Link(l, o, d) = m
    BY <1>1, <1>3 DEF Load!Link, Load!Taken
  <2>2. /\ \A e \in D : e # d /\ e # o => m[e] = l[e]
        /\ m[d] = Append(l[d], o) /\ m[o] = Append(l[o], d)
    BY <1>1
  <2>3. /\ m[d] \in Seq(D) /\ Len(m[d]) = Len(l[d]) + 1 /\ IsInjective(m[d])
        /\ ToSet(m[d]) = {o}
    <3>1. ToSet(l[d]) = {} /\ IsInjective(l[d]) /\ l[d] \in Seq(D)
      BY <1>1, <1>3, ListEmpty
    <3> HIDE DEF m, D
    <3>2. /\ Append(l[d], o) \in Seq(D) /\ IsInjective(Append(l[d], o))
          /\ Len(Append(l[d], o)) = Len(l[d]) + 1
          /\ ToSet(Append(l[d], o)) = ToSet(l[d]) \cup {o}
      BY <1>1, <3>1, ListAppend
    <3> QED
      BY <2>2, <3>1, <3>2
  <2>4. d \notin ToSet(l[o])
    BY <1>1, <1>3, ListEmpty
  <2>5. /\ m[o] \in Seq(D) /\ IsInjective(m[o])
        /\ ToSet(m[o]) = ToSet(l[o]) \cup {d}
    BY <1>1, <2>2, <2>4, ListAppend
  <2>6. m \in [D -> Seq(D)]
    BY <1>1, <2>3, <2>5
  <2> HIDE DEF m
  <2>7. ASSUME NEW c \in D, NEW e \in ToSet(m[c])
        PROVE  c \in ToSet(m[e]) /\ (c \in Outputs) # (e \in Outputs)
    <3>1. CASE c = d
      BY <1>1, <2>3, <2>5, <2>7, <3>1
    <3>2. CASE c = o /\ e = d
      BY <1>1, <2>3, <3>2
    <3>3. CASE c = o /\ e # d
      <4>1. e \in ToSet(l[o]) /\ e # o
        BY <1>1, <2>5, <2>7, <3>3
      <4> QED
        BY <1>1, <2>2, <3>3, <4>1
    <3>4. CASE c # d /\ c # o
      <4>1. e \in ToSet(l[c]) /\ e # d
        BY <1>1, <1>3, <2>2, <2>7, <3>4, ListEmpty
      <4>2. CASE e = o
        BY <1>1, <2>5, <4>1, <4>2
      <4>3. CASE e # o
        BY <1>1, <2>2, <4>1, <4>3
      <4> QED
        BY <4>2, <4>3
    <3> QED
      BY <3>1, <3>2, <3>3, <3>4
  <2>8. \A e \in D : IsInjective(m[e])
    BY <1>1, <2>2, <2>3, <2>5
  <2>9. \A e \in D : e \notin Outputs => Len(m[e]) <= 1
    <3>1. Len(m[d]) <= 1
      BY <1>3, <2>3, ListEmpty
    <3> QED
      BY <1>1, <2>2, <3>1
  <2> QED
    BY <2>1, <2>6, <2>7, <2>8, <2>9 DEF Wired
<1> QED
  BY <1>2, <1>3

\* A valid connection links its output and its captures, however many they are
\* and whatever they were linked to.
LEMMA Lemma_Linked ==
  ASSUME links \in Wired, NEW nodes \in Seq(Nat), Load!Valid(nodes)
  PROVE  Load!Linked(nodes) \in Wired
<1> DEFINE n == Len(nodes)
           new == Load!New(nodes)
           step == [j \in 1 .. n |-> [l \in Wired |->
                      IF j \in new THEN Load!Link(l, nodes[1], nodes[j])
                        ELSE l]]
           Goes(f) == f = [j \in 0 .. n |->
             IF j = 0 THEN links
             ELSE IF j \in new THEN Load!Link(f[j - 1], nodes[1], nodes[j])
             ELSE f[j - 1]]
<1>1. n \in Nat /\ DOMAIN nodes = 1 .. n /\ new \subseteq 2 .. n
  BY DEF Load!New
<1>2. new # {} => nodes[1] \in Outputs
  BY <1>1 DEF Load!Valid
<1>3. \A j \in 2 .. n : nodes[j] \in Load!Devices \ Outputs
  BY <1>1 DEF Load!Valid
<1>4. step \in [1 .. n -> [Wired -> Wired]]
  <2> SUFFICES ASSUME NEW j \in 1 .. n, NEW l \in Wired
      PROVE (IF j \in new THEN Load!Link(l, nodes[1], nodes[j]) ELSE l)
              \in Wired
    OBVIOUS
  <2> QED
    BY <1>1, <1>2, <1>3, Lemma_Link
<1>5. PICK f \in [0 .. n -> Wired] :
        f[0] = links /\ \A j \in 1 .. n : f[j] = step[j][f[j - 1]]
  <2>1. n \in Nat /\ links \in Wired
    BY <1>1
  <2> HIDE DEF step, n
  <2> QED
    BY <1>4, <2>1, RecursionExists
<1>6. \A j \in 1 .. n :
        f[j] = IF j \in new THEN Load!Link(f[j - 1], nodes[1], nodes[j])
               ELSE f[j - 1]
  <2> SUFFICES ASSUME NEW j \in 1 .. n
      PROVE f[j] = IF j \in new THEN Load!Link(f[j - 1], nodes[1], nodes[j])
                   ELSE f[j - 1]
    OBVIOUS
  <2>1. j - 1 \in 0 .. n /\ f[j - 1] \in Wired
    BY <1>1
  <2> QED
    BY <1>5, <2>1
<1>7. Goes(f)
  <2> HIDE DEF new
  <2> QED
    BY <1>1, <1>5, <1>6
<1>8. Load!LinkedUpTo(nodes) = CHOOSE g : Goes(g)
  BY DEF Load!LinkedUpTo
<1> DEFINE upTo == Load!LinkedUpTo(nodes)
<1>9. Goes(upTo)
  <2> HIDE DEF Goes
  <2> QED
    BY <1>7, <1>8
<1>10. upTo[0] = links
  BY <1>1, <1>9
<1>11. ASSUME NEW j \in 1 .. n
       PROVE  upTo[j] = IF j \in new
                        THEN Load!Link(upTo[j - 1], nodes[1], nodes[j])
                        ELSE upTo[j - 1]
  <2>1. j \in 0 .. n /\ j # 0
    BY <1>1
  <2> HIDE DEF new, n, upTo
  <2> QED
    BY <1>9, <2>1
<1> HIDE DEF upTo, Goes
<1> DEFINE S == {j \in 0 .. n : upTo[j] \in Wired}
<1>12. 0 \in S
  BY <1>1, <1>10
<1>13. ASSUME NEW j \in 1 .. n, j - 1 \in S PROVE j \in S
  <2>1. CASE j \in new
    <3>1. Load!Link(upTo[j - 1], nodes[1], nodes[j]) \in Wired
      BY <1>1, <1>2, <1>3, <1>13, <2>1, Lemma_Link
    <3> QED
      BY <1>1, <1>11, <1>13, <3>1
  <2>2. CASE j \notin new
    BY <1>1, <1>11, <1>13, <2>2
  <2> QED
    BY <2>1, <2>2
<1>14. n \in S
  <2>1. n \in Nat
    BY <1>1
  <2> HIDE DEF S, n
  <2>2. 0 .. n \subseteq S
    BY <1>12, <1>13, <2>1, UpwardFromZero
  <2> QED
    BY <2>1, <2>2
<1> QED
  BY <1>14 DEF upTo, Load!Linked

\* At first nothing is connected.
LEMMA Lemma_LoadInit == Load!Init => LoadInv
<1> SUFFICES ASSUME Load!Init PROVE LoadInv
  OBVIOUS
<1>1. connections \in Seq(Seq(Nat)) /\ 1 \in 1 .. N + 1
      /\ 0 \in 0 .. MaxRejected
  BY Lemma_LoadConstants DEF Load!Init
<1>2. links \in Wired
  BY Lemma_NoLinks DEF Load!Init
<1>3. refs = [d \in Load!Devices |-> Len(links[d]) + 1]
  <2>1. Len(<< >>) + 1 = 1
    BY ListEmpty
  <2> QED
    BY <2>1 DEF Load!Init, Load!ListedOnly, Load!NoLinks
<1> QED
  BY <1>1, <1>2, <1>3, Lemma_LoadConstants DEF Load!Init, LoadInv

\* A list of connections is read to its end; both devices count a link.
LEMMA Lemma_Connect ==
  LoadInv /\ Load!akvcam_driver_connect_devices => LoadInv'
<1> SUFFICES ASSUME LoadInv, Load!akvcam_driver_connect_devices PROVE LoadInv'
  OBVIOUS
<1> DEFINE nodes == Head(connections)
           D == Load!Devices
<1>1. /\ connections \in Seq(Seq(Nat)) /\ connections # << >>
      /\ phase = "connect"
      /\ phase' = phase /\ turn' = turn /\ registered' = registered
      /\ rejected' = rejected
  BY DEF LoadInv, Load!akvcam_driver_connect_devices
<1>2. nodes \in Seq(Nat) /\ Tail(connections) \in Seq(Seq(Nat))
  BY <1>1, ListTail
<1>3. /\ links' \in Wired
      /\ refs' = [d \in D |-> refs[d] + Len(links'[d]) - Len(links[d])]
  <2>0. links \in Wired /\ refs = [d \in D |-> Len(links[d]) + 1]
    BY <1>1 DEF LoadInv
  <2>1. CASE Len(nodes) < 2
    <3>1. links' = links /\ refs' = refs
      BY <2>1 DEF Load!akvcam_driver_connect_devices
    <3>2. \A d \in D : refs[d] + Len(links[d]) - Len(links[d]) = refs[d]
      <4>1. \A d \in D : Len(links[d]) \in Nat
        BY <2>0, ListEntries DEF Wired
      <4> QED
        BY <2>0, <4>1
    <3>3. refs' = [d \in D |-> refs[d]]
      BY <2>0, <3>1
    <3> QED
      BY <2>0, <3>1, <3>2, <3>3
  <2>2. CASE ~ (Len(nodes) < 2)
    <3>1. links' \in {links, Load!Linked(nodes)}
          /\ (links' # links => Load!Valid(nodes))
      BY <2>2 DEF Load!akvcam_driver_connect_devices
    <3>2. Load!Valid(nodes) => Load!Linked(nodes) \in Wired
      BY <1>2, <2>0, Lemma_Linked
    <3> QED
      BY <2>0, <2>2, <3>1, <3>2 DEF Load!akvcam_driver_connect_devices
  <2> QED
    BY <2>1, <2>2
<1>4. refs' = [d \in D |-> Len(links'[d]) + 1]
  <2>1. \A d \in D : Len(links[d]) \in Nat /\ Len(links'[d]) \in Nat
    BY <1>3, ListEntries DEF LoadInv, Wired
  <2>2. \A d \in D : refs[d] = Len(links[d]) + 1
    BY <1>1 DEF LoadInv
  <2>3. \A d \in D : refs[d] + Len(links'[d]) - Len(links[d])
          = Len(links'[d]) + 1
    <3>1. \A a, b \in Nat : (a + 1) + b - a = b + 1
      OBVIOUS
    <3> QED
      BY <2>1, <2>2, <3>1, Zenon
  <2> QED
    BY <1>3, <2>3
<1>5. connections' = Tail(connections)
  BY DEF Load!akvcam_driver_connect_devices
<1> QED
  BY <1>1, <1>2, <1>3, <1>4, <1>5 DEF LoadInv

\* Registration goes through the devices twice; a device that has no number is
\* left for the second time, and one that is rejected ends it.
LEMMA Lemma_Registration ==
  ASSUME LoadInv,
         \/ Load!Connected \/ Load!RegisterNumbered \/ Load!Again
         \/ Load!RegisterOthers \/ Load!Registered
  PROVE  LoadInv'
<1>1. /\ links' = links /\ connections' = connections /\ refs' = refs
      /\ phase \notin {"ready", "gone"} /\ phase' # "gone"
      /\ phase' # "connect"
  BY DEF Load!Connected, Load!RegisterNumbered, Load!Again,
     Load!RegisterOthers,
         Load!Registered, Load!Register, Load!Skip, Load!Refused, Load!GivesUp
<1>2. /\ links' \in Wired /\ connections' \in Seq(Seq(Nat))
      /\ refs' = [d \in Load!Devices |->
                    Len(links'[d]) + IF phase' = "gone" THEN 0 ELSE 1]
  BY <1>1 DEF LoadInv
<1>3. /\ N \in Nat /\ MaxRejected \in Nat /\ Load!Devices = 1 .. N
      /\ turn \in 1 .. N + 1 /\ rejected \in 0 .. MaxRejected
      /\ registered \subseteq Load!Devices
      /\ phase = "others" => 1 .. turn - 1 \subseteq registered
      /\ phase = "connect" => registered = {} /\ turn = 1
  BY Lemma_LoadConstants DEF LoadInv
<1>4. CASE Load!Connected
  BY <1>1, <1>2, <1>3, <1>4 DEF Load!Connected, LoadInv
<1>5. CASE Load!RegisterNumbered
  <2>1. phase = "numbered" /\ turn \in 1 .. N /\ phase' = "numbered"
    BY <1>3, <1>5 DEF Load!RegisterNumbered, Load!More, Load!Register,
       Load!Skip,
       Load!Refused
  <2>2. /\ turn' = turn + 1
        /\ registered' \in {registered, registered \cup {turn}}
        /\ rejected' \in 0 .. MaxRejected
    BY <1>3, <1>5, <2>1 DEF Load!RegisterNumbered, Load!Register, Load!Skip,
       Load!Refused
  <2>3. turn' \in 1 .. N + 1 /\ registered' \subseteq Load!Devices
    BY <1>3, <2>1, <2>2
  <2> QED
    BY <1>2, <2>1, <2>2, <2>3 DEF LoadInv
<1>6. CASE Load!Again
  BY <1>1, <1>2, <1>3, <1>6 DEF Load!Again, LoadInv
<1>7. CASE Load!RegisterOthers
  <2>1. phase = "others" /\ turn \in 1 .. N
    BY <1>3, <1>7 DEF Load!RegisterOthers, Load!More
  <2>2. CASE Load!Refused
    BY <1>1, <1>2, <1>3, <2>1, <2>2 DEF Load!Refused, Load!GivesUp, LoadInv
  <2>3. CASE ~ Load!Refused
    <3>1. /\ turn' = turn + 1 /\ phase' = "others" /\ rejected' = rejected
          /\ registered' = registered \cup {turn}
      BY <1>7, <2>1, <2>3 DEF Load!RegisterOthers, Load!Register, Load!Skip
    <3>2. 1 .. turn' - 1 \subseteq registered' /\ turn' \in 1 .. N + 1
          /\ registered' \subseteq Load!Devices
      BY <1>3, <2>1, <3>1
    <3> QED
      BY <1>2, <1>3, <3>1, <3>2 DEF LoadInv
  <2> QED
    BY <2>2, <2>3
<1>8. CASE Load!Registered
  <2>1. turn = N + 1 /\ registered' = registered /\ phase' = "ready"
        /\ phase = "others" /\ turn' = turn /\ rejected' = rejected
    BY <1>3, <1>8 DEF Load!Registered, Load!More
  <2>2. registered = Load!Devices
    <3>1. turn - 1 = N
      BY <1>3, <2>1
    <3> QED
      BY <1>3, <2>1, <3>1
  <2> QED
    BY <1>2, <1>3, <2>1, <2>2 DEF LoadInv
<1> QED
  BY <1>4, <1>5, <1>6, <1>7, <1>8

\* Before devices connect, and at unloading, no link changes.
LEMMA Lemma_Unload ==
  ASSUME LoadInv, Load!akvcam_driver_uninit \/ Load!akvcam_driver_init
  PROVE  LoadInv'
<1>1. CASE Load!akvcam_driver_uninit
  <2>1. /\ phase = "ready" /\ phase' = "gone" /\ registered' = {}
        /\ links' = links /\ connections' = connections /\ turn' = turn
        /\ rejected' = rejected
        /\ refs' = [d \in Load!Devices |-> refs[d] - 1]
    BY <1>1 DEF Load!akvcam_driver_uninit
  <2>2. \A d \in Load!Devices : refs[d] - 1 = Len(links[d]) + 0
    <3>1. \A d \in Load!Devices : Len(links[d]) \in Nat
      BY ListEntries DEF LoadInv, Wired
    <3>2. \A d \in Load!Devices : refs[d] = Len(links[d]) + 1
      BY <2>1 DEF LoadInv
    <3> QED
      BY <3>1, <3>2
  <2> QED
    BY <2>1, <2>2 DEF LoadInv
<1>2. CASE Load!akvcam_driver_init
  <2>1. /\ phase' = "connect" /\ connections' \in Seq(Seq(Nat))
        /\ links' \in Wired /\ registered' = {} /\ turn' = 1 /\ rejected' = 0
    BY <1>2, Lemma_NoLinks, Lemma_LoadConstants DEF Load!akvcam_driver_init
  <2>2. refs' = [d \in Load!Devices |-> Len(links'[d]) + 1]
    <3>1. Len(<< >>) + 1 = 1
      BY ListEmpty
    <3> QED
      BY <1>2, <3>1 DEF Load!akvcam_driver_init, Load!ListedOnly, Load!NoLinks
  <2>3. 1 \in 1 .. N + 1 /\ 0 \in 0 .. MaxRejected
    BY Lemma_LoadConstants
  <2> QED
    BY <2>1, <2>2, <2>3 DEF LoadInv
<1> QED
  BY <1>1, <1>2

\* So every step keeps the invariant.
LEMMA Lemma_LoadStep == LoadInv /\ [Load!Next]_(Load!vars) => LoadInv'
<1> SUFFICES ASSUME LoadInv, [Load!Next]_(Load!vars) PROVE LoadInv'
  OBVIOUS
<1>1. CASE UNCHANGED Load!vars
  BY <1>1 DEF Load!vars, LoadInv
<1>2. CASE Load!Next
  BY <1>2, Lemma_Connect, Lemma_Registration, Lemma_Unload DEF Load!Next
<1> QED
  BY <1>1, <1>2

\* The invariant says what the run checks.
LEMMA Lemma_WellConnected == LoadInv => Load!WellConnected
<1> SUFFICES ASSUME LoadInv PROVE Load!WellConnected
  OBVIOUS
<1> DEFINE D == Load!Devices
<1>1. /\ \A c \in D : \A d \in ToSet(links[c]) :
           c \in ToSet(links[d]) /\ (c \in Outputs) # (d \in Outputs)
      /\ \A d \in D : IsInjective(links[d])
      /\ \A d \in D : d \notin Outputs => Len(links[d]) <= 1
      /\ \A d \in D : refs[d] = Len(links[d]) + IF phase = "gone" THEN 0 ELSE 1
      /\ phase = "ready" => registered \in {{}, D}
      /\ phase = "gone" => registered = {}
  BY DEF LoadInv, Wired
<1>2. \A s : Load!ToSet(s) = ToSet(s) /\ Load!IsInjective(s) = IsInjective(s)
  BY DEF Load!ToSet, ToSet, Load!IsInjective, IsInjective
<1> QED
  BY <1>1, <1>2 DEF Load!WellConnected

\* A step of a behaviour of qvcam loading is a step of it, or none.
LEMMA Lemma_LoadPart ==
  ASSUME part = "load", [Next]_vars
  PROVE  [Load!Next]_(Load!vars)
BY DEF Next, vars, ofLoad, Load!vars

\* Whatever the settings connect and however often the module is loaded: links
\* go both ways, none is without its reference, and all devices are registered
\* or none.
THEOREM ConnectsWell == Spec => []WellConnected
<1> DEFINE Inv == part = "load" => LoadInv
<1>1. Init => Inv
  BY Lemma_LoadInit DEF Init
<1>2. Inv /\ [Next]_vars => Inv'
  <2> SUFFICES ASSUME Inv, [Next]_vars, part' = "load" PROVE LoadInv'
    OBVIOUS
  <2>1. part = "load" /\ LoadInv
    BY DEF Next, vars
  <2> QED
    BY <2>1, Lemma_LoadPart, Lemma_LoadStep
<1>3. Inv => WellConnected
  BY Lemma_WellConnected DEF WellConnected
<1> QED
  BY <1>1, <1>2, <1>3, PTL DEF Spec

-----------------------------------------------------------------------------
(* qvcam's file reader.                                                    *)

\* The ring of an open file is as large as the file and never full of more than
\* what was fetched and not taken: the bytes in it are those of the file from
\* where the reader is at up to where it fetches next.
RingInv ==
  /\ content \in Seq(Reader!Bytes) /\ isOpen \in BOOLEAN
  /\ ring \in Seq(Reader!Bytes)
  /\ Len(ring) = IF isOpen THEN Len(content) ELSE 0
  /\ read \in 0 .. Len(ring) /\ write \in 0 .. Len(ring)
  /\ fileBytesRead \in 0 .. Len(ring) /\ dataSize \in 0 .. fileBytesRead
  /\ bytesRead \in Nat
  /\ pos = fileBytesRead - dataSize
  /\ Len(ring) > 0 => read < Len(ring) /\ write = (read + dataSize) % Len(ring)
  /\ \A k \in 1 .. dataSize :
       ring[((read + k - 1) % Len(ring)) + 1] = content[pos + k]

\* A call that is under way has given nothing yet.
FileInv ==
  /\ RingInv /\ Reader!ReadsFile
  /\ from \in Nat /\ short \in BOOLEAN
  /\ call \in {"none", "read", "line"} /\ wanted \in Sizes \cup {0}
  /\ call # "none" => isOpen /\ got = << >>
  /\ call = "line" => wanted = 0

\* What is assumed of the files.
LEMMA Lemma_FileConstants ==
  /\ Block \in Nat \ {0} /\ Sizes \subseteq Nat
  /\ Files \subseteq Seq(Reader!Bytes) /\ NewLine \in Reader!Bytes
<1>1. NewLine \in Reader!Bytes
  BY DEF Reader!Bytes
<1> QED
  BY <1>1, ConstantsFit DEF ConstantsFit, Reader!FilesHoldBytes

\* At first no file is open.
LEMMA Lemma_FileInit == Reader!Init => FileInv
<1> SUFFICES ASSUME Reader!Init PROVE FileInv
  OBVIOUS
<1>1. content \in Seq(Reader!Bytes)
  BY Lemma_FileConstants DEF Reader!Init
<1>2. RingInv
  <2>1. ring \in Seq(Reader!Bytes) /\ Len(ring) = 0
    BY DEF Reader!Init
  <2>2. /\ read = 0 /\ write = 0 /\ fileBytesRead = 0 /\ dataSize = 0
        /\ bytesRead = 0 /\ pos = 0 /\ isOpen = FALSE
    BY DEF Reader!Init
  <2>3. \A k \in 1 .. dataSize :
          ring[((read + k - 1) % Len(ring)) + 1] = content[pos + k]
    BY <2>2
  <2>4. ~ (Len(ring) > 0)
    BY <2>1
  <2>5. isOpen \in BOOLEAN /\ Len(ring) = IF isOpen THEN Len(content) ELSE 0
    BY <2>1, <2>2
  <2>6. /\ read \in 0 .. Len(ring) /\ write \in 0 .. Len(ring)
        /\ fileBytesRead \in 0 .. Len(ring) /\ dataSize \in 0 .. fileBytesRead
        /\ bytesRead \in Nat /\ pos = fileBytesRead - dataSize
    BY <2>1, <2>2
  <2> QED
    BY <1>1, <2>1, <2>3, <2>4, <2>5, <2>6 DEF RingInv
<1>3. SubSeq(content, 0 + 1, 0) = << >>
  BY <1>1
<1>4. Reader!ReadsFile
  BY <1>3 DEF Reader!Init, Reader!ReadsFile
<1> QED
  BY <1>2, <1>4 DEF Reader!Init, FileInv

\* A ring that holds nothing is as if what comes next was just fetched.
LEMMA Lemma_Emptied ==
  ASSUME content \in Seq(Reader!Bytes), content' = content,
         isOpen' \in BOOLEAN,
         ring' \in Seq(Reader!Bytes),
         Len(ring') = IF isOpen' THEN Len(content) ELSE 0,
         Reader!Cleared, bytesRead' \in 0 .. Len(ring'),
         fileBytesRead' = bytesRead', pos' = bytesRead'
  PROVE  RingInv'
<1>1. dataSize' = 0 /\ read' = 0 /\ write' = 0
  BY DEF Reader!Cleared
<1> DEFINE n == Len(ring')
<1>2. n \in Nat /\ bytesRead' \in 0 .. n
  OBVIOUS
<1> HIDE DEF n
<1>3. /\ read' \in 0 .. n /\ write' \in 0 .. n /\ fileBytesRead' \in 0 .. n
      /\ dataSize' \in 0 .. fileBytesRead' /\ bytesRead' \in Nat
      /\ pos' = fileBytesRead' - dataSize'
  <2>1. \A x \in 0 .. n : x \in Nat /\ 0 \in 0 .. x /\ x = x - 0
          /\ 0 \in 0 .. n
    BY <1>2
  <2> QED
    BY <1>1, <1>2, <2>1
<1>4. ASSUME n > 0 PROVE read' < n /\ write' = (read' + dataSize') % n
  <2>1. n \in Nat \ {0} /\ 0 \in 0 .. 2 * n - 1
    BY <1>2, <1>4
  <2>2. 0 % n = 0
    BY <2>1, WrappedOnce
  <2> QED
    BY <1>1, <2>1, <2>2
<1>5. \A k \in 1 .. dataSize' :
        ring'[((read' + k - 1) % n) + 1] = content'[pos' + k]
  BY <1>1
<1> QED
  BY <1>3, <1>4, <1>5 DEF RingInv, n

\* The oldest bytes of the ring are the next ones of the file.
LEMMA Lemma_Oldest ==
  ASSUME RingInv, NEW n \in 0 .. dataSize
  PROVE  LET b == Reader!Oldest(n) IN
         /\ b = SubSeq(content, pos + 1, pos + n) /\ Len(b) = n
         /\ b \in Seq(Reader!Bytes)
         /\ \A k \in 1 .. n : b[k] = content[pos + k]
<1> DEFINE b == Reader!Oldest(n)
<1>1. /\ pos \in Nat /\ n \in Nat /\ pos + n \in Nat /\ dataSize \in Nat
      /\ content \in Seq(Reader!Bytes) /\ Len(content) \in Nat
  BY DEF RingInv
<1>2. pos + n <= Len(content)
  <2>1. Len(ring) <= Len(content) /\ Len(ring) \in Nat
    BY <1>1 DEF RingInv
  <2>2. pos + n <= Len(ring)
    BY <2>1 DEF RingInv
  <2> QED
    BY <1>1, <2>1, <2>2
<1>3. b = [k \in 1 .. n |-> content[pos + k]]
  <2> DEFINE Same(k) == ring[((read + k - 1) % Len(ring)) + 1]
               = content[pos + k]
  <2>1. \A k \in 1 .. dataSize : Same(k)
    BY DEF RingInv
  <2>2. 1 .. n \subseteq 1 .. dataSize
    BY <1>1
  <2> HIDE DEF Same
  <2>3. \A k \in 1 .. n : Same(k)
    BY <2>1, <2>2
  <2> QED
    BY <2>3 DEF Same, Reader!Oldest, Reader!Size
<1> HIDE DEF b
<1>4. \A k \in 1 .. n : content[pos + k] \in Reader!Bytes
  BY <1>1, <1>2
<1>5. b \in Seq(Reader!Bytes) /\ Len(b) = n
  BY <1>1, <1>3, <1>4
<1>6. b = SubSeq(content, pos + 1, pos + n)
  BY <1>1, <1>2, <1>3, <1>5
<1> QED
  BY <1>3, <1>5, <1>6 DEF b

\* What a ring counts.
LEMMA Lemma_Counts ==
  ASSUME RingInv
  PROVE  /\ Len(ring) \in Nat /\ Len(content) \in Nat
         /\ Len(ring) <= Len(content)
         /\ isOpen => Len(ring) = Len(content)
         /\ read \in 0 .. Len(ring) /\ write \in 0 .. Len(ring)
         /\ fileBytesRead \in 0 .. Len(ring) /\ dataSize \in 0 .. fileBytesRead
         /\ bytesRead \in Nat /\ pos \in 0 .. fileBytesRead
         /\ pos = fileBytesRead - dataSize
         /\ Len(ring) > 0 => read \in 0 .. Len(ring) - 1
<1>1. /\ Len(ring) \in Nat /\ Len(content) \in Nat
      /\ read \in 0 .. Len(ring) /\ write \in 0 .. Len(ring)
      /\ fileBytesRead \in 0 .. Len(ring) /\ dataSize \in 0 .. fileBytesRead
      /\ bytesRead \in Nat /\ pos = fileBytesRead - dataSize
      /\ Len(ring) > 0 => read < Len(ring)
      /\ Len(ring) = IF isOpen THEN Len(content) ELSE 0
  BY DEF RingInv
<1> QED
  BY <1>1

\* What is taken out of the ring is its oldest bytes.
LEMMA Lemma_Dequeue ==
  ASSUME RingInv, NEW size \in Nat, Reader!akvcam_rbuffer_dequeue_bytes(size),
         UNCHANGED <<content, isOpen, fileBytesRead>>
  PROVE  LET n == Reader!Dequeued(size) IN
         /\ RingInv'
         /\ n = Reader!Least(size, dataSize) /\ n \in 0 .. dataSize
         /\ got' = Reader!Oldest(n) /\ from' = pos /\ pos' = pos + n
         /\ dataSize' = dataSize - n
         /\ bytesRead' = bytesRead + IF dataSize < 1 THEN size ELSE n
<1> DEFINE n == Reader!Dequeued(size)
           S == Len(ring)
<1>1. n = Reader!Least(size, dataSize) /\ n \in 0 .. dataSize
      /\ dataSize \in Nat
  BY Lemma_Counts DEF Reader!Dequeued, Reader!Least
<1>2. /\ got' = Reader!Oldest(n) /\ from' = pos /\ pos' = pos + n
      /\ dataSize' = dataSize - n
      /\ bytesRead' = bytesRead + IF dataSize < 1 THEN size ELSE n
      /\ read' = IF dataSize < 1 THEN read ELSE (read + n) % S
      /\ UNCHANGED <<ring, write, content, isOpen, fileBytesRead>>
  BY DEF Reader!akvcam_rbuffer_dequeue_bytes, Reader!SizeAfter, Reader!Size
<1> HIDE DEF n, S
<1>3. bytesRead' \in Nat
  <2> DEFINE counted == IF dataSize < 1 THEN size ELSE n
  <2>1. counted \in Nat
    BY <1>1
  <2>2. bytesRead' = bytesRead + counted /\ bytesRead \in Nat
    BY <1>2, Lemma_Counts
  <2> HIDE DEF counted
  <2> QED
    BY <2>1, <2>2
<1>4. S \in Nat /\ dataSize \in 0 .. S /\ read \in 0 .. S
  BY Lemma_Counts DEF S
<1>5. /\ S > 0 => read' \in 0 .. S - 1 /\ write = (read' + dataSize') % S
      /\ \A k \in 1 .. dataSize' :
           ((read' + k - 1) % S) + 1 = ((read + (n + k) - 1) % S) + 1
  <2>1. CASE dataSize < 1
    <3>1. read' = read /\ n = 0 /\ dataSize' = 0 /\ dataSize = 0
      BY <1>1, <1>2, <2>1
    <3> QED
      BY <1>4, <3>1 DEF RingInv, S
  <2>2. CASE dataSize >= 1
    <3>1. S \in Nat \ {0} /\ read \in 0 .. S - 1 /\ n \in 0 .. S
      BY <1>1, <1>4, <2>2, Lemma_Counts DEF S
    <3>2. read' = (read + n) % S
      BY <1>1, <1>2, <2>2
    <3>3. /\ read' \in 0 .. S - 1
          /\ \A b \in 0 .. S - n : (read' + b) % S = (read + (n + b)) % S
      BY <3>1, <3>2, Onward
    <3>4. write = (read' + dataSize') % S
      <4>1. dataSize' \in 0 .. S - n /\ n + dataSize' = dataSize
        BY <1>1, <1>2, <1>4
      <4>2. (read' + dataSize') % S = (read + (n + dataSize')) % S
        BY <3>3, <4>1
      <4>3. write = (read + dataSize) % S
        <5>1. S > 0
          BY <3>1
        <5> QED
          BY <5>1 DEF RingInv, S
      <4> QED
        BY <4>1, <4>2, <4>3
    <3>5. ASSUME NEW k \in 1 .. dataSize'
          PROVE  (read' + k - 1) % S = (read + (n + k) - 1) % S
      <4>1. /\ k - 1 \in 0 .. S - n
            /\ read' + (k - 1) = read' + k - 1
            /\ read + (n + (k - 1)) = read + (n + k) - 1
        BY <1>1, <1>2, <1>4, <3>1, <3>3
      <4>2. (read' + (k - 1)) % S = (read + (n + (k - 1))) % S
        BY <3>3, <4>1
      <4> QED
        BY <4>1, <4>2
    <3> QED
      BY <3>3, <3>4, <3>5
  <2> QED
    BY <1>1, <2>1, <2>2
<1>6. ASSUME NEW k \in 1 .. dataSize'
      PROVE  ring[((read' + k - 1) % S) + 1] = content[pos' + k]
  <2> DEFINE m == n + k
  <2>1. m \in 1 .. dataSize /\ pos' + k = pos + m
    <3>1. pos \in Nat
      BY Lemma_Counts
    <3>2. k \in Nat /\ k >= 1 /\ k <= dataSize - n
      BY <1>1, <1>2
    <3>3. m \in 1 .. dataSize
      BY <1>1, <3>2
    <3>4. pos' = pos + n
      BY <1>2
    <3> QED
      BY <1>1, <3>1, <3>2, <3>3, <3>4
  <2> HIDE DEF m
  <2> DEFINE Same(j) == ring[((read + j - 1) % S) + 1] = content[pos + j]
  <2>2. \A j \in 1 .. dataSize : Same(j)
    BY DEF RingInv, S
  <2> HIDE DEF Same
  <2>3. Same(m)
    BY <2>1, <2>2
  <2>4. ((read' + k - 1) % S) + 1 = ((read + m - 1) % S) + 1
    BY <1>5 DEF m
  <2> QED
    BY <2>1, <2>3, <2>4 DEF Same
<1>7. read' \in 0 .. S /\ dataSize' \in 0 .. fileBytesRead
      /\ pos' = fileBytesRead - dataSize'
  <2>1. read' \in 0 .. S
    BY <1>1, <1>2, <1>4, <1>5
  <2> QED
    BY <1>1, <1>2, <2>1, Lemma_Counts
<1>8. RingInv'
  <2>1. S' = S
    BY <1>2 DEF S
  <2>2. S > 0 => read' < S /\ write' = (read' + dataSize') % S
    BY <1>2, <1>4, <1>5
  <2>3. /\ content' \in Seq(Reader!Bytes) /\ isOpen' \in BOOLEAN
        /\ ring' \in Seq(Reader!Bytes)
        /\ Len(ring') = IF isOpen' THEN Len(content') ELSE 0
        /\ write' \in 0 .. Len(ring') /\ fileBytesRead' \in 0 .. Len(ring')
    BY <1>2 DEF RingInv
  <2> DEFINE Same(k) == ring'[((read' + k - 1) % S) + 1] = content'[pos' + k]
  <2>4. \A k \in 1 .. dataSize' : Same(k)
    BY <1>2, <1>6
  <2>5. S = Len(ring')
    BY <1>2 DEF S
  <2> QED
    BY <1>2, <1>3, <1>7, <2>2, <2>3, <2>4, <2>5 DEF RingInv
<1> QED
  BY <1>1, <1>2, <1>8 DEF n

\* A fetched block goes behind what is in the ring, for which there is room: no
\* byte of it gives way.
LEMMA Lemma_Fetch ==
  ASSUME RingInv, isOpen, Reader!Fetch
  PROVE  RingInv'
<1> DEFINE S == Len(ring)
           to == Reader!Least(fileBytesRead + Block, S)
           bytes == SubSeq(content, fileBytesRead + 1, to)
           n == to - fileBytesRead
<1>1. /\ fileBytesRead < S /\ Reader!akvcam_rbuffer_queue_bytes(bytes)
      /\ fileBytesRead' = fileBytesRead + Len(bytes)
      /\ UNCHANGED <<content, isOpen, bytesRead, pos>>
  BY DEF Reader!Fetch, Reader!Lacking, Reader!Size
<1>2. /\ S \in Nat \ {0} /\ Len(content) = S /\ read \in 0 .. S - 1
      /\ write \in 0 .. S /\ fileBytesRead \in 0 .. S
      /\ dataSize \in 0 .. fileBytesRead /\ pos = fileBytesRead - dataSize
      /\ bytesRead \in Nat
  BY <1>1, Lemma_Counts
<1>3. n \in 1 .. S - fileBytesRead /\ to \in 1 .. S /\ to = fileBytesRead + n
  BY <1>1, <1>2, Lemma_FileConstants DEF Reader!Least
<1> HIDE DEF S, to, n
<1>4. content \in Seq(Reader!Bytes)
  BY DEF RingInv
<1>5. /\ Len(bytes) = n
      /\ \A j \in 1 .. n : bytes[j] = content[fileBytesRead + j]
      /\ \A j \in 1 .. n : bytes[j] \in Reader!Bytes
  BY <1>2, <1>3, <1>4
<1> HIDE DEF bytes
<1>6. write = (read + dataSize) % S /\ S > 0
  <2>1. S > 0
    BY <1>2
  <2> QED
    BY <2>1 DEF RingInv, S
<1>7. Reader!Least(Len(bytes), S) = n
  BY <1>2, <1>3, <1>5 DEF Reader!Least
<1>8. ~ (Reader!Between(write, read, write + n - 1) /\ dataSize > 0)
  <2> DEFINE x == read + dataSize
             last == 2 * S - 1
  <2>1. x \in 0 .. last
    BY <1>2
  <2>2. \A y \in 0 .. last : y % S = IF y < S THEN y ELSE y - S
    BY <1>2, WrappedOnce
  <2> HIDE DEF x, last
  <2>3. x % S = IF x < S THEN x ELSE x - S
    BY <2>1, <2>2
  <2>4. write = IF x < S THEN x ELSE x - S
    BY <1>6, <2>3 DEF x
  <2> QED
    BY <1>2, <1>3, <2>4 DEF x, Reader!Between
<1>9. /\ ring' = [i \in DOMAIN ring |->
             LET k == (i - 1 + S - write) % S IN
               IF k < n THEN bytes[k + 1] ELSE ring[i]]
      /\ write' = (write + n) % S
      /\ dataSize' = Reader!Least(dataSize + n, S)
      /\ read' = read
  <2>1. S # 0
    BY <1>2
  <2> QED
    BY <1>1, <1>7, <1>8, <2>1 DEF Reader!akvcam_rbuffer_queue_bytes,
       Reader!Size, S
<1>10. dataSize' = dataSize + n /\ fileBytesRead' = fileBytesRead + n
  BY <1>1, <1>2, <1>3, <1>5, <1>9 DEF Reader!Least
<1>11. write' = (read' + dataSize') % S /\ write' \in 0 .. S
  <2>1. dataSize \in 0 .. S /\ n \in 0 .. S - dataSize
    BY <1>2, <1>3
  <2>2. (((read + dataSize) % S) + n) % S = (read + (dataSize + n)) % S
    BY <1>2, <2>1, Onward
  <2>3. dataSize + n \in 0 .. S /\ 0 \in 0 .. S - (dataSize + n)
    BY <2>1, <1>2
  <2>4. (read + (dataSize + n)) % S \in 0 .. S - 1
    BY <1>2, <2>3, Onward
  <2>5. write' = (read + (dataSize + n)) % S
    BY <1>6, <1>9, <2>2
  <2> QED
    BY <1>2, <1>9, <1>10, <2>4, <2>5
<1>12. DOMAIN ring = 1 .. S /\ \A i \in 1 .. S : ring[i] \in Reader!Bytes
  <2>1. ring \in Seq(Reader!Bytes)
    BY DEF RingInv
  <2> QED
    BY <2>1 DEF S
<1>13. ring' \in Seq(Reader!Bytes) /\ Len(ring') = S
  <2>1. \A i \in 1 .. S : ring'[i] \in Reader!Bytes
    <3> SUFFICES ASSUME NEW i \in 1 .. S PROVE ring'[i] \in Reader!Bytes
      OBVIOUS
    <3> DEFINE k == (i - 1 + S - write) % S
    <3>1. ring'[i] = IF k < n THEN bytes[k + 1] ELSE ring[i]
      BY <1>9, <1>12
    <3>2. k \in Nat
      <4>1. i - 1 + S - write \in Nat
        BY <1>2
      <4> DEFINE a == i - 1 + S - write
      <4> HIDE DEF a
      <4>2. a % S \in 0 .. S - 1
        BY <4>1, <1>2, Division DEF a
      <4> QED
        BY <4>2 DEF a
    <3> HIDE DEF k
    <3>3. k < n => k + 1 \in 1 .. n
      BY <1>3, <3>2
    <3>4. k < n => bytes[k + 1] \in Reader!Bytes
      BY <1>5, <3>3
    <3>5. ring[i] \in Reader!Bytes
      BY <1>12
    <3> QED
      BY <3>1, <3>4, <3>5
  <2>2. ring' = [i \in 1 .. S |-> ring'[i]]
    BY <1>9, <1>12
  <2> QED
    BY <1>2, <2>1, <2>2
<1>14. ASSUME NEW k \in 1 .. dataSize'
      PROVE  ring'[((read' + k - 1) % S) + 1] = content[pos + k]
  <2> DEFINE p == (read + (k - 1)) % S
             far == (p + S - write) % S
  <2>1. k - 1 \in 0 .. S - 1 /\ dataSize \in 0 .. S
        /\ read + (k - 1) = read + k - 1
    BY <1>2, <1>3, <1>10
  <2>2. far = IF k - 1 < dataSize THEN (k - 1) + S - dataSize
          ELSE (k - 1) - dataSize
    BY <1>2, <1>6, <2>1, Ahead
  <2>3. p \in 0 .. S - 1
    <3>1. k - 1 \in 0 .. S /\ 0 \in 0 .. S - (k - 1)
      BY <2>1, <1>2
    <3> QED
      BY <1>2, <3>1, Onward
  <2>4. ring'[p + 1] = IF far < n THEN bytes[far + 1] ELSE ring[p + 1]
    <3> DEFINE i == p + 1
    <3>1. i \in DOMAIN ring /\ i - 1 + S - write = p + S - write
      BY <1>2, <1>12, <2>3
    <3> HIDE DEF p, i
    <3>2. ring'[i] = IF (i - 1 + S - write) % S < n
                     THEN bytes[((i - 1 + S - write) % S) + 1] ELSE ring[i]
      BY <1>9, <3>1
    <3> QED
      BY <3>1, <3>2 DEF i
  <2>5. (read' + k - 1) % S = p
    BY <1>9, <2>1
  <2> HIDE DEF far
  <2>6. CASE k <= dataSize
    <3> DEFINE Same(j) == ring[((read + j - 1) % S) + 1] = content[pos + j]
    <3>1. \A j \in 1 .. dataSize : Same(j)
      BY DEF RingInv, S
    <3>2. k \in 1 .. dataSize
      BY <2>6, <1>2, <1>10
    <3> HIDE DEF Same
    <3>3. Same(k)
      BY <3>1, <3>2
    <3>4. ring[p + 1] = content[pos + k]
      BY <3>3, <2>1 DEF Same
    <3>5. ~ (far < n)
      <4>1. k - 1 < dataSize
        BY <2>6, <3>2, <1>2
      <4>2. far = (k - 1) + S - dataSize
        BY <2>2, <4>1
      <4> HIDE DEF p
      <4> QED
        BY <4>2, <1>2, <1>3, <3>2
    <3> QED
      BY <2>4, <2>5, <3>4, <3>5
  <2>7. CASE k > dataSize
    <3>1. far = (k - 1) - dataSize
      BY <2>2, <2>7, <1>2
    <3>2. far < n /\ far + 1 \in 1 .. n /\ fileBytesRead + (far + 1) = pos + k
      <4> HIDE DEF p
      <4> QED
        BY <3>1, <2>7, <1>2, <1>3, <1>10
    <3> QED
      BY <2>4, <2>5, <3>2, <1>5
  <2> QED
    BY <2>6, <2>7, <1>2, <1>10
<1>15. /\ content' \in Seq(Reader!Bytes) /\ isOpen' \in BOOLEAN
       /\ Len(ring') = IF isOpen' THEN Len(content') ELSE 0
  BY <1>1, <1>2, <1>4, <1>13
<1>16. /\ read' \in 0 .. S /\ read' < S /\ fileBytesRead' \in 0 .. S
       /\ dataSize' \in 0 .. fileBytesRead' /\ bytesRead' \in Nat
       /\ pos' = fileBytesRead' - dataSize'
  BY <1>1, <1>2, <1>3, <1>9, <1>10
<1> DEFINE Same(k) == ring'[((read' + k - 1) % Len(ring')) + 1]
             = content'[pos' + k]
<1>17. \A k \in 1 .. dataSize' : Same(k)
  BY <1>1, <1>13, <1>14
<1> QED
  BY <1>11, <1>13, <1>15, <1>16, <1>17 DEF RingInv

\* The first new line in the ring, if there is one.
LEMMA Lemma_FirstNewLine ==
  ASSUME RingInv
  PROVE  LET m == Reader!FirstNewLine IN
         /\ m \in 0 .. dataSize
         /\ m > 0 => /\ content[pos + m] = NewLine
                     /\ \A j \in 1 .. m - 1 : content[pos + j] # NewLine
         /\ m = 0 => \A j \in 1 .. dataSize : content[pos + j] # NewLine
<1> DEFINE at == {k \in 1 .. dataSize : Reader!Oldest(dataSize)[k] = NewLine}
           m == Reader!FirstNewLine
<1>1. dataSize \in Nat
  BY Lemma_Counts
<1>2. \A k \in 1 .. dataSize : Reader!Oldest(dataSize)[k] = content[pos + k]
  <2>1. dataSize \in 0 .. dataSize
    BY <1>1
  <2> QED
    BY <2>1, Lemma_Oldest
<1>3. m = IF at = {} THEN 0 ELSE CHOOSE k \in at : \A j \in at : k <= j
  BY DEF Reader!FirstNewLine
<1> HIDE DEF m
<1>4. at = {k \in 1 .. dataSize : content[pos + k] = NewLine}
  BY <1>2
<1> HIDE DEF at
<1>5. CASE at = {}
  <2>1. m = 0
    BY <1>3, <1>5
  <2> QED
    BY <1>1, <1>4, <1>5, <2>1 DEF m
<1>6. CASE at # {}
  <2>1. at \in SUBSET Nat
    BY <1>1, <1>4
  <2>2. \E k \in at : \A j \in at : k <= j
    BY <1>6, <2>1, LeastNumber
  <2>3. m \in at /\ \A j \in at : m <= j
    BY <1>3, <1>6, <2>2
  <2>4. m \in 1 .. dataSize /\ content[pos + m] = NewLine
    BY <1>4, <2>3
  <2>5. \A j \in 1 .. m - 1 : content[pos + j] # NewLine
    <3> SUFFICES ASSUME NEW j \in 1 .. m - 1, content[pos + j] = NewLine
                 PROVE  FALSE
      OBVIOUS
    <3>1. j \in 1 .. dataSize /\ ~ (m <= j)
      BY <1>1, <2>4
    <3>2. j \in at
      BY <1>4, <3>1
    <3> QED
      BY <2>3, <3>1, <3>2
  <2> QED
    BY <1>1, <2>4, <2>5 DEF m
<1> QED
  BY <1>5, <1>6

\* A call gives what it is at in the file.
LEMMA Lemma_Gives ==
  ASSUME FileInv, NEW size \in Nat, Reader!akvcam_rbuffer_dequeue_bytes(size),
         UNCHANGED <<content, isOpen, fileBytesRead>>
  PROVE  LET n == Reader!Dequeued(size) IN
         /\ RingInv' /\ n \in 0 .. dataSize /\ n = Reader!Least(size, dataSize)
         /\ Len(got') = n /\ from' \in Nat /\ pos' = from' + Len(got')
         /\ got' = SubSeq(content', from' + 1, from' + Len(got'))
         /\ got' \in Seq(Reader!Bytes)
         /\ pos' = pos + n /\ dataSize' = dataSize - n
         /\ bytesRead' = bytesRead + IF dataSize < 1 THEN size ELSE n
         /\ \A k \in 1 .. n : got'[k] = content[pos + k]
<1> DEFINE n == Reader!Dequeued(size)
<1>1. RingInv
  BY DEF FileInv
<1>2. /\ RingInv'
      /\ n = Reader!Least(size, dataSize) /\ n \in 0 .. dataSize
      /\ got' = Reader!Oldest(n) /\ from' = pos /\ pos' = pos + n
      /\ dataSize' = dataSize - n
      /\ bytesRead' = bytesRead + IF dataSize < 1 THEN size ELSE n
  BY <1>1, Lemma_Dequeue
<1> HIDE DEF n
<1>3. /\ got' = SubSeq(content, pos + 1, pos + n) /\ Len(got') = n
      /\ got' \in Seq(Reader!Bytes)
      /\ \A k \in 1 .. n : got'[k] = content[pos + k]
  BY <1>1, <1>2, Lemma_Oldest
<1>4. pos \in Nat
  BY <1>1, Lemma_Counts
<1> QED
  BY <1>2, <1>3, <1>4 DEF n

\* What a ring counts gives where the reader is at.
LEMMA Lemma_Behind ==
  ASSUME NEW n \in Nat, NEW f \in 0 .. n, NEW d \in 0 .. f, NEW p, p = f - d,
         NEW b \in Nat
  PROVE  /\ p \in Nat
         /\ b = p \/ (b > p /\ p = n) => (b <= n => b + d = f)
OBVIOUS

\* A call that gives nothing is at no byte of the file.
LEMMA Lemma_Nothing ==
  ASSUME NEW s \in Seq(Reader!Bytes), NEW p \in Nat
  PROVE  SubSeq(s, p + 1, p + Len(<< >>)) = << >> /\ p + Len(<< >>) = p
<1>1. p + Len(<< >>) = p
  OBVIOUS
<1>2. SubSeq(s, p + 1, p) = << >>
  OBVIOUS
<1> QED
  BY <1>1, <1>2

\* What does not hold up a call.
LEMMA Lemma_Place ==
  ASSUME FileInv, RingInv', content' = content, got' = << >>, from' = pos',
         wanted' \in Sizes \cup {0}, call' \in {"none", "read", "line"},
         call' # "none" => isOpen', call' = "line" => wanted' = 0,
         short' \in BOOLEAN,
         isOpen' /\ ~ short' => bytesRead' = pos'
           \/ (bytesRead' > pos' /\ pos' = Len(ring'))
  PROVE  FileInv'
<1>1. /\ fileBytesRead' \in 0 .. Len(ring')
      /\ dataSize' \in 0 .. fileBytesRead'
      /\ bytesRead' \in Nat /\ pos' = fileBytesRead' - dataSize'
      /\ Len(ring') \in Nat /\ content' \in Seq(Reader!Bytes)
  BY DEF RingInv
<1>2. /\ pos' \in Nat
      /\ bytesRead' = pos' \/ (bytesRead' > pos' /\ pos' = Len(ring')) =>
           (bytesRead' <= Len(ring')
            => bytesRead' + dataSize' = fileBytesRead')
  BY <1>1, Lemma_Behind
<1>3. got' = SubSeq(content', from' + 1, from' + Len(got'))
      /\ pos' = from' + Len(got')
  BY <1>1, <1>2, Lemma_Nothing
<1>4. Reader!ReadsFile'
  BY <1>1, <1>2, <1>3 DEF Reader!ReadsFile, Reader!Size
<1> QED
  BY <1>2, <1>4 DEF FileInv

\* Opening, closing and seeking keep the invariant.
LEMMA Lemma_Open ==
  ASSUME FileInv,
         Reader!akvcam_file_open \/ Reader!akvcam_file_close
           \/ Reader!akvcam_file_seek
  PROVE  FileInv'
<1>1. /\ content \in Seq(Reader!Bytes) /\ content' = content
      /\ isOpen' \in BOOLEAN /\ call = "none" /\ call' = call
      /\ wanted' = wanted
      /\ Reader!Cleared /\ got' = << >> /\ from' = pos' /\ short' = FALSE
      /\ pos' = bytesRead' /\ fileBytesRead' = bytesRead'
  BY DEF FileInv, RingInv, Reader!akvcam_file_open, Reader!akvcam_file_close,
     Reader!akvcam_file_seek, Reader!SeekTo
<1>2. /\ ring' \in Seq(Reader!Bytes)
      /\ Len(ring') = IF isOpen' THEN Len(content) ELSE 0
  <2>1. CASE Reader!akvcam_file_open
    <3>1. ring' = [i \in 1 .. Len(content) |-> NewLine] /\ isOpen' = TRUE
      BY <1>1, <2>1 DEF Reader!akvcam_file_open
    <3>2. Len(content) \in Nat /\ NewLine \in Reader!Bytes
      BY <1>1, Lemma_FileConstants
    <3> QED
      BY <3>1, <3>2
  <2>2. CASE Reader!akvcam_file_close
    BY <2>2 DEF Reader!akvcam_file_close
  <2>3. CASE Reader!akvcam_file_seek
    <3>1. ring' = ring /\ isOpen' = isOpen
      BY <2>3 DEF Reader!akvcam_file_seek
    <3> QED
      BY <1>1, <3>1 DEF FileInv, RingInv
  <2> QED
    BY <2>1, <2>2, <2>3
<1>3. bytesRead' \in 0 .. Len(ring')
  <2>1. Len(ring') \in Nat
    BY <1>2
  <2>2. CASE bytesRead' = 0
    BY <2>1, <2>2
  <2>3. CASE Reader!akvcam_file_seek
    <3>1. /\ Len(ring) \in Nat /\ bytesRead \in Nat
          /\ \A n \in Sizes \cup {0} : n \in Nat
      BY Lemma_Counts, Lemma_FileConstants DEF FileInv
    <3>2. \A n \in Nat : Reader!Bound(n) \in 0 .. Len(ring)
      BY <3>1 DEF Reader!Bound, Reader!Least, Reader!Size
    <3>3. PICK n \in Sizes \cup {0} :
            bytesRead' \in {Reader!Bound(n), Reader!Bound(bytesRead + n),
                       IF n > bytesRead THEN 0
                         ELSE Reader!Bound(bytesRead - n),
                       IF n > Len(ring) THEN 0 ELSE Len(ring) - n}
      BY <2>3 DEF Reader!akvcam_file_seek, Reader!Size
    <3>4. ring' = ring
      BY <2>3 DEF Reader!akvcam_file_seek
    <3>5. n \in Nat /\ bytesRead + n \in Nat
      BY <3>1
    <3>6. CASE bytesRead' = Reader!Bound(n)
                 \/ bytesRead' = Reader!Bound(bytesRead + n)
      BY <3>2, <3>4, <3>5, <3>6
    <3>7. CASE bytesRead' = IF n > bytesRead THEN 0
                 ELSE Reader!Bound(bytesRead - n)
      <4>1. n <= bytesRead => bytesRead - n \in Nat
        BY <3>1, <3>5
      <4> QED
        BY <2>1, <3>1, <3>2, <3>4, <3>5, <3>7, <4>1
    <3>8. CASE bytesRead' = IF n > Len(ring) THEN 0 ELSE Len(ring) - n
      BY <3>1, <3>4, <3>5, <3>8
    <3> QED
      BY <3>3, <3>6, <3>7, <3>8
  <2> QED
    BY <2>2, <2>3 DEF Reader!akvcam_file_open, Reader!akvcam_file_close
<1>4. RingInv'
  BY <1>1, <1>2, <1>3, Lemma_Emptied
<1>5. wanted' \in Sizes \cup {0}
  BY <1>1 DEF FileInv
<1> QED
  BY <1>1, <1>4, <1>5, Lemma_Place

\* Where the reader is at during a call, and between two.
LEMMA Lemma_At ==
  ASSUME FileInv
  PROVE  /\ RingInv /\ content \in Seq(Reader!Bytes) /\ wanted \in Nat
         /\ call # "none" => from = pos
         /\ isOpen /\ ~ short =>
              bytesRead = pos \/ (bytesRead > pos /\ pos = Len(ring))
<1>1. RingInv /\ content \in Seq(Reader!Bytes)
  BY DEF FileInv, RingInv
<1>2. wanted \in Nat
  BY Lemma_FileConstants DEF FileInv
<1>3. call # "none" => from = pos
  <2>1. call # "none" => pos = from + Len(<< >>)
    BY DEF FileInv, Reader!ReadsFile
  <2>2. from \in Nat
    BY DEF FileInv
  <2> QED
    BY <1>1, <2>1, <2>2, Lemma_Nothing
<1>4. isOpen /\ ~ short => bytesRead = pos
        \/ (bytesRead > pos /\ pos = Len(ring))
  BY DEF FileInv, Reader!ReadsFile, Reader!Size
<1> QED
  BY <1>1, <1>2, <1>3, <1>4

\* A call begins where the program is.
LEMMA Lemma_Begin ==
  ASSUME FileInv, Reader!BeginRead \/ Reader!BeginLine
  PROVE  FileInv'
<1>1. /\ isOpen /\ UNCHANGED <<content, Reader!place, pos, short>>
      /\ got' = << >> /\ from' = pos
      /\ \/ call' = "read" /\ wanted' \in Sizes
         \/ call' = "line" /\ wanted' = 0
  BY DEF Reader!BeginRead, Reader!BeginLine, Reader!Begin
<1>2. UNCHANGED <<isOpen, ring, read, write, dataSize, bytesRead,
                  fileBytesRead>>
  BY <1>1 DEF Reader!place
<1>3. RingInv'
  BY <1>1, <1>2 DEF FileInv, RingInv
<1>4. short' \in BOOLEAN /\ isOpen'
  BY <1>1, <1>2 DEF FileInv
<1>5. isOpen' /\ ~ short' =>
        bytesRead' = pos' \/ (bytesRead' > pos' /\ pos' = Len(ring'))
  BY <1>1, <1>2, Lemma_At
<1> QED
  BY <1>1, <1>3, <1>4, <1>5, Lemma_Place

\* A step that fetches a block keeps the invariant.
LEMMA Lemma_FetchStep ==
  ASSUME FileInv, Reader!Fetch
  PROVE  FileInv'
<1>1. /\ UNCHANGED <<content, isOpen, bytesRead, call, wanted, got, from, pos,
                     short>>
      /\ call # "none"
  BY DEF Reader!Fetch
<1>2. isOpen /\ got = << >> /\ from = pos /\ RingInv
  BY <1>1, Lemma_At DEF FileInv
<1>3. RingInv'
  BY <1>2, Lemma_Fetch
<1>4. Len(ring') = Len(ring)
  BY <1>1, <1>2, <1>3 DEF RingInv
<1>5. isOpen' /\ ~ short' =>
        bytesRead' = pos' \/ (bytesRead' > pos' /\ pos' = Len(ring'))
  BY <1>1, <1>4, Lemma_At
<1>6. /\ wanted' \in Sizes \cup {0} /\ call' \in {"none", "read", "line"}
      /\ call' = "line" => wanted' = 0
      /\ short' \in BOOLEAN
  BY <1>1 DEF FileInv
<1> QED
  BY <1>1, <1>2, <1>3, <1>5, <1>6, Lemma_Place

\* A call that ends without taking anything.
LEMMA Lemma_TakesNone ==
  ASSUME FileInv, call # "none",
         UNCHANGED <<Reader!place, from, pos, content, wanted>>,
         got' = << >>, call' = "none", short' \in BOOLEAN, short => short'
  PROVE  FileInv'
<1>1. UNCHANGED <<isOpen, ring, read, write, dataSize, bytesRead,
                  fileBytesRead>>
  BY DEF Reader!place
<1>2. RingInv'
  BY <1>1 DEF FileInv, RingInv
<1>3. isOpen' /\ ~ short' =>
        bytesRead' = pos' \/ (bytesRead' > pos' /\ pos' = Len(ring'))
  BY <1>1, Lemma_At
<1>4. from' = pos' /\ wanted' \in Sizes \cup {0}
  BY Lemma_At DEF FileInv
<1> QED
  BY <1>2, <1>3, <1>4, Lemma_Place

\* What a read that had all it could get makes of the counts: it gives what it
\* was asked for, unless the file ends.
LEMMA Lemma_ReadCounts ==
  ASSUME Len(ring) \in Nat, fileBytesRead \in 0 .. Len(ring),
         dataSize \in 0 .. fileBytesRead, pos = fileBytesRead - dataSize,
         bytesRead \in Nat,
         bytesRead = pos \/ (bytesRead > pos /\ pos = Len(ring)),
         wanted \in Nat, fileBytesRead >= Len(ring) \/ dataSize >= wanted,
         NEW n \in Nat, n = Reader!Least(Len(ring), wanted), n >= 1,
         NEW m, m = Reader!Least(n, dataSize),
         NEW counted, counted = bytesRead + IF dataSize < 1 THEN n ELSE m
  PROVE  /\ counted = pos + m \/ (counted > pos + m /\ pos + m = Len(ring))
         /\ counted <= Len(ring) => counted + (dataSize - m) = fileBytesRead
         /\ pos + m < Len(ring) => m = wanted
         /\ wanted # 0
BY DEF Reader!Least

\* A read takes what it wants, or all there is, and keeps the invariant.
LEMMA Lemma_Read ==
  ASSUME FileInv, Reader!akvcam_file_read
  PROVE  FileInv'
<1> DEFINE S == Len(ring)
           n == Reader!Least(S, wanted)
<1>1. /\ call = "read" /\ isOpen /\ from = pos /\ wanted \in Nat
      /\ short \in BOOLEAN
      /\ isOpen \in BOOLEAN
      /\ call' = "none" /\ UNCHANGED <<content, wanted>>
      /\ short' = (short \/ Reader!Lacking)
  BY Lemma_At DEF Reader!akvcam_file_read, FileInv
<1>2. short' \in BOOLEAN /\ (short => short')
        /\ (~ short' => ~ short /\ ~ Reader!Lacking)
  BY <1>1 DEF Reader!Lacking
<1>3. CASE n < 1
  <2>1. UNCHANGED <<Reader!place, from, pos>> /\ got' = << >>
    BY <1>3 DEF Reader!akvcam_file_read, Reader!Size
  <2> QED
    BY <1>1, <1>2, <2>1, Lemma_TakesNone
<1>4. CASE ~ (n < 1)
  <2>1. Reader!akvcam_rbuffer_dequeue_bytes(n)
        /\ UNCHANGED <<isOpen, fileBytesRead>>
    BY <1>4 DEF Reader!akvcam_file_read, Reader!Size
  <2>2. n \in Nat /\ n >= 1
    BY <1>1, <1>4, Lemma_At, Lemma_Counts DEF Reader!Least
  <2> DEFINE m == Reader!Dequeued(n)
  <2> HIDE DEF n
  <2>3. /\ RingInv' /\ m = Reader!Least(n, dataSize)
        /\ Len(got') = m /\ from' \in Nat /\ pos' = from' + Len(got')
        /\ got' = SubSeq(content', from' + 1, from' + Len(got'))
        /\ pos' = pos + m /\ dataSize' = dataSize - m
        /\ bytesRead' = bytesRead + IF dataSize < 1 THEN n ELSE m
    BY <1>1, <2>1, <2>2, Lemma_Gives
  <2> HIDE DEF m
  <2>4. Len(ring') = S
    BY <1>1, <2>1, <2>3, Lemma_At DEF RingInv
  <2>5. ASSUME ~ short'
        PROVE  /\ bytesRead' = pos' \/ (bytesRead' > pos' /\ pos' = S)
               /\ bytesRead' <= S => bytesRead' + dataSize' = fileBytesRead'
               /\ pos' < S => m = wanted
               /\ wanted # 0
    <3>1. fileBytesRead >= S \/ dataSize >= wanted
      <4>1. ~ (fileBytesRead < S /\ dataSize < wanted)
        BY <1>1, <1>2, <2>5 DEF Reader!Lacking, Reader!Size
      <4> QED
        BY <4>1, <1>1, Lemma_At, Lemma_Counts
    <3>2. /\ S \in Nat /\ fileBytesRead \in 0 .. S
          /\ dataSize \in 0 .. fileBytesRead
          /\ bytesRead \in Nat /\ pos = fileBytesRead - dataSize
          /\ bytesRead = pos \/ (bytesRead > pos /\ pos = S)
      BY <1>1, <1>2, <2>5, Lemma_At, Lemma_Counts
    <3>3. n = Reader!Least(S, wanted)
      BY DEF n
    <3>4. /\ m = Reader!Least(n, dataSize) /\ wanted \in Nat
          /\ bytesRead' = bytesRead + IF dataSize < 1 THEN n ELSE m
      BY <1>1, <2>3
    <3>5. /\ bytesRead' = pos + m \/ (bytesRead' > pos + m /\ pos + m = S)
          /\ bytesRead' <= S => bytesRead' + (dataSize - m) = fileBytesRead
          /\ pos + m < S => m = wanted
          /\ wanted # 0
      BY <2>2, <3>1, <3>2, <3>3, <3>4, Lemma_ReadCounts
    <3> QED
      BY <2>1, <2>3, <3>5
  <2>6. Reader!ReadsFile'
    BY <1>1, <2>3, <2>4, <2>5 DEF Reader!ReadsFile, Reader!Size
  <2> QED
    BY <1>1, <1>2, <2>3, <2>6 DEF FileInv
<1> QED
  BY <1>3, <1>4

\* The counts agree after a line was taken.
LEMMA Lemma_LineCounts ==
  ASSUME Len(ring) \in Nat, fileBytesRead \in 0 .. Len(ring),
         dataSize \in 0 .. fileBytesRead, pos = fileBytesRead - dataSize,
         bytesRead \in Nat,
         bytesRead = pos \/ (bytesRead > pos /\ pos = Len(ring)),
         NEW l \in 0 .. dataSize, fileBytesRead >= Len(ring) \/ l # 0,
         NEW m \in 0 .. dataSize, m = IF l > 0 THEN l ELSE dataSize,
         NEW counted, counted = bytesRead + m
  PROVE  /\ counted = pos + m \/ (counted > pos + m /\ pos + m = Len(ring))
         /\ counted <= Len(ring) => counted + (dataSize - m) = fileBytesRead
         /\ pos + m < Len(ring) => l > 0
OBVIOUS

\* The bytes of a line before its last are no new lines.
LEMMA Lemma_Front ==
  ASSUME NEW s \in Seq(Reader!Bytes), s # << >>,
         \A j \in 1 .. Len(s) - 1 : s[j] # NewLine
  PROVE  NewLine \notin Reader!ToSet(Reader!Front(s))
<1> DEFINE t == SubSeq(s, 1, Len(s) - 1)
<1>1. Len(s) \in Nat \ {0}
  OBVIOUS
<1>2. DOMAIN t = 1 .. Len(s) - 1 /\ \A j \in 1 .. Len(s) - 1 : t[j] = s[j]
  BY <1>1
<1>3. Reader!Front(s) = t
  BY DEF Reader!Front
<1> HIDE DEF t
<1> QED
  BY <1>2, <1>3 DEF Reader!ToSet

\* A line that is complete, or the last, is taken, and keeps the invariant.
LEMMA Lemma_Line ==
  ASSUME FileInv, Reader!akvcam_file_read_line
  PROVE  FileInv'
<1> DEFINE S == Len(ring)
           l == Reader!FirstNewLine
           n == Reader!LineEnd
<1>1. /\ call = "line" /\ isOpen /\ from = pos /\ wanted = 0
      /\ short \in BOOLEAN
      /\ isOpen \in BOOLEAN
      /\ call' = "none" /\ UNCHANGED <<content, wanted, short>>
      /\ ~ Reader!Lacking
  BY Lemma_At DEF Reader!akvcam_file_read_line, FileInv
<1>2. CASE ~ (l > 0 \/ bytesRead < S)
  <2>1. UNCHANGED <<Reader!place, from, pos>> /\ got' = << >>
    BY <1>2 DEF Reader!akvcam_file_read_line, Reader!Size
  <2> QED
    BY <1>1, <2>1, Lemma_TakesNone
<1>3. CASE l > 0 \/ bytesRead < S
  <2>1. Reader!akvcam_rbuffer_dequeue_bytes(n)
        /\ UNCHANGED <<isOpen, fileBytesRead>>
    BY <1>3 DEF Reader!akvcam_file_read_line, Reader!Size
  <2>2. /\ S \in Nat /\ fileBytesRead \in 0 .. S
        /\ dataSize \in 0 .. fileBytesRead
        /\ bytesRead \in Nat /\ pos = fileBytesRead - dataSize
    BY Lemma_At, Lemma_Counts
  <2>3. /\ l \in 0 .. dataSize
        /\ l > 0 => /\ content[pos + l] = NewLine
                    /\ \A j \in 1 .. l - 1 : content[pos + j] # NewLine
        /\ l = 0 => \A j \in 1 .. dataSize : content[pos + j] # NewLine
    BY Lemma_At, Lemma_FirstNewLine
  <2>4. n = IF l > 0 THEN l ELSE dataSize
    BY DEF Reader!LineEnd
  <2>5. fileBytesRead >= S \/ l # 0
    <3>1. ~ (fileBytesRead < S /\ l = 0)
      BY <1>1 DEF Reader!Lacking, Reader!Size
    <3> QED
      BY <2>2, <3>1
  <2> DEFINE m == Reader!Dequeued(n)
  <2> HIDE DEF n, l
  <2>6. n \in 0 .. dataSize /\ n \in Nat
    BY <2>2, <2>3, <2>4
  <2>7. /\ RingInv' /\ m = Reader!Least(n, dataSize)
        /\ Len(got') = m /\ from' \in Nat /\ pos' = from' + Len(got')
        /\ got' = SubSeq(content', from' + 1, from' + Len(got'))
        /\ got' \in Seq(Reader!Bytes)
        /\ pos' = pos + m /\ dataSize' = dataSize - m
        /\ bytesRead' = bytesRead + IF dataSize < 1 THEN n ELSE m
        /\ \A k \in 1 .. m : got'[k] = content[pos + k]
    BY <1>1, <2>1, <2>6, Lemma_Gives
  <2> HIDE DEF m
  <2>8. m = n
    BY <2>2, <2>6, <2>7 DEF Reader!Least
  <2>9. Len(ring') = S
    BY <1>1, <2>1, <2>7, Lemma_At DEF RingInv
  <2>10. ASSUME ~ short'
         PROVE  /\ bytesRead' = pos' \/ (bytesRead' > pos' /\ pos' = S)
                /\ bytesRead' <= S => bytesRead' + dataSize' = fileBytesRead'
                /\ pos' < S => l > 0
    <3>1. bytesRead = pos \/ (bytesRead > pos /\ pos = S)
      BY <1>1, <2>10, Lemma_At
    <3>2. bytesRead' = bytesRead + m
      BY <2>7, <2>8
    <3>3. m \in 0 .. dataSize /\ m = IF l > 0 THEN l ELSE dataSize
      BY <2>4, <2>6, <2>8
    <3>4. /\ bytesRead' = pos + m \/ (bytesRead' > pos + m /\ pos + m = S)
          /\ bytesRead' <= S => bytesRead' + (dataSize - m) = fileBytesRead
          /\ pos + m < S => l > 0
      BY <2>2, <2>3, <2>5, <3>1, <3>2, <3>3, Lemma_LineCounts
    <3> QED
      BY <2>1, <2>7, <3>4
  <2>11. ASSUME got' # << >>
         PROVE  /\ l > 0 => Reader!Last(got') = NewLine
                /\ NewLine \notin Reader!ToSet(Reader!Front(got'))
    <3>1. m \in 1 .. dataSize
      <4>1. Len(got') \in Nat /\ Len(got') # 0
        BY <2>7, <2>11
      <4> QED
        BY <2>2, <2>6, <2>7, <2>8, <4>1
    <3>2. l > 0 => m = l
      BY <2>4, <2>8
    <3> DEFINE Ends(j) == content[pos + j] = NewLine
    <3>3. 1 .. m - 1 \subseteq 1 .. dataSize /\ 1 .. m - 1 \subseteq 1 .. m
          /\ m \in 1 .. m
      BY <2>2, <3>1
    <3>4. /\ \A j \in 1 .. m - 1 : ~ Ends(j)
          /\ \A j \in 1 .. m : got'[j] = NewLine <=> Ends(j)
          /\ l > 0 => Ends(m)
      <4>1. \A j \in 1 .. m : got'[j] = NewLine <=> Ends(j)
        BY <2>7
      <4>2. /\ l > 0 => Ends(l) /\ \A j \in 1 .. l - 1 : ~ Ends(j)
            /\ l = 0 => \A j \in 1 .. dataSize : ~ Ends(j)
            /\ l > 0 \/ l = 0
        BY <2>2, <2>3
      <4> HIDE DEF Ends
      <4> QED
        BY <3>2, <3>3, <4>1, <4>2
    <3> HIDE DEF Ends
    <3>5. /\ \A j \in 1 .. m - 1 : got'[j] # NewLine
          /\ l > 0 => got'[m] = NewLine
      BY <3>3, <3>4
    <3>6. NewLine \notin Reader!ToSet(Reader!Front(got'))
      BY <2>7, <2>11, <3>5, Lemma_Front
    <3> QED
      BY <2>7, <3>5, <3>6 DEF Reader!Last
  <2>12. Reader!ReadsFile'
    BY <1>1, <2>7, <2>9, <2>10, <2>11 DEF Reader!ReadsFile, Reader!Size
  <2>13. wanted' \in Sizes \cup {0} /\ short' \in BOOLEAN
    BY <1>1
  <2> QED
    BY <1>1, <2>7, <2>12, <2>13 DEF FileInv
<1> QED
  BY <1>2, <1>3

\* So every step keeps the invariant.
LEMMA Lemma_FileStep == FileInv /\ [Reader!Next]_(Reader!vars) => FileInv'
<1> SUFFICES ASSUME FileInv, [Reader!Next]_(Reader!vars) PROVE FileInv'
  OBVIOUS
<1>1. CASE Reader!Next
  BY <1>1, Lemma_Open, Lemma_Begin, Lemma_FetchStep, Lemma_Read, Lemma_Line
     DEF Reader!Next
<1>2. CASE UNCHANGED Reader!vars
  BY <1>2 DEF Reader!vars, Reader!place, FileInv, RingInv, Reader!ReadsFile,
     Reader!Size
<1> QED
  BY <1>1, <1>2

\* A step of a behaviour of the file reader is a step of it, or none.
LEMMA Lemma_ReaderPart ==
  ASSUME part = "reader", [Next]_vars
  PROVE  [Reader!Next]_(Reader!vars)
BY DEF Next, vars, ofReader, Reader!vars, Reader!place

\* Whatever was fetched, seeked and read before, for every file, every size of
\* a block and all that callers ask for: reads and lines are the bytes of the
\* file from where the reader is at.
THEOREM ReadsTheFile == Spec => []ReadsFile
<1> DEFINE Inv == part = "reader" => FileInv
<1>1. Init => Inv
  BY Lemma_FileInit DEF Init
<1>2. Inv /\ [Next]_vars => Inv'
  <2> SUFFICES ASSUME Inv, [Next]_vars, part' = "reader" PROVE FileInv'
    OBVIOUS
  <2>1. part = "reader" /\ FileInv
    BY DEF Next, vars
  <2> QED
    BY <2>1, Lemma_ReaderPart, Lemma_FileStep
<1>3. Inv => ReadsFile
  BY DEF ReadsFile, FileInv
<1> QED
  BY <1>1, <1>2, <1>3, PTL DEF Spec

-----------------------------------------------------------------------------
(***************************************************************************)
(* The life of the qvio driver: a device is bound with every part that it  *)
(* has, or there is none of them.  The parts are what AllOrNothing counts. *)
(* Each is acquired by one of four functions that start something, all     *)
(* called by the two probes, and released by four that stop it, called by  *)
(* the two removals and by the labels of the probes.  The invariant says   *)
(* what is held while the driver core's task is in one of them: in its     *)
(* body a function has what its finished steps gave, and below its labels  *)
(* what the releases that are left will take.  That needs of each script   *)
(* what Sound says, which is proved of the twelve one by one; of the other *)
(* functions only that they have to do with none of the parts.  A failure  *)
(* that the code reports as a success, which the run refutes the property  *)
(* for, is excluded as in the property itself.                             *)
(***************************************************************************)

\* The parts of a device, and the functions that acquire and release them.
Parts == {"self", "cdev", "node", "video", "v4l2_dev", "vdev", "vnode"}
Starts ==
  {"qvio_device_new", "qvio_cdev_start", "qvio_video_new", "qvio_video_start"}
Stops ==
  {"qvio_device_put", "qvio_cdev_stop", "qvio_video_put", "qvio_video_stop"}
Probes == {"pci_probe", "platform_probe"}
Removes == {"pci_remove", "platform_remove"}
Leaves == Starts \cup Stops
Roots == Probes \cup Removes
SetUps == Starts \cup Probes

\* The parts that a step, or a function called in it, acquires or releases.
Group(x) ==
  IF x \in Parts THEN {x}
  ELSE IF x \in {"qvio_device_new", "qvio_device_put"} THEN {"self"}
  ELSE IF x \in {"qvio_cdev_start", "qvio_cdev_stop"} THEN {"cdev", "node"}
  ELSE IF x \in {"qvio_video_new", "qvio_video_put"} THEN {"video"}
  ELSE IF x \in {"qvio_video_start", "qvio_video_stop"}
       THEN {"v4l2_dev", "vdev", "vnode"}
  ELSE IF x \in Roots THEN Parts ELSE {}

\* What the steps of a script before the i-th acquire, and what its releases
\* from the i-th on release.
Got(f, i) == {r \in Parts : \E j \in 1 .. i - 1 : r \in Group(f.get[j].what)}
Left(f, i) == {r \in Parts : \E j \in i .. Len(f.put) : r \in Group(f.put[j])}

\* A step acquires parts that its function has not yet, and the label it jumps
\* to if it fails releases what was acquired before it, unless it is one of
\* those whose failure is taken for success.
StepSound(p, f, i) ==
  LET s == f.get[i]
      l == Qvio!U!Place(f.put, s.label) IN
  /\ ~s.drop /\ s.label # "continue"
  /\ s.quiet => /\ <<p, s.what>> \in DOMAIN Qvio!Noted
                /\ Qvio!Noted[<<p, s.what>>] = "false_success"
                /\ s.what \in Parts \cup {"device_id"}
  /\ s.what \in IF p \in Leaves THEN Parts \cup {"vb2_queue"}
                ELSE Starts \cup {"xdma_device_open", "device_id"}
  /\ Group(s.what) \cap Got(f, i) = {} /\ Group(s.what) \subseteq Group(p)
  /\ l \in Nat \ {0} /\ Left(f, l) = Got(f, i)

\* A release is of parts that no later one releases.
DropSound(p, f, i) ==
  /\ f.put[i] \in IF p \in Leaves THEN Parts
                  ELSE Stops \cup {"xdma_device_close"}
  /\ Group(f.put[i]) \cap Left(f, i + 1) = {}
  /\ Group(f.put[i]) \subseteq Group(p)

\* A set-up has acquired all its parts when it is through, and the others
\* release all of theirs.
Sound(p, f) ==
  /\ f.when = "always" /\ ~f.through
  /\ Len(f.get) \in Nat /\ DOMAIN f.get = 1 .. Len(f.get)
  /\ Len(f.put) \in Nat /\ DOMAIN f.put = 1 .. Len(f.put)
  /\ IF p \in SetUps THEN f.get # << >> /\ Got(f, Len(f.get) + 1) = Group(p)
     ELSE f.get = << >> /\ Len(f.get) = 0 /\ Left(f, 1) = Group(p)
  /\ \A i \in 1 .. Len(f.get) : StepSound(p, f, i)
  /\ \A i \in 1 .. Len(f.put) : DropSound(p, f, i)

\* No function is a leaf and a root.
LEMMA Lemma_Kinds ==
  /\ Leaves \cap Roots = {} /\ Starts \subseteq Leaves
  /\ "pci_probe" \in Roots /\ "platform_probe" \in Roots
  /\ "qvio_device_new" \in Leaves /\ "qvio_cdev_start" \in Leaves
  /\ "qvio_video_new" \in Leaves /\ "qvio_video_start" \in Leaves
BY DEF Leaves, Roots, Starts, Stops, Probes, Removes

\* The release that a label stands for.
LEMMA Lemma_LabelPlace ==
  ASSUME NEW put, NEW n \in Nat, DOMAIN put = 1 .. n,
         \A i, j \in 1 .. n : put[i] = put[j] => i = j
  PROVE  \A k \in 1 .. n : Qvio!U!Place(put, put[k]) = k
BY DEF Qvio!U!Place

\* Any other label ends the function.
LEMMA Lemma_NoPlace ==
  ASSUME NEW put, NEW label, \A i \in DOMAIN put : put[i] # label
  PROVE  Qvio!U!Place(put, label) = Len(put) + 1
BY DEF Qvio!U!Place

\* The parts of each step.
LEMMA Lemma_Groups ==
  /\ \A x : Group(x) \subseteq Parts
  /\ \A x \in Parts : Group(x) = {x}
  /\ Group("qvio_device_new") = {"self"} /\ Group("qvio_device_put") = {"self"}
  /\ Group("qvio_cdev_start") = {"cdev", "node"}
  /\ Group("qvio_cdev_stop") = {"cdev", "node"}
  /\ Group("qvio_video_new") = {"video"} /\ Group("qvio_video_put") = {"video"}
  /\ Group("qvio_video_start") = {"v4l2_dev", "vdev", "vnode"}
  /\ Group("qvio_video_stop") = {"v4l2_dev", "vdev", "vnode"}
  /\ \A x \in Roots : Group(x) = Parts
  /\ Group("vb2_queue") = {} /\ Group("device_id") = {}
  /\ Group("xdma_device_open") = {} /\ Group("xdma_device_close") = {}
<1>1. \A x : Group(x) \subseteq Parts
  BY DEF Group, Parts, Roots, Probes, Removes
<1> QED
  BY <1>1 DEF Group, Parts, Roots, Probes, Removes

\* Step by step.
LEMMA Lemma_Got ==
  ASSUME NEW f
  PROVE  /\ Got(f, 1) = {}
         /\ \A i \in Nat \ {0} :
              Got(f, i + 1) = Got(f, i) \cup Group(f.get[i].what)
<1>1. Got(f, 1) = {}
  BY DEF Got
<1>2. ASSUME NEW i \in Nat \ {0}
      PROVE  Got(f, i + 1) = Got(f, i) \cup Group(f.get[i].what)
  <2>1. 1 .. (i + 1) - 1 = (1 .. i - 1) \cup {i}
    OBVIOUS
  <2>2. Group(f.get[i].what) \subseteq Parts
    BY Lemma_Groups
  <2> QED
    BY <2>1, <2>2 DEF Got
<1> QED
  BY <1>1, <1>2

\* A release less is left after each of them.
LEMMA Lemma_Left ==
  ASSUME NEW f, Len(f.put) \in Nat
  PROVE  /\ Left(f, Len(f.put) + 1) = {}
         /\ \A i \in 1 .. Len(f.put) :
              Left(f, i) = Left(f, i + 1) \cup Group(f.put[i])
<1>1. Left(f, Len(f.put) + 1) = {}
  BY DEF Left
<1>2. ASSUME NEW i \in 1 .. Len(f.put)
      PROVE  Left(f, i) = Left(f, i + 1) \cup Group(f.put[i])
  <2>1. i .. Len(f.put) = (i + 1 .. Len(f.put)) \cup {i}
    OBVIOUS
  <2>2. Group(f.put[i]) \subseteq Parts
    BY Lemma_Groups
  <2> QED
    BY <2>1, <2>2 DEF Left
<1> QED
  BY <1>1, <1>2

\* The failures that are reported as successes.
LEMMA Lemma_Noted ==
  \A x \in {<<"qvio_cdev_start", "node">>, <<"qvio_video_start", "vdev">>,
            <<"pci_probe", "device_id">>} :
    x \in DOMAIN Qvio!Noted /\ Qvio!Noted[x] = "false_success"
BY DEF Qvio!Noted

\* The functions that handle parts, one by one.
LEMMA Lemma_qvio_device_new ==
  Sound("qvio_device_new", Qvio!Code["qvio_device_new"])
<1> DEFINE f == Qvio!Code["qvio_device_new"]
<1>1. f = [get |-> <<[what |-> "self", label |-> "return",
                       quiet |-> FALSE, drop |-> FALSE]>>,
           put |-> << >>,
           when |-> "always", through |-> FALSE]
  BY DEF Qvio!Code, Qvio!qvio_device_new, Qvio!Script, Qvio!Releases,
         Qvio!On, Qvio!Forgetful, Qvio!Step
<1> HIDE DEF f
<1>2. /\ f.when = "always" /\ ~f.through /\ Len(f.get) = 1 /\ Len(f.put) = 0
      /\ DOMAIN f.get = 1 .. 1 /\ DOMAIN f.put = 1 .. 0 /\ f.get # << >>
  BY <1>1
<1>3. /\ f.get[1].what = "self" /\ f.get[1].label = "return"
      /\ ~f.get[1].drop /\ ~f.get[1].quiet
  BY <1>1
<1>4. /\ Group("self") = {"self"}
      /\ Group("qvio_device_new") = {"self"}
  BY Lemma_Groups DEF Parts, Roots, Probes, Removes
<1>5. /\ Got(f, 1) = {}
      /\ Got(f, 2) = {"self"}
  <2>1. /\ Got(f, 1) = {}
        /\ Got(f, 1 + 1) = Got(f, 1) \cup Group(f.get[1].what)
    BY Lemma_Got
  <2> QED
    BY <1>3, <1>4, <2>1
<1>6. /\ Left(f, 1) = {}
  <2>1. Left(f, 1) = {}
    BY <1>2 DEF Left
  <2> QED
    BY <1>3, <1>4, <2>1
<1>7. Qvio!U!Place(f.put, "return") = 1
  <2>1. \A i \in DOMAIN f.put : f.put[i] # "return"
    BY <1>2, <1>3
  <2>2. Qvio!U!Place(f.put, "return") = Len(f.put) + 1
    BY <2>1, Lemma_NoPlace
  <2> QED
    BY <1>2, <2>2
<1>8. StepSound("qvio_device_new", f, 1)
  <2>1. Qvio!U!Place(f.put, f.get[1].label) = 1
    BY <1>3, <1>7
  <2>2. Left(f, 1) = Got(f, 1) /\ Group(f.get[1].what) \cap Got(f, 1) = {}
        /\ Group(f.get[1].what) \subseteq Group("qvio_device_new")
    BY <1>3, <1>4, <1>5, <1>6
  <2>3. f.get[1].what \in Parts \cup {"vb2_queue"}
    BY <1>3 DEF Parts, Starts
  <2> QED
    BY <1>3, <2>1, <2>2, <2>3, Lemma_Kinds DEF StepSound
<1>9. "qvio_device_new" \in SetUps
  BY DEF SetUps, Starts, Probes
<1>10. \A i \in 1 .. 1 : StepSound("qvio_device_new", f, i)
  BY <1>8
<1> QED
  <2>1. /\ \A i \in 1 .. Len(f.get) : StepSound("qvio_device_new", f, i)
        /\ \A i \in 1 .. Len(f.put) : DropSound("qvio_device_new", f, i)
    BY <1>2, <1>10
  <2>2. "qvio_device_new" \in SetUps /\ f.get # << >>
        /\ Got(f, Len(f.get) + 1) = Group("qvio_device_new")
    <3>1. Len(f.get) + 1 = 2
      BY <1>2
    <3> QED
      BY <1>2, <1>4, <1>5, <1>9, <3>1
  <2>3. /\ Len(f.get) \in Nat /\ DOMAIN f.get = 1 .. Len(f.get)
        /\ Len(f.put) \in Nat /\ DOMAIN f.put = 1 .. Len(f.put)
    BY <1>2
  <2> QED
    BY <1>2, <2>1, <2>2, <2>3 DEF Sound, f

\* The last reference to a device frees it, and nothing else.
LEMMA Lemma_qvio_device_put ==
  Sound("qvio_device_put", Qvio!Code["qvio_device_put"])
<1> DEFINE f == Qvio!Code["qvio_device_put"]
<1>1. f = [get |-> << >>,
           put |-> <<"self">>,
           when |-> "always", through |-> FALSE]
  BY DEF Qvio!Code, Qvio!qvio_device_put, Qvio!Script, Qvio!Releases,
         Qvio!On, Qvio!Forgetful, Qvio!Step
<1> HIDE DEF f
<1>2. /\ f.when = "always" /\ ~f.through /\ Len(f.get) = 0 /\ Len(f.put) = 1
      /\ DOMAIN f.get = 1 .. 0 /\ DOMAIN f.put = 1 .. 1 /\ f.get = << >>
  BY <1>1
<1>3. /\ f.put[1] = "self"
  BY <1>1
<1>4. /\ Group("self") = {"self"}
      /\ Group("qvio_device_put") = {"self"}
  BY Lemma_Groups DEF Parts, Roots, Probes, Removes
<1>5. /\ Left(f, 2) = {}
      /\ Left(f, 1) = {"self"}
  <2>1. Left(f, 2) = {}
    BY <1>2 DEF Left
  <2>2. Left(f, 1) = Left(f, 1 + 1) \cup Group(f.put[1])
    BY <1>2, Lemma_Left
  <2> QED
    BY <1>3, <1>4, <2>1, <2>2
<1>6. \A i \in 1 .. 1 : DropSound("qvio_device_put", f, i)
  BY <1>3, <1>4, <1>5 DEF DropSound, Parts, Leaves, Starts, Stops
<1>7. "qvio_device_put" \notin SetUps
  BY DEF SetUps, Starts, Probes
<1> QED
  <2>1. /\ \A i \in 1 .. Len(f.get) : StepSound("qvio_device_put", f, i)
        /\ \A i \in 1 .. Len(f.put) : DropSound("qvio_device_put", f, i)
    BY <1>2, <1>6
  <2>2. /\ "qvio_device_put" \notin SetUps /\ f.get = << >> /\ Len(f.get) = 0
        /\ Left(f, 1) = Group("qvio_device_put")
    BY <1>2, <1>4, <1>5, <1>7
  <2>3. /\ Len(f.get) \in Nat /\ DOMAIN f.get = 1 .. Len(f.get)
        /\ Len(f.put) \in Nat /\ DOMAIN f.put = 1 .. Len(f.put)
    BY <1>2
  <2> QED
    BY <1>2, <2>1, <2>2, <2>3 DEF Sound, f

\* The node of the device: a start that fails has removed what it added.
LEMMA Lemma_qvio_cdev_start ==
  Sound("qvio_cdev_start", Qvio!Code["qvio_cdev_start"])
<1> DEFINE f == Qvio!Code["qvio_cdev_start"]
<1>1. f = [get |-> <<[what |-> "cdev", label |-> "return",
                       quiet |-> FALSE, drop |-> FALSE],
                      [what |-> "node", label |-> "cdev",
                       quiet |-> TRUE, drop |-> FALSE]>>,
           put |-> <<"cdev">>,
           when |-> "always", through |-> FALSE]
  BY DEF Qvio!Code, Qvio!qvio_cdev_start, Qvio!Script, Qvio!Releases,
         Qvio!On, Qvio!Forgetful, Qvio!Step
<1> HIDE DEF f
<1>2. /\ f.when = "always" /\ ~f.through /\ Len(f.get) = 2 /\ Len(f.put) = 1
      /\ DOMAIN f.get = 1 .. 2 /\ DOMAIN f.put = 1 .. 1 /\ f.get # << >>
  BY <1>1
<1>3. /\ f.get[1].what = "cdev" /\ f.get[1].label = "return"
      /\ ~f.get[1].drop /\ ~f.get[1].quiet
      /\ f.get[2].what = "node" /\ f.get[2].label = "cdev"
      /\ ~f.get[2].drop
      /\ f.put[1] = "cdev"
  BY <1>1
<1>4. /\ Group("cdev") = {"cdev"}
      /\ Group("node") = {"node"}
      /\ Group("qvio_cdev_start") = {"cdev", "node"}
  BY Lemma_Groups DEF Parts, Roots, Probes, Removes
<1>5. /\ Got(f, 1) = {}
      /\ Got(f, 2) = {"cdev"}
      /\ Got(f, 3) = {"cdev", "node"}
  <2>1. /\ Got(f, 1) = {}
        /\ Got(f, 1 + 1) = Got(f, 1) \cup Group(f.get[1].what)
        /\ Got(f, 2 + 1) = Got(f, 2) \cup Group(f.get[2].what)
    BY Lemma_Got
  <2> QED
    BY <1>3, <1>4, <2>1
<1>6. /\ Left(f, 2) = {}
      /\ Left(f, 1) = {"cdev"}
  <2>1. Left(f, 2) = {}
    BY <1>2 DEF Left
  <2>2. Left(f, 1) = Left(f, 1 + 1) \cup Group(f.put[1])
    BY <1>2, Lemma_Left
  <2> QED
    BY <1>3, <1>4, <2>1, <2>2
<1>7. Qvio!U!Place(f.put, "return") = 2
  <2>1. \A i \in DOMAIN f.put : f.put[i] # "return"
    BY <1>2, <1>3
  <2>2. Qvio!U!Place(f.put, "return") = Len(f.put) + 1
    BY <2>1, Lemma_NoPlace
  <2> QED
    BY <1>2, <2>2
<1>8. \A i \in 1 .. 1 : Qvio!U!Place(f.put, f.put[i]) = i
  <2>1. \A i, j \in 1 .. 1 : f.put[i] = f.put[j] => i = j
    BY <1>3
  <2> QED
    BY <1>2, <2>1, Lemma_LabelPlace
<1>9. StepSound("qvio_cdev_start", f, 1)
  <2>1. Qvio!U!Place(f.put, f.get[1].label) = 2
    BY <1>3, <1>7
  <2>2. Left(f, 2) = Got(f, 1) /\ Group(f.get[1].what) \cap Got(f, 1) = {}
        /\ Group(f.get[1].what) \subseteq Group("qvio_cdev_start")
    BY <1>3, <1>4, <1>5, <1>6
  <2>3. f.get[1].what \in Parts \cup {"vb2_queue"}
    BY <1>3 DEF Parts, Starts
  <2> QED
    BY <1>3, <2>1, <2>2, <2>3, Lemma_Kinds DEF StepSound
<1>10. StepSound("qvio_cdev_start", f, 2)
  <2>1. Qvio!U!Place(f.put, f.get[2].label) = 1
    BY <1>3, <1>8
  <2>2. Left(f, 1) = Got(f, 2) /\ Group(f.get[2].what) \cap Got(f, 2) = {}
        /\ Group(f.get[2].what) \subseteq Group("qvio_cdev_start")
    BY <1>3, <1>4, <1>5, <1>6
  <2>3. f.get[2].what \in Parts \cup {"vb2_queue"}
    BY <1>3 DEF Parts, Starts
  <2>4. LET x == <<"qvio_cdev_start", f.get[2].what>> IN
        /\ x \in DOMAIN Qvio!Noted /\ Qvio!Noted[x] = "false_success"
        /\ f.get[2].what \in Parts \cup {"device_id"}
    BY <1>3, Lemma_Noted DEF Parts
  <2> QED
    BY <1>3, <2>1, <2>2, <2>3, <2>4, Lemma_Kinds DEF StepSound
<1>11. \A i \in 1 .. 1 : DropSound("qvio_cdev_start", f, i)
  BY <1>3, <1>4, <1>6 DEF DropSound, Parts, Leaves, Starts, Stops
<1>12. "qvio_cdev_start" \in SetUps
  BY DEF SetUps, Starts, Probes
<1>13. \A i \in 1 .. 2 : StepSound("qvio_cdev_start", f, i)
  BY <1>9, <1>10
<1> QED
  <2>1. /\ \A i \in 1 .. Len(f.get) : StepSound("qvio_cdev_start", f, i)
        /\ \A i \in 1 .. Len(f.put) : DropSound("qvio_cdev_start", f, i)
    BY <1>2, <1>13, <1>11
  <2>2. "qvio_cdev_start" \in SetUps /\ f.get # << >>
        /\ Got(f, Len(f.get) + 1) = Group("qvio_cdev_start")
    <3>1. Len(f.get) + 1 = 3
      BY <1>2
    <3> QED
      BY <1>2, <1>4, <1>5, <1>12, <3>1
  <2>3. /\ Len(f.get) \in Nat /\ DOMAIN f.get = 1 .. Len(f.get)
        /\ Len(f.put) \in Nat /\ DOMAIN f.put = 1 .. Len(f.put)
    BY <1>2
  <2> QED
    BY <1>2, <2>1, <2>2, <2>3 DEF Sound, f

\* A stop removes all of it.
LEMMA Lemma_qvio_cdev_stop ==
  Sound("qvio_cdev_stop", Qvio!Code["qvio_cdev_stop"])
<1> DEFINE f == Qvio!Code["qvio_cdev_stop"]
<1>1. f = [get |-> << >>,
           put |-> <<"node", "cdev">>,
           when |-> "always", through |-> FALSE]
  BY DEF Qvio!Code, Qvio!qvio_cdev_stop, Qvio!Script, Qvio!Releases, Qvio!On,
         Qvio!Forgetful, Qvio!Step
<1> HIDE DEF f
<1>2. /\ f.when = "always" /\ ~f.through /\ Len(f.get) = 0 /\ Len(f.put) = 2
      /\ DOMAIN f.get = 1 .. 0 /\ DOMAIN f.put = 1 .. 2 /\ f.get = << >>
  BY <1>1
<1>3. /\ f.put[1] = "node" /\ f.put[2] = "cdev"
  BY <1>1
<1>4. /\ Group("node") = {"node"}
      /\ Group("cdev") = {"cdev"}
      /\ Group("qvio_cdev_stop") = {"node", "cdev"}
  BY Lemma_Groups DEF Parts, Roots, Probes, Removes
<1>5. /\ Left(f, 3) = {}
      /\ Left(f, 2) = {"cdev"}
      /\ Left(f, 1) = {"node", "cdev"}
  <2>1. Left(f, 3) = {}
    BY <1>2 DEF Left
  <2>2. Left(f, 2) = Left(f, 2 + 1) \cup Group(f.put[2])
    BY <1>2, Lemma_Left
  <2>3. Left(f, 1) = Left(f, 1 + 1) \cup Group(f.put[1])
    BY <1>2, Lemma_Left
  <2> QED
    BY <1>3, <1>4, <2>1, <2>2, <2>3
<1>6. \A i \in 1 .. 2 : DropSound("qvio_cdev_stop", f, i)
  BY <1>3, <1>4, <1>5 DEF DropSound, Parts, Leaves, Starts, Stops
<1>7. "qvio_cdev_stop" \notin SetUps
  BY DEF SetUps, Starts, Probes
<1> QED
  <2>1. /\ \A i \in 1 .. Len(f.get) : StepSound("qvio_cdev_stop", f, i)
        /\ \A i \in 1 .. Len(f.put) : DropSound("qvio_cdev_stop", f, i)
    BY <1>2, <1>6
  <2>2. /\ "qvio_cdev_stop" \notin SetUps /\ f.get = << >> /\ Len(f.get) = 0
        /\ Left(f, 1) = Group("qvio_cdev_stop")
    BY <1>2, <1>4, <1>5, <1>7
  <2>3. /\ Len(f.get) \in Nat /\ DOMAIN f.get = 1 .. Len(f.get)
        /\ Len(f.put) \in Nat /\ DOMAIN f.put = 1 .. Len(f.put)
    BY <1>2
  <2> QED
    BY <1>2, <2>1, <2>2, <2>3 DEF Sound, f

\* The video structure: a function that fails has freed what it allocated.
LEMMA Lemma_qvio_video_new ==
  Sound("qvio_video_new", Qvio!Code["qvio_video_new"])
<1> DEFINE f == Qvio!Code["qvio_video_new"]
<1>1. f = [get |-> <<[what |-> "video", label |-> "return",
                       quiet |-> FALSE, drop |-> FALSE]>>,
           put |-> << >>,
           when |-> "always", through |-> FALSE]
  BY DEF Qvio!Code, Qvio!qvio_video_new, Qvio!Script, Qvio!Releases, Qvio!On,
         Qvio!Forgetful, Qvio!Step
<1> HIDE DEF f
<1>2. /\ f.when = "always" /\ ~f.through /\ Len(f.get) = 1 /\ Len(f.put) = 0
      /\ DOMAIN f.get = 1 .. 1 /\ DOMAIN f.put = 1 .. 0 /\ f.get # << >>
  BY <1>1
<1>3. /\ f.get[1].what = "video" /\ f.get[1].label = "return"
      /\ ~f.get[1].drop /\ ~f.get[1].quiet
  BY <1>1
<1>4. /\ Group("video") = {"video"}
      /\ Group("qvio_video_new") = {"video"}
  BY Lemma_Groups DEF Parts, Roots, Probes, Removes
<1>5. /\ Got(f, 1) = {}
      /\ Got(f, 2) = {"video"}
  <2>1. /\ Got(f, 1) = {}
        /\ Got(f, 1 + 1) = Got(f, 1) \cup Group(f.get[1].what)
    BY Lemma_Got
  <2> QED
    BY <1>3, <1>4, <2>1
<1>6. /\ Left(f, 1) = {}
  <2>1. Left(f, 1) = {}
    BY <1>2 DEF Left
  <2> QED
    BY <1>3, <1>4, <2>1
<1>7. Qvio!U!Place(f.put, "return") = 1
  <2>1. \A i \in DOMAIN f.put : f.put[i] # "return"
    BY <1>2, <1>3
  <2>2. Qvio!U!Place(f.put, "return") = Len(f.put) + 1
    BY <2>1, Lemma_NoPlace
  <2> QED
    BY <1>2, <2>2
<1>8. StepSound("qvio_video_new", f, 1)
  <2>1. Qvio!U!Place(f.put, f.get[1].label) = 1
    BY <1>3, <1>7
  <2>2. Left(f, 1) = Got(f, 1) /\ Group(f.get[1].what) \cap Got(f, 1) = {}
        /\ Group(f.get[1].what) \subseteq Group("qvio_video_new")
    BY <1>3, <1>4, <1>5, <1>6
  <2>3. f.get[1].what \in Parts \cup {"vb2_queue"}
    BY <1>3 DEF Parts, Starts
  <2> QED
    BY <1>3, <2>1, <2>2, <2>3, Lemma_Kinds DEF StepSound
<1>9. "qvio_video_new" \in SetUps
  BY DEF SetUps, Starts, Probes
<1>10. \A i \in 1 .. 1 : StepSound("qvio_video_new", f, i)
  BY <1>8
<1> QED
  <2>1. /\ \A i \in 1 .. Len(f.get) : StepSound("qvio_video_new", f, i)
        /\ \A i \in 1 .. Len(f.put) : DropSound("qvio_video_new", f, i)
    BY <1>2, <1>10
  <2>2. "qvio_video_new" \in SetUps /\ f.get # << >>
        /\ Got(f, Len(f.get) + 1) = Group("qvio_video_new")
    <3>1. Len(f.get) + 1 = 2
      BY <1>2
    <3> QED
      BY <1>2, <1>4, <1>5, <1>9, <3>1
  <2>3. /\ Len(f.get) \in Nat /\ DOMAIN f.get = 1 .. Len(f.get)
        /\ Len(f.put) \in Nat /\ DOMAIN f.put = 1 .. Len(f.put)
    BY <1>2
  <2> QED
    BY <1>2, <2>1, <2>2, <2>3 DEF Sound, f

\* The last reference frees it, and nothing else.
LEMMA Lemma_qvio_video_put ==
  Sound("qvio_video_put", Qvio!Code["qvio_video_put"])
<1> DEFINE f == Qvio!Code["qvio_video_put"]
<1>1. f = [get |-> << >>,
           put |-> <<"video">>,
           when |-> "always", through |-> FALSE]
  BY DEF Qvio!Code, Qvio!qvio_video_put, Qvio!Script, Qvio!Releases, Qvio!On,
         Qvio!Forgetful, Qvio!Step
<1> HIDE DEF f
<1>2. /\ f.when = "always" /\ ~f.through /\ Len(f.get) = 0 /\ Len(f.put) = 1
      /\ DOMAIN f.get = 1 .. 0 /\ DOMAIN f.put = 1 .. 1 /\ f.get = << >>
  BY <1>1
<1>3. /\ f.put[1] = "video"
  BY <1>1
<1>4. /\ Group("video") = {"video"}
      /\ Group("qvio_video_put") = {"video"}
  BY Lemma_Groups DEF Parts, Roots, Probes, Removes
<1>5. /\ Left(f, 2) = {}
      /\ Left(f, 1) = {"video"}
  <2>1. Left(f, 2) = {}
    BY <1>2 DEF Left
  <2>2. Left(f, 1) = Left(f, 1 + 1) \cup Group(f.put[1])
    BY <1>2, Lemma_Left
  <2> QED
    BY <1>3, <1>4, <2>1, <2>2
<1>6. \A i \in 1 .. 1 : DropSound("qvio_video_put", f, i)
  BY <1>3, <1>4, <1>5 DEF DropSound, Parts, Leaves, Starts, Stops
<1>7. "qvio_video_put" \notin SetUps
  BY DEF SetUps, Starts, Probes
<1> QED
  <2>1. /\ \A i \in 1 .. Len(f.get) : StepSound("qvio_video_put", f, i)
        /\ \A i \in 1 .. Len(f.put) : DropSound("qvio_video_put", f, i)
    BY <1>2, <1>6
  <2>2. /\ "qvio_video_put" \notin SetUps /\ f.get = << >> /\ Len(f.get) = 0
        /\ Left(f, 1) = Group("qvio_video_put")
    BY <1>2, <1>4, <1>5, <1>7
  <2>3. /\ Len(f.get) \in Nat /\ DOMAIN f.get = 1 .. Len(f.get)
        /\ Len(f.put) \in Nat /\ DOMAIN f.put = 1 .. Len(f.put)
    BY <1>2
  <2> QED
    BY <1>2, <2>1, <2>2, <2>3 DEF Sound, f

\* The video device: a start that fails has undone what it did.
LEMMA Lemma_qvio_video_start ==
  Sound("qvio_video_start", Qvio!Code["qvio_video_start"])
<1> DEFINE f == Qvio!Code["qvio_video_start"]
<1>1. f = [get |-> <<[what |-> "v4l2_dev", label |-> "return",
                       quiet |-> FALSE, drop |-> FALSE],
                      [what |-> "vb2_queue", label |-> "v4l2_dev",
                       quiet |-> FALSE, drop |-> FALSE],
                      [what |-> "vdev", label |-> "v4l2_dev",
                       quiet |-> TRUE, drop |-> FALSE],
                      [what |-> "vnode", label |-> "vdev",
                       quiet |-> FALSE, drop |-> FALSE]>>,
           put |-> <<"vdev", "v4l2_dev">>,
           when |-> "always", through |-> FALSE]
  BY DEF Qvio!Code, Qvio!qvio_video_start, Qvio!Script, Qvio!Releases,
         Qvio!On, Qvio!Forgetful, Qvio!Step
<1> HIDE DEF f
<1>2. /\ f.when = "always" /\ ~f.through /\ Len(f.get) = 4 /\ Len(f.put) = 2
      /\ DOMAIN f.get = 1 .. 4 /\ DOMAIN f.put = 1 .. 2 /\ f.get # << >>
  BY <1>1
<1>3. /\ f.get[1].what = "v4l2_dev" /\ f.get[1].label = "return"
      /\ ~f.get[1].drop /\ ~f.get[1].quiet
      /\ f.get[2].what = "vb2_queue" /\ f.get[2].label = "v4l2_dev"
      /\ ~f.get[2].drop /\ ~f.get[2].quiet
      /\ f.get[3].what = "vdev" /\ f.get[3].label = "v4l2_dev"
      /\ ~f.get[3].drop
      /\ f.get[4].what = "vnode" /\ f.get[4].label = "vdev"
      /\ ~f.get[4].drop /\ ~f.get[4].quiet
      /\ f.put[1] = "vdev" /\ f.put[2] = "v4l2_dev"
  BY <1>1
<1>4. /\ Group("v4l2_dev") = {"v4l2_dev"}
      /\ Group("vb2_queue") = {}
      /\ Group("vdev") = {"vdev"}
      /\ Group("vnode") = {"vnode"}
      /\ Group("qvio_video_start") = {"v4l2_dev", "vdev", "vnode"}
  BY Lemma_Groups DEF Parts, Roots, Probes, Removes
<1>5. /\ Got(f, 1) = {}
      /\ Got(f, 2) = {"v4l2_dev"}
      /\ Got(f, 3) = {"v4l2_dev"}
      /\ Got(f, 4) = {"v4l2_dev", "vdev"}
      /\ Got(f, 5) = {"v4l2_dev", "vdev", "vnode"}
  <2>1. /\ Got(f, 1) = {}
        /\ Got(f, 1 + 1) = Got(f, 1) \cup Group(f.get[1].what)
        /\ Got(f, 2 + 1) = Got(f, 2) \cup Group(f.get[2].what)
        /\ Got(f, 3 + 1) = Got(f, 3) \cup Group(f.get[3].what)
        /\ Got(f, 4 + 1) = Got(f, 4) \cup Group(f.get[4].what)
    BY Lemma_Got
  <2> QED
    BY <1>3, <1>4, <2>1
<1>6. /\ Left(f, 3) = {}
      /\ Left(f, 2) = {"v4l2_dev"}
      /\ Left(f, 1) = {"vdev", "v4l2_dev"}
  <2>1. Left(f, 3) = {}
    BY <1>2 DEF Left
  <2>2. Left(f, 2) = Left(f, 2 + 1) \cup Group(f.put[2])
    BY <1>2, Lemma_Left
  <2>3. Left(f, 1) = Left(f, 1 + 1) \cup Group(f.put[1])
    BY <1>2, Lemma_Left
  <2> QED
    BY <1>3, <1>4, <2>1, <2>2, <2>3
<1>7. Qvio!U!Place(f.put, "return") = 3
  <2>1. \A i \in DOMAIN f.put : f.put[i] # "return"
    BY <1>2, <1>3
  <2>2. Qvio!U!Place(f.put, "return") = Len(f.put) + 1
    BY <2>1, Lemma_NoPlace
  <2> QED
    BY <1>2, <2>2
<1>8. \A i \in 1 .. 2 : Qvio!U!Place(f.put, f.put[i]) = i
  <2>1. \A i, j \in 1 .. 2 : f.put[i] = f.put[j] => i = j
    BY <1>3
  <2> QED
    BY <1>2, <2>1, Lemma_LabelPlace
<1>9. StepSound("qvio_video_start", f, 1)
  <2>1. Qvio!U!Place(f.put, f.get[1].label) = 3
    BY <1>3, <1>7
  <2>2. Left(f, 3) = Got(f, 1) /\ Group(f.get[1].what) \cap Got(f, 1) = {}
        /\ Group(f.get[1].what) \subseteq Group("qvio_video_start")
    BY <1>3, <1>4, <1>5, <1>6
  <2>3. f.get[1].what \in Parts \cup {"vb2_queue"}
    BY <1>3 DEF Parts, Starts
  <2> QED
    BY <1>3, <2>1, <2>2, <2>3, Lemma_Kinds DEF StepSound
<1>10. StepSound("qvio_video_start", f, 2)
  <2>1. Qvio!U!Place(f.put, f.get[2].label) = 2
    BY <1>3, <1>8
  <2>2. Left(f, 2) = Got(f, 2) /\ Group(f.get[2].what) \cap Got(f, 2) = {}
        /\ Group(f.get[2].what) \subseteq Group("qvio_video_start")
    BY <1>3, <1>4, <1>5, <1>6
  <2>3. f.get[2].what \in Parts \cup {"vb2_queue"}
    BY <1>3 DEF Parts, Starts
  <2> QED
    BY <1>3, <2>1, <2>2, <2>3, Lemma_Kinds DEF StepSound
<1>11. StepSound("qvio_video_start", f, 3)
  <2>1. Qvio!U!Place(f.put, f.get[3].label) = 2
    BY <1>3, <1>8
  <2>2. Left(f, 2) = Got(f, 3) /\ Group(f.get[3].what) \cap Got(f, 3) = {}
        /\ Group(f.get[3].what) \subseteq Group("qvio_video_start")
    BY <1>3, <1>4, <1>5, <1>6
  <2>3. f.get[3].what \in Parts \cup {"vb2_queue"}
    BY <1>3 DEF Parts, Starts
  <2>4. LET x == <<"qvio_video_start", f.get[3].what>> IN
        /\ x \in DOMAIN Qvio!Noted /\ Qvio!Noted[x] = "false_success"
        /\ f.get[3].what \in Parts \cup {"device_id"}
    BY <1>3, Lemma_Noted DEF Parts
  <2> QED
    BY <1>3, <2>1, <2>2, <2>3, <2>4, Lemma_Kinds DEF StepSound
<1>12. StepSound("qvio_video_start", f, 4)
  <2>1. Qvio!U!Place(f.put, f.get[4].label) = 1
    BY <1>3, <1>8
  <2>2. Left(f, 1) = Got(f, 4) /\ Group(f.get[4].what) \cap Got(f, 4) = {}
        /\ Group(f.get[4].what) \subseteq Group("qvio_video_start")
    BY <1>3, <1>4, <1>5, <1>6
  <2>3. f.get[4].what \in Parts \cup {"vb2_queue"}
    BY <1>3 DEF Parts, Starts
  <2> QED
    BY <1>3, <2>1, <2>2, <2>3, Lemma_Kinds DEF StepSound
<1>13. \A i \in 1 .. 2 : DropSound("qvio_video_start", f, i)
  BY <1>3, <1>4, <1>6 DEF DropSound, Parts, Leaves, Starts, Stops
<1>14. "qvio_video_start" \in SetUps
  BY DEF SetUps, Starts, Probes
<1>15. \A i \in 1 .. 4 : StepSound("qvio_video_start", f, i)
  BY <1>9, <1>10, <1>11, <1>12
<1> QED
  <2>1. /\ \A i \in 1 .. Len(f.get) : StepSound("qvio_video_start", f, i)
        /\ \A i \in 1 .. Len(f.put) : DropSound("qvio_video_start", f, i)
    BY <1>2, <1>15, <1>13
  <2>2. "qvio_video_start" \in SetUps /\ f.get # << >>
        /\ Got(f, Len(f.get) + 1) = Group("qvio_video_start")
    <3>1. Len(f.get) + 1 = 5
      BY <1>2
    <3> QED
      BY <1>2, <1>4, <1>5, <1>14, <3>1
  <2>3. /\ Len(f.get) \in Nat /\ DOMAIN f.get = 1 .. Len(f.get)
        /\ Len(f.put) \in Nat /\ DOMAIN f.put = 1 .. Len(f.put)
    BY <1>2
  <2> QED
    BY <1>2, <2>1, <2>2, <2>3 DEF Sound, f

\* A stop undoes all of it.
LEMMA Lemma_qvio_video_stop ==
  Sound("qvio_video_stop", Qvio!Code["qvio_video_stop"])
<1> DEFINE f == Qvio!Code["qvio_video_stop"]
<1>1. f = [get |-> << >>,
           put |-> <<"vnode", "vdev", "v4l2_dev">>,
           when |-> "always", through |-> FALSE]
  BY DEF Qvio!Code, Qvio!qvio_video_stop, Qvio!Script, Qvio!Releases,
         Qvio!On, Qvio!Forgetful, Qvio!Step
<1> HIDE DEF f
<1>2. /\ f.when = "always" /\ ~f.through /\ Len(f.get) = 0 /\ Len(f.put) = 3
      /\ DOMAIN f.get = 1 .. 0 /\ DOMAIN f.put = 1 .. 3 /\ f.get = << >>
  BY <1>1
<1>3. /\ f.put[1] = "vnode" /\ f.put[2] = "vdev"
      /\ f.put[3] = "v4l2_dev"
  BY <1>1
<1>4. /\ Group("vnode") = {"vnode"}
      /\ Group("vdev") = {"vdev"}
      /\ Group("v4l2_dev") = {"v4l2_dev"}
      /\ Group("qvio_video_stop") = {"vnode", "vdev", "v4l2_dev"}
  BY Lemma_Groups DEF Parts, Roots, Probes, Removes
<1>5. /\ Left(f, 4) = {}
      /\ Left(f, 3) = {"v4l2_dev"}
      /\ Left(f, 2) = {"vdev", "v4l2_dev"}
      /\ Left(f, 1) = {"vnode", "vdev", "v4l2_dev"}
  <2>1. Left(f, 4) = {}
    BY <1>2 DEF Left
  <2>2. Left(f, 3) = Left(f, 3 + 1) \cup Group(f.put[3])
    BY <1>2, Lemma_Left
  <2>3. Left(f, 2) = Left(f, 2 + 1) \cup Group(f.put[2])
    BY <1>2, Lemma_Left
  <2>4. Left(f, 1) = Left(f, 1 + 1) \cup Group(f.put[1])
    BY <1>2, Lemma_Left
  <2> QED
    BY <1>3, <1>4, <2>1, <2>2, <2>3, <2>4
<1>6. \A i \in 1 .. 3 : DropSound("qvio_video_stop", f, i)
  BY <1>3, <1>4, <1>5 DEF DropSound, Parts, Leaves, Starts, Stops
<1>7. "qvio_video_stop" \notin SetUps
  BY DEF SetUps, Starts, Probes
<1> QED
  <2>1. /\ \A i \in 1 .. Len(f.get) : StepSound("qvio_video_stop", f, i)
        /\ \A i \in 1 .. Len(f.put) : DropSound("qvio_video_stop", f, i)
    BY <1>2, <1>6
  <2>2. /\ "qvio_video_stop" \notin SetUps /\ f.get = << >> /\ Len(f.get) = 0
        /\ Left(f, 1) = Group("qvio_video_stop")
    BY <1>2, <1>4, <1>5, <1>7
  <2>3. /\ Len(f.get) \in Nat /\ DOMAIN f.get = 1 .. Len(f.get)
        /\ Len(f.put) \in Nat /\ DOMAIN f.put = 1 .. Len(f.put)
    BY <1>2
  <2> QED
    BY <1>2, <2>1, <2>2, <2>3 DEF Sound, f

\* A probe that fails has undone the parts that it made.
LEMMA Lemma_pci_probe == Sound("pci_probe", Qvio!Code["pci_probe"])
<1> DEFINE f == Qvio!Code["pci_probe"]
<1>1. f = [get |-> <<[what |-> "qvio_device_new", label |-> "return",
                       quiet |-> FALSE, drop |-> FALSE],
                      [what |-> "xdma_device_open",
                       label |-> "qvio_device_put",
                       quiet |-> FALSE, drop |-> FALSE],
                      [what |-> "qvio_cdev_start",
                       label |-> "xdma_device_close",
                       quiet |-> FALSE, drop |-> FALSE],
                      [what |-> "qvio_video_new", label |-> "qvio_cdev_stop",
                       quiet |-> FALSE, drop |-> FALSE],
                      [what |-> "device_id", label |-> "qvio_video_put",
                       quiet |-> TRUE, drop |-> FALSE],
                      [what |-> "qvio_video_start", label |-> "qvio_video_put",
                       quiet |-> FALSE, drop |-> FALSE]>>,
           put |-> <<"qvio_video_put", "qvio_cdev_stop", "xdma_device_close",
                     "qvio_device_put">>,
           when |-> "always", through |-> FALSE]
  BY DEF Qvio!Code, Qvio!pci_probe, Qvio!Script, Qvio!Releases, Qvio!On,
         Qvio!Forgetful, Qvio!Step
<1> HIDE DEF f
<1>2. /\ f.when = "always" /\ ~f.through /\ Len(f.get) = 6 /\ Len(f.put) = 4
      /\ DOMAIN f.get = 1 .. 6 /\ DOMAIN f.put = 1 .. 4 /\ f.get # << >>
  BY <1>1
<1>3. /\ f.get[1].what = "qvio_device_new" /\ f.get[1].label = "return"
      /\ ~f.get[1].drop /\ ~f.get[1].quiet
      /\ f.get[2].what = "xdma_device_open"
      /\ f.get[2].label = "qvio_device_put"
      /\ ~f.get[2].drop /\ ~f.get[2].quiet
      /\ f.get[3].what = "qvio_cdev_start"
      /\ f.get[3].label = "xdma_device_close"
      /\ ~f.get[3].drop /\ ~f.get[3].quiet
      /\ f.get[4].what = "qvio_video_new" /\ f.get[4].label = "qvio_cdev_stop"
      /\ ~f.get[4].drop /\ ~f.get[4].quiet
      /\ f.get[5].what = "device_id" /\ f.get[5].label = "qvio_video_put"
      /\ ~f.get[5].drop
      /\ f.get[6].what = "qvio_video_start"
      /\ f.get[6].label = "qvio_video_put"
      /\ ~f.get[6].drop /\ ~f.get[6].quiet
      /\ f.put[1] = "qvio_video_put" /\ f.put[2] = "qvio_cdev_stop"
      /\ f.put[3] = "xdma_device_close" /\ f.put[4] = "qvio_device_put"
  BY <1>1
<1>4. /\ Group("qvio_device_new") = {"self"}
      /\ Group("xdma_device_open") = {}
      /\ Group("qvio_cdev_start") = {"cdev", "node"}
      /\ Group("qvio_video_new") = {"video"}
      /\ Group("device_id") = {}
      /\ Group("qvio_video_start") = {"v4l2_dev", "vdev", "vnode"}
      /\ Group("qvio_video_put") = {"video"}
      /\ Group("qvio_cdev_stop") = {"cdev", "node"}
      /\ Group("xdma_device_close") = {}
      /\ Group("qvio_device_put") = {"self"}
      /\ Group("pci_probe")
           = {"self", "cdev", "node", "video", "v4l2_dev", "vdev", "vnode"}
  BY Lemma_Groups DEF Parts, Roots, Probes, Removes
<1>5. /\ Got(f, 1) = {}
      /\ Got(f, 2) = {"self"}
      /\ Got(f, 3) = {"self"}
      /\ Got(f, 4) = {"self", "cdev", "node"}
      /\ Got(f, 5) = {"self", "cdev", "node", "video"}
      /\ Got(f, 6) = {"self", "cdev", "node", "video"}
      /\ Got(f, 7)
           = {"self", "cdev", "node", "video", "v4l2_dev", "vdev", "vnode"}
  <2>1. /\ Got(f, 1) = {}
        /\ Got(f, 1 + 1) = Got(f, 1) \cup Group(f.get[1].what)
        /\ Got(f, 2 + 1) = Got(f, 2) \cup Group(f.get[2].what)
        /\ Got(f, 3 + 1) = Got(f, 3) \cup Group(f.get[3].what)
        /\ Got(f, 4 + 1) = Got(f, 4) \cup Group(f.get[4].what)
        /\ Got(f, 5 + 1) = Got(f, 5) \cup Group(f.get[5].what)
        /\ Got(f, 6 + 1) = Got(f, 6) \cup Group(f.get[6].what)
    BY Lemma_Got
  <2> QED
    BY <1>3, <1>4, <2>1
<1>6. /\ Left(f, 5) = {}
      /\ Left(f, 4) = {"self"}
      /\ Left(f, 3) = {"self"}
      /\ Left(f, 2) = {"cdev", "node", "self"}
      /\ Left(f, 1) = {"video", "cdev", "node", "self"}
  <2>1. Left(f, 5) = {}
    BY <1>2 DEF Left
  <2>2. Left(f, 4) = Left(f, 4 + 1) \cup Group(f.put[4])
    BY <1>2, Lemma_Left
  <2>3. Left(f, 3) = Left(f, 3 + 1) \cup Group(f.put[3])
    BY <1>2, Lemma_Left
  <2>4. Left(f, 2) = Left(f, 2 + 1) \cup Group(f.put[2])
    BY <1>2, Lemma_Left
  <2>5. Left(f, 1) = Left(f, 1 + 1) \cup Group(f.put[1])
    BY <1>2, Lemma_Left
  <2> QED
    BY <1>3, <1>4, <2>1, <2>2, <2>3, <2>4, <2>5
<1>7. Qvio!U!Place(f.put, "return") = 5
  <2>1. \A i \in DOMAIN f.put : f.put[i] # "return"
    BY <1>2, <1>3
  <2>2. Qvio!U!Place(f.put, "return") = Len(f.put) + 1
    BY <2>1, Lemma_NoPlace
  <2> QED
    BY <1>2, <2>2
<1>8. \A i \in 1 .. 4 : Qvio!U!Place(f.put, f.put[i]) = i
  <2>1. \A i, j \in 1 .. 4 : f.put[i] = f.put[j] => i = j
    BY <1>3
  <2> QED
    BY <1>2, <2>1, Lemma_LabelPlace
<1>9. StepSound("pci_probe", f, 1)
  <2>1. Qvio!U!Place(f.put, f.get[1].label) = 5
    BY <1>3, <1>7
  <2>2. Left(f, 5) = Got(f, 1) /\ Group(f.get[1].what) \cap Got(f, 1) = {}
        /\ Group(f.get[1].what) \subseteq Group("pci_probe")
    BY <1>3, <1>4, <1>5, <1>6
  <2>3. f.get[1].what \in Starts \cup {"xdma_device_open", "device_id"}
    BY <1>3 DEF Parts, Starts
  <2> QED
    BY <1>3, <2>1, <2>2, <2>3, Lemma_Kinds DEF StepSound
<1>10. StepSound("pci_probe", f, 2)
  <2>1. Qvio!U!Place(f.put, f.get[2].label) = 4
    BY <1>3, <1>8
  <2>2. Left(f, 4) = Got(f, 2) /\ Group(f.get[2].what) \cap Got(f, 2) = {}
        /\ Group(f.get[2].what) \subseteq Group("pci_probe")
    BY <1>3, <1>4, <1>5, <1>6
  <2>3. f.get[2].what \in Starts \cup {"xdma_device_open", "device_id"}
    BY <1>3 DEF Parts, Starts
  <2> QED
    BY <1>3, <2>1, <2>2, <2>3, Lemma_Kinds DEF StepSound
<1>11. StepSound("pci_probe", f, 3)
  <2>1. Qvio!U!Place(f.put, f.get[3].label) = 3
    BY <1>3, <1>8
  <2>2. Left(f, 3) = Got(f, 3) /\ Group(f.get[3].what) \cap Got(f, 3) = {}
        /\ Group(f.get[3].what) \subseteq Group("pci_probe")
    BY <1>3, <1>4, <1>5, <1>6
  <2>3. f.get[3].what \in Starts \cup {"xdma_device_open", "device_id"}
    BY <1>3 DEF Parts, Starts
  <2> QED
    BY <1>3, <2>1, <2>2, <2>3, Lemma_Kinds DEF StepSound
<1>12. StepSound("pci_probe", f, 4)
  <2>1. Qvio!U!Place(f.put, f.get[4].label) = 2
    BY <1>3, <1>8
  <2>2. Left(f, 2) = Got(f, 4) /\ Group(f.get[4].what) \cap Got(f, 4) = {}
        /\ Group(f.get[4].what) \subseteq Group("pci_probe")
    BY <1>3, <1>4, <1>5, <1>6
  <2>3. f.get[4].what \in Starts \cup {"xdma_device_open", "device_id"}
    BY <1>3 DEF Parts, Starts
  <2> QED
    BY <1>3, <2>1, <2>2, <2>3, Lemma_Kinds DEF StepSound
<1>13. StepSound("pci_probe", f, 5)
  <2>1. Qvio!U!Place(f.put, f.get[5].label) = 1
    BY <1>3, <1>8
  <2>2. Left(f, 1) = Got(f, 5) /\ Group(f.get[5].what) \cap Got(f, 5) = {}
        /\ Group(f.get[5].what) \subseteq Group("pci_probe")
    BY <1>3, <1>4, <1>5, <1>6
  <2>3. f.get[5].what \in Starts \cup {"xdma_device_open", "device_id"}
    BY <1>3 DEF Parts, Starts
  <2>4. LET x == <<"pci_probe", f.get[5].what>> IN
        /\ x \in DOMAIN Qvio!Noted /\ Qvio!Noted[x] = "false_success"
        /\ f.get[5].what \in Parts \cup {"device_id"}
    BY <1>3, Lemma_Noted DEF Parts
  <2> QED
    BY <1>3, <2>1, <2>2, <2>3, <2>4, Lemma_Kinds DEF StepSound
<1>14. StepSound("pci_probe", f, 6)
  <2>1. Qvio!U!Place(f.put, f.get[6].label) = 1
    BY <1>3, <1>8
  <2>2. Left(f, 1) = Got(f, 6) /\ Group(f.get[6].what) \cap Got(f, 6) = {}
        /\ Group(f.get[6].what) \subseteq Group("pci_probe")
    BY <1>3, <1>4, <1>5, <1>6
  <2>3. f.get[6].what \in Starts \cup {"xdma_device_open", "device_id"}
    BY <1>3 DEF Parts, Starts
  <2> QED
    BY <1>3, <2>1, <2>2, <2>3, Lemma_Kinds DEF StepSound
<1>15. \A i \in 1 .. 4 : DropSound("pci_probe", f, i)
  BY <1>3, <1>4, <1>6 DEF DropSound, Parts, Leaves, Starts, Stops
<1>16. "pci_probe" \in SetUps
  BY DEF SetUps, Starts, Probes
<1>17. \A i \in 1 .. 6 : StepSound("pci_probe", f, i)
  BY <1>9, <1>10, <1>11, <1>12, <1>13, <1>14
<1> QED
  <2>1. /\ \A i \in 1 .. Len(f.get) : StepSound("pci_probe", f, i)
        /\ \A i \in 1 .. Len(f.put) : DropSound("pci_probe", f, i)
    BY <1>2, <1>17, <1>15
  <2>2. "pci_probe" \in SetUps /\ f.get # << >>
        /\ Got(f, Len(f.get) + 1) = Group("pci_probe")
    <3>1. Len(f.get) + 1 = 7
      BY <1>2
    <3> QED
      BY <1>2, <1>4, <1>5, <1>16, <3>1
  <2>3. /\ Len(f.get) \in Nat /\ DOMAIN f.get = 1 .. Len(f.get)
        /\ Len(f.put) \in Nat /\ DOMAIN f.put = 1 .. Len(f.put)
    BY <1>2
  <2> QED
    BY <1>2, <2>1, <2>2, <2>3 DEF Sound, f

\* A removal undoes them all.
LEMMA Lemma_pci_remove == Sound("pci_remove", Qvio!Code["pci_remove"])
<1> DEFINE f == Qvio!Code["pci_remove"]
<1>1. f = [get |-> << >>,
           put |-> <<"qvio_video_stop", "qvio_video_put", "qvio_cdev_stop",
                     "xdma_device_close", "qvio_device_put">>,
           when |-> "always", through |-> FALSE]
  BY DEF Qvio!Code, Qvio!pci_remove, Qvio!Script, Qvio!Releases, Qvio!On,
         Qvio!Forgetful, Qvio!Step
<1> HIDE DEF f
<1>2. /\ f.when = "always" /\ ~f.through /\ Len(f.get) = 0 /\ Len(f.put) = 5
      /\ DOMAIN f.get = 1 .. 0 /\ DOMAIN f.put = 1 .. 5 /\ f.get = << >>
  BY <1>1
<1>3. /\ f.put[1] = "qvio_video_stop" /\ f.put[2] = "qvio_video_put"
      /\ f.put[3] = "qvio_cdev_stop" /\ f.put[4] = "xdma_device_close"
      /\ f.put[5] = "qvio_device_put"
  BY <1>1
<1>4. /\ Group("qvio_video_stop") = {"v4l2_dev", "vdev", "vnode"}
      /\ Group("qvio_video_put") = {"video"}
      /\ Group("qvio_cdev_stop") = {"cdev", "node"}
      /\ Group("xdma_device_close") = {}
      /\ Group("qvio_device_put") = {"self"}
      /\ Group("pci_remove")
           = {"v4l2_dev", "vdev", "vnode", "video", "cdev", "node", "self"}
  BY Lemma_Groups DEF Parts, Roots, Probes, Removes
<1>5. /\ Left(f, 6) = {}
      /\ Left(f, 5) = {"self"}
      /\ Left(f, 4) = {"self"}
      /\ Left(f, 3) = {"cdev", "node", "self"}
      /\ Left(f, 2) = {"video", "cdev", "node", "self"}
      /\ Left(f, 1)
           = {"v4l2_dev", "vdev", "vnode", "video", "cdev", "node", "self"}
  <2>1. Left(f, 6) = {}
    BY <1>2 DEF Left
  <2>2. Left(f, 5) = Left(f, 5 + 1) \cup Group(f.put[5])
    BY <1>2, Lemma_Left
  <2>3. Left(f, 4) = Left(f, 4 + 1) \cup Group(f.put[4])
    BY <1>2, Lemma_Left
  <2>4. Left(f, 3) = Left(f, 3 + 1) \cup Group(f.put[3])
    BY <1>2, Lemma_Left
  <2>5. Left(f, 2) = Left(f, 2 + 1) \cup Group(f.put[2])
    BY <1>2, Lemma_Left
  <2>6. Left(f, 1) = Left(f, 1 + 1) \cup Group(f.put[1])
    BY <1>2, Lemma_Left
  <2> QED
    BY <1>3, <1>4, <2>1, <2>2, <2>3, <2>4, <2>5, <2>6
<1>6. \A i \in 1 .. 5 : DropSound("pci_remove", f, i)
  BY <1>3, <1>4, <1>5 DEF DropSound, Parts, Leaves, Starts, Stops
<1>7. "pci_remove" \notin SetUps
  BY DEF SetUps, Starts, Probes
<1> QED
  <2>1. /\ \A i \in 1 .. Len(f.get) : StepSound("pci_remove", f, i)
        /\ \A i \in 1 .. Len(f.put) : DropSound("pci_remove", f, i)
    BY <1>2, <1>6
  <2>2. /\ "pci_remove" \notin SetUps /\ f.get = << >> /\ Len(f.get) = 0
        /\ Left(f, 1) = Group("pci_remove")
    BY <1>2, <1>4, <1>5, <1>7
  <2>3. /\ Len(f.get) \in Nat /\ DOMAIN f.get = 1 .. Len(f.get)
        /\ Len(f.put) \in Nat /\ DOMAIN f.put = 1 .. Len(f.put)
    BY <1>2
  <2> QED
    BY <1>2, <2>1, <2>2, <2>3 DEF Sound, f

\* The same for the platform device.
LEMMA Lemma_platform_probe ==
  Sound("platform_probe", Qvio!Code["platform_probe"])
<1> DEFINE f == Qvio!Code["platform_probe"]
<1>1. f = [get |-> <<[what |-> "qvio_device_new", label |-> "return",
                       quiet |-> FALSE, drop |-> FALSE],
                      [what |-> "qvio_cdev_start", label |-> "qvio_device_put",
                       quiet |-> FALSE, drop |-> FALSE],
                      [what |-> "qvio_video_new", label |-> "qvio_cdev_stop",
                       quiet |-> FALSE, drop |-> FALSE],
                      [what |-> "qvio_video_start", label |-> "qvio_video_put",
                       quiet |-> FALSE, drop |-> FALSE]>>,
           put |-> <<"qvio_video_put", "qvio_cdev_stop", "qvio_device_put">>,
           when |-> "always", through |-> FALSE]
  BY DEF Qvio!Code, Qvio!platform_probe, Qvio!Script, Qvio!Releases, Qvio!On,
         Qvio!Forgetful, Qvio!Step
<1> HIDE DEF f
<1>2. /\ f.when = "always" /\ ~f.through /\ Len(f.get) = 4 /\ Len(f.put) = 3
      /\ DOMAIN f.get = 1 .. 4 /\ DOMAIN f.put = 1 .. 3 /\ f.get # << >>
  BY <1>1
<1>3. /\ f.get[1].what = "qvio_device_new" /\ f.get[1].label = "return"
      /\ ~f.get[1].drop /\ ~f.get[1].quiet
      /\ f.get[2].what = "qvio_cdev_start"
      /\ f.get[2].label = "qvio_device_put"
      /\ ~f.get[2].drop /\ ~f.get[2].quiet
      /\ f.get[3].what = "qvio_video_new" /\ f.get[3].label = "qvio_cdev_stop"
      /\ ~f.get[3].drop /\ ~f.get[3].quiet
      /\ f.get[4].what = "qvio_video_start"
      /\ f.get[4].label = "qvio_video_put"
      /\ ~f.get[4].drop /\ ~f.get[4].quiet
      /\ f.put[1] = "qvio_video_put" /\ f.put[2] = "qvio_cdev_stop"
      /\ f.put[3] = "qvio_device_put"
  BY <1>1
<1>4. /\ Group("qvio_device_new") = {"self"}
      /\ Group("qvio_cdev_start") = {"cdev", "node"}
      /\ Group("qvio_video_new") = {"video"}
      /\ Group("qvio_video_start") = {"v4l2_dev", "vdev", "vnode"}
      /\ Group("qvio_video_put") = {"video"}
      /\ Group("qvio_cdev_stop") = {"cdev", "node"}
      /\ Group("qvio_device_put") = {"self"}
      /\ Group("platform_probe")
           = {"self", "cdev", "node", "video", "v4l2_dev", "vdev", "vnode"}
  BY Lemma_Groups DEF Parts, Roots, Probes, Removes
<1>5. /\ Got(f, 1) = {}
      /\ Got(f, 2) = {"self"}
      /\ Got(f, 3) = {"self", "cdev", "node"}
      /\ Got(f, 4) = {"self", "cdev", "node", "video"}
      /\ Got(f, 5)
           = {"self", "cdev", "node", "video", "v4l2_dev", "vdev", "vnode"}
  <2>1. /\ Got(f, 1) = {}
        /\ Got(f, 1 + 1) = Got(f, 1) \cup Group(f.get[1].what)
        /\ Got(f, 2 + 1) = Got(f, 2) \cup Group(f.get[2].what)
        /\ Got(f, 3 + 1) = Got(f, 3) \cup Group(f.get[3].what)
        /\ Got(f, 4 + 1) = Got(f, 4) \cup Group(f.get[4].what)
    BY Lemma_Got
  <2> QED
    BY <1>3, <1>4, <2>1
<1>6. /\ Left(f, 4) = {}
      /\ Left(f, 3) = {"self"}
      /\ Left(f, 2) = {"cdev", "node", "self"}
      /\ Left(f, 1) = {"video", "cdev", "node", "self"}
  <2>1. Left(f, 4) = {}
    BY <1>2 DEF Left
  <2>2. Left(f, 3) = Left(f, 3 + 1) \cup Group(f.put[3])
    BY <1>2, Lemma_Left
  <2>3. Left(f, 2) = Left(f, 2 + 1) \cup Group(f.put[2])
    BY <1>2, Lemma_Left
  <2>4. Left(f, 1) = Left(f, 1 + 1) \cup Group(f.put[1])
    BY <1>2, Lemma_Left
  <2> QED
    BY <1>3, <1>4, <2>1, <2>2, <2>3, <2>4
<1>7. Qvio!U!Place(f.put, "return") = 4
  <2>1. \A i \in DOMAIN f.put : f.put[i] # "return"
    BY <1>2, <1>3
  <2>2. Qvio!U!Place(f.put, "return") = Len(f.put) + 1
    BY <2>1, Lemma_NoPlace
  <2> QED
    BY <1>2, <2>2
<1>8. \A i \in 1 .. 3 : Qvio!U!Place(f.put, f.put[i]) = i
  <2>1. \A i, j \in 1 .. 3 : f.put[i] = f.put[j] => i = j
    BY <1>3
  <2> QED
    BY <1>2, <2>1, Lemma_LabelPlace
<1>9. StepSound("platform_probe", f, 1)
  <2>1. Qvio!U!Place(f.put, f.get[1].label) = 4
    BY <1>3, <1>7
  <2>2. Left(f, 4) = Got(f, 1) /\ Group(f.get[1].what) \cap Got(f, 1) = {}
        /\ Group(f.get[1].what) \subseteq Group("platform_probe")
    BY <1>3, <1>4, <1>5, <1>6
  <2>3. f.get[1].what \in Starts \cup {"xdma_device_open", "device_id"}
    BY <1>3 DEF Parts, Starts
  <2> QED
    BY <1>3, <2>1, <2>2, <2>3, Lemma_Kinds DEF StepSound
<1>10. StepSound("platform_probe", f, 2)
  <2>1. Qvio!U!Place(f.put, f.get[2].label) = 3
    BY <1>3, <1>8
  <2>2. Left(f, 3) = Got(f, 2) /\ Group(f.get[2].what) \cap Got(f, 2) = {}
        /\ Group(f.get[2].what) \subseteq Group("platform_probe")
    BY <1>3, <1>4, <1>5, <1>6
  <2>3. f.get[2].what \in Starts \cup {"xdma_device_open", "device_id"}
    BY <1>3 DEF Parts, Starts
  <2> QED
    BY <1>3, <2>1, <2>2, <2>3, Lemma_Kinds DEF StepSound
<1>11. StepSound("platform_probe", f, 3)
  <2>1. Qvio!U!Place(f.put, f.get[3].label) = 2
    BY <1>3, <1>8
  <2>2. Left(f, 2) = Got(f, 3) /\ Group(f.get[3].what) \cap Got(f, 3) = {}
        /\ Group(f.get[3].what) \subseteq Group("platform_probe")
    BY <1>3, <1>4, <1>5, <1>6
  <2>3. f.get[3].what \in Starts \cup {"xdma_device_open", "device_id"}
    BY <1>3 DEF Parts, Starts
  <2> QED
    BY <1>3, <2>1, <2>2, <2>3, Lemma_Kinds DEF StepSound
<1>12. StepSound("platform_probe", f, 4)
  <2>1. Qvio!U!Place(f.put, f.get[4].label) = 1
    BY <1>3, <1>8
  <2>2. Left(f, 1) = Got(f, 4) /\ Group(f.get[4].what) \cap Got(f, 4) = {}
        /\ Group(f.get[4].what) \subseteq Group("platform_probe")
    BY <1>3, <1>4, <1>5, <1>6
  <2>3. f.get[4].what \in Starts \cup {"xdma_device_open", "device_id"}
    BY <1>3 DEF Parts, Starts
  <2> QED
    BY <1>3, <2>1, <2>2, <2>3, Lemma_Kinds DEF StepSound
<1>13. \A i \in 1 .. 3 : DropSound("platform_probe", f, i)
  BY <1>3, <1>4, <1>6 DEF DropSound, Parts, Leaves, Starts, Stops
<1>14. "platform_probe" \in SetUps
  BY DEF SetUps, Starts, Probes
<1>15. \A i \in 1 .. 4 : StepSound("platform_probe", f, i)
  BY <1>9, <1>10, <1>11, <1>12
<1> QED
  <2>1. /\ \A i \in 1 .. Len(f.get) : StepSound("platform_probe", f, i)
        /\ \A i \in 1 .. Len(f.put) : DropSound("platform_probe", f, i)
    BY <1>2, <1>15, <1>13
  <2>2. "platform_probe" \in SetUps /\ f.get # << >>
        /\ Got(f, Len(f.get) + 1) = Group("platform_probe")
    <3>1. Len(f.get) + 1 = 5
      BY <1>2
    <3> QED
      BY <1>2, <1>4, <1>5, <1>14, <3>1
  <2>3. /\ Len(f.get) \in Nat /\ DOMAIN f.get = 1 .. Len(f.get)
        /\ Len(f.put) \in Nat /\ DOMAIN f.put = 1 .. Len(f.put)
    BY <1>2
  <2> QED
    BY <1>2, <2>1, <2>2, <2>3 DEF Sound, f

\* And for its removal.
LEMMA Lemma_platform_remove ==
  Sound("platform_remove", Qvio!Code["platform_remove"])
<1> DEFINE f == Qvio!Code["platform_remove"]
<1>1. f = [get |-> << >>,
           put |-> <<"qvio_video_stop", "qvio_video_put", "qvio_cdev_stop",
                     "qvio_device_put">>,
           when |-> "always", through |-> FALSE]
  BY DEF Qvio!Code, Qvio!platform_remove, Qvio!Script, Qvio!Releases,
         Qvio!On, Qvio!Forgetful, Qvio!Step
<1> HIDE DEF f
<1>2. /\ f.when = "always" /\ ~f.through /\ Len(f.get) = 0 /\ Len(f.put) = 4
      /\ DOMAIN f.get = 1 .. 0 /\ DOMAIN f.put = 1 .. 4 /\ f.get = << >>
  BY <1>1
<1>3. /\ f.put[1] = "qvio_video_stop" /\ f.put[2] = "qvio_video_put"
      /\ f.put[3] = "qvio_cdev_stop" /\ f.put[4] = "qvio_device_put"
  BY <1>1
<1>4. /\ Group("qvio_video_stop") = {"v4l2_dev", "vdev", "vnode"}
      /\ Group("qvio_video_put") = {"video"}
      /\ Group("qvio_cdev_stop") = {"cdev", "node"}
      /\ Group("qvio_device_put") = {"self"}
      /\ Group("platform_remove")
           = {"v4l2_dev", "vdev", "vnode", "video", "cdev", "node", "self"}
  BY Lemma_Groups DEF Parts, Roots, Probes, Removes
<1>5. /\ Left(f, 5) = {}
      /\ Left(f, 4) = {"self"}
      /\ Left(f, 3) = {"cdev", "node", "self"}
      /\ Left(f, 2) = {"video", "cdev", "node", "self"}
      /\ Left(f, 1)
           = {"v4l2_dev", "vdev", "vnode", "video", "cdev", "node", "self"}
  <2>1. Left(f, 5) = {}
    BY <1>2 DEF Left
  <2>2. Left(f, 4) = Left(f, 4 + 1) \cup Group(f.put[4])
    BY <1>2, Lemma_Left
  <2>3. Left(f, 3) = Left(f, 3 + 1) \cup Group(f.put[3])
    BY <1>2, Lemma_Left
  <2>4. Left(f, 2) = Left(f, 2 + 1) \cup Group(f.put[2])
    BY <1>2, Lemma_Left
  <2>5. Left(f, 1) = Left(f, 1 + 1) \cup Group(f.put[1])
    BY <1>2, Lemma_Left
  <2> QED
    BY <1>3, <1>4, <2>1, <2>2, <2>3, <2>4, <2>5
<1>6. \A i \in 1 .. 4 : DropSound("platform_remove", f, i)
  BY <1>3, <1>4, <1>5 DEF DropSound, Parts, Leaves, Starts, Stops
<1>7. "platform_remove" \notin SetUps
  BY DEF SetUps, Starts, Probes
<1> QED
  <2>1. /\ \A i \in 1 .. Len(f.get) : StepSound("platform_remove", f, i)
        /\ \A i \in 1 .. Len(f.put) : DropSound("platform_remove", f, i)
    BY <1>2, <1>6
  <2>2. /\ "platform_remove" \notin SetUps /\ f.get = << >> /\ Len(f.get) = 0
        /\ Left(f, 1) = Group("platform_remove")
    BY <1>2, <1>4, <1>5, <1>7
  <2>3. /\ Len(f.get) \in Nat /\ DOMAIN f.get = 1 .. Len(f.get)
        /\ Len(f.put) \in Nat /\ DOMAIN f.put = 1 .. Len(f.put)
    BY <1>2
  <2> QED
    BY <1>2, <2>1, <2>2, <2>3 DEF Sound, f

\* All of them.
LEMMA Lemma_Sound == \A p \in Leaves \cup Roots : Sound(p, Qvio!Code[p])
BY Lemma_qvio_device_new, Lemma_qvio_device_put, Lemma_qvio_cdev_start,
   Lemma_qvio_cdev_stop, Lemma_qvio_video_new, Lemma_qvio_video_put,
   Lemma_qvio_video_start, Lemma_qvio_video_stop, Lemma_pci_probe,
   Lemma_pci_remove, Lemma_platform_probe, Lemma_platform_remove
   DEF Leaves, Roots, Starts, Stops, Probes, Removes

\* A function of the driver that has to do with none of the parts.
Plains == DOMAIN Qvio!Code \ (Leaves \cup Roots)
Plain(f) ==
  /\ ~f.through
  /\ Len(f.get) \in Nat /\ DOMAIN f.get = 1 .. Len(f.get)
  /\ Len(f.put) \in Nat /\ DOMAIN f.put = 1 .. Len(f.put)
  /\ \A i \in DOMAIN f.get : f.get[i].what \notin Parts \cup Leaves \cup Roots
  /\ \A i \in DOMAIN f.put : f.put[i] \notin Parts \cup Leaves \cup Roots

\* Every one of them.
LEMMA Lemma_Plain ==
  ASSUME NEW p \in Plains
  PROVE  Plain(Qvio!Code[p])
<1> USE DEF Qvio!Code, Plain, Parts, Leaves, Roots, Qvio!Script, Qvio!Releases,
        Qvio!On, Qvio!Step, Starts, Stops, Probes, Removes, Plains
<1>1. Plain(Qvio!Code["qvio_cdev_register"])
  BY DEF Qvio!qvio_cdev_register
<1>2. Plain(Qvio!Code["qvio_cdev_unregister"])
  BY DEF Qvio!qvio_cdev_unregister
<1>3. Plain(Qvio!Code["qvio_mod_init"])
  BY DEF Qvio!qvio_mod_init
<1>4. Plain(Qvio!Code["qvio_mod_exit"])
  BY DEF Qvio!qvio_mod_exit
<1>5. Plain(Qvio!Code["qvio_device_platform_register"])
  BY DEF Qvio!qvio_device_platform_register
<1>6. Plain(Qvio!Code["qvio_device_platform_unregister"])
  BY DEF Qvio!qvio_device_platform_unregister
<1>7. Plain(Qvio!Code["map_single_bar_0"])
  BY DEF Qvio!map_single_bar
<1>8. Plain(Qvio!Code["map_single_bar_1"])
  BY DEF Qvio!map_single_bar
<1>9. Plain(Qvio!Code["is_config_bar"])
  BY DEF Qvio!is_config_bar
<1>10. Plain(Qvio!Code["map_bars"])
  BY DEF Qvio!map_bars
<1>11. Plain(Qvio!Code["unmap_bars"])
  BY DEF Qvio!unmap_bars
<1>12. Plain(Qvio!Code["engine_alloc_resource_h2c"])
  BY DEF Qvio!engine_alloc_resource_h2c
<1>13. Plain(Qvio!Code["engine_alloc_resource_c2h"])
  BY DEF Qvio!engine_alloc_resource_c2h
<1>14. Plain(Qvio!Code["engine_free_resource_h2c"])
  BY DEF Qvio!engine_free_resource_h2c
<1>15. Plain(Qvio!Code["engine_free_resource_c2h"])
  BY DEF Qvio!engine_free_resource_c2h
<1>16. Plain(Qvio!Code["engine_init_h2c"])
  BY DEF Qvio!engine_init
<1>17. Plain(Qvio!Code["engine_init_c2h"])
  BY DEF Qvio!engine_init
<1>18. Plain(Qvio!Code["engine_destroy_h2c"])
  BY DEF Qvio!engine_destroy
<1>19. Plain(Qvio!Code["engine_destroy_c2h"])
  BY DEF Qvio!engine_destroy
<1>20. Plain(Qvio!Code["probe_for_engine_h2c"])
  BY DEF Qvio!probe_for_engine
<1>21. Plain(Qvio!Code["probe_for_engine_c2h"])
  BY DEF Qvio!probe_for_engine
<1>22. Plain(Qvio!Code["probe_engines"])
  BY DEF Qvio!probe_engines, Qvio!Regardless
<1>23. Plain(Qvio!Code["remove_engines"])
  BY DEF Qvio!remove_engines
<1>24. Plain(Qvio!Code["irq_msix_channel_setup"])
  BY DEF Qvio!irq_msix_channel_setup
<1>25. Plain(Qvio!Code["irq_msix_user_setup"])
  BY DEF Qvio!irq_msix_user_setup
<1>26. Plain(Qvio!Code["irq_msi_setup"])
  BY DEF Qvio!irq_msi_setup
<1>27. Plain(Qvio!Code["irq_legacy_setup"])
  BY DEF Qvio!irq_legacy_setup
<1>28. Plain(Qvio!Code["irq_msix_channel_teardown"])
  BY DEF Qvio!irq_msix_channel_teardown
<1>29. Plain(Qvio!Code["irq_msix_user_teardown"])
  BY DEF Qvio!irq_msix_user_teardown
<1>30. Plain(Qvio!Code["irq_setup"])
  BY DEF Qvio!irq_setup
<1>31. Plain(Qvio!Code["irq_teardown"])
  BY DEF Qvio!irq_teardown
<1>32. Plain(Qvio!Code["alloc_dev_instance"])
  BY DEF Qvio!alloc_dev_instance
<1>33. Plain(Qvio!Code["xdev_list_add"])
  BY DEF Qvio!xdev_list_add
<1>34. Plain(Qvio!Code["xdev_list_remove"])
  BY DEF Qvio!xdev_list_remove
<1>35. Plain(Qvio!Code["request_regions"])
  BY DEF Qvio!request_regions
<1>36. Plain(Qvio!Code["set_dma_mask"])
  BY DEF Qvio!set_dma_mask
<1>37. Plain(Qvio!Code["enable_msi_msix"])
  BY DEF Qvio!enable_msi_msix
<1>38. Plain(Qvio!Code["disable_msi_msix"])
  BY DEF Qvio!disable_msi_msix
<1>39. Plain(Qvio!Code["xdma_device_open"])
  <2> DEFINE f == Qvio!Code["xdma_device_open"]
  <2>1. ~f.through /\ Len(f.get) = 9 /\ DOMAIN f.get = 1 .. 9
    BY DEF Qvio!xdma_device_open, Qvio!OpenSteps
  <2>2. Len(f.put) = 7 /\ DOMAIN f.put = 1 .. 7
    BY DEF Qvio!xdma_device_open
  <2>3. \A i \in DOMAIN f.get : f.get[i].what \notin Parts \cup Leaves
          \cup Roots
    BY DEF Qvio!xdma_device_open, Qvio!OpenSteps
  <2>4. \A i \in DOMAIN f.put : f.put[i] \notin Parts \cup Leaves \cup Roots
    BY DEF Qvio!xdma_device_open
  <2> HIDE DEF f
  <2>5. Plain(f)
    BY <2>1, <2>2, <2>3, <2>4
  <2> QED
    BY <2>5 DEF f
<1>40. Plain(Qvio!Code["xdma_device_close"])
  BY DEF Qvio!xdma_device_close, Qvio!CheckHandle, Qvio!When
<1>41. Plain(Qvio!Code["xdma_device_offline"])
  BY DEF Qvio!xdma_device_offline, Qvio!CheckHandle, Qvio!When
<1>42. Plain(Qvio!Code["xdma_device_online"])
  BY DEF Qvio!xdma_device_online, Qvio!CheckHandle, Qvio!When, Qvio!Regardless
<1>43. Plain(Qvio!Code["pci_error_detected"])
  BY DEF Qvio!pci_error_detected
<1>44. Plain(Qvio!Code["pci_slot_reset"])
  BY DEF Qvio!pci_slot_reset, Qvio!Regardless
<1> HIDE DEF Plain, Parts, Qvio!Script, Qvio!Releases, Qvio!On, Qvio!Step
<1> QED
  BY <1>1, <1>2, <1>3, <1>4, <1>5, <1>6, <1>7, <1>8, <1>9, <1>10, <1>11,
     <1>12, <1>13, <1>14, <1>15, <1>16, <1>17, <1>18, <1>19, <1>20, <1>21,
     <1>22, <1>23, <1>24, <1>25, <1>26, <1>27, <1>28, <1>29, <1>30, <1>31,
     <1>32, <1>33, <1>34, <1>35, <1>36, <1>37, <1>38, <1>39, <1>40, <1>41,
     <1>42, <1>43, <1>44

\* The calls on the stacks.
Frames == [proc : DOMAIN Qvio!Code, result : {"ok", "err"},
           phase : {"get", "put"}, at : Nat \ {0}]

\* What the function of a frame is at, if it is not at its end.
Doing(f) ==
  LET c == Qvio!Code[f.proc] IN
  IF f.phase = "get" THEN c.get[f.at].what ELSE c.put[f.at]
Working(f) == f.at <= Len(Qvio!Code[f.proc][f.phase])

\* The types, and the ioctls handle no part.
Stacked ==
  /\ stack \in [Qvio!Tasks -> Seq(Frames)] /\ held \in [Qvio!Resources -> Nat]
  /\ absent \subseteq Qvio!Pci \cup Qvio!Platform /\ bound \in BOOLEAN
  /\ \A i \in 1 .. Len(stack["user"]) : stack["user"][i].proc \in Plains

\* The shape of every script.
LEMMA Lemma_Shape ==
  ASSUME NEW p \in DOMAIN Qvio!Code
  PROVE  LET c == Qvio!Code[p] IN
         /\ ~c.through
         /\ Len(c.get) \in Nat /\ DOMAIN c.get = 1 .. Len(c.get)
         /\ Len(c.put) \in Nat /\ DOMAIN c.put = 1 .. Len(c.put)
<1>1. CASE p \in Plains
  BY <1>1, Lemma_Plain DEF Plain
<1>2. CASE p \in Leaves \cup Roots
  BY <1>2, Lemma_Sound DEF Sound
<1> QED
  BY <1>1, <1>2 DEF Plains

\* What a frame becomes is a frame of the same function.
LEMMA Lemma_Frames ==
  /\ \A p \in DOMAIN Qvio!Code :
       Qvio!U!Frame(p) \in Frames /\ Qvio!U!Frame(p).proc = p
  /\ \A f \in Frames :
       /\ Qvio!U!Onward(f) \in Frames
       /\ Qvio!U!Onward(f) = [f EXCEPT !.at = @ + 1]
       /\ Qvio!U!Cleanup(f) \in Frames
       /\ Qvio!U!Onward(f).proc = f.proc /\ Qvio!U!Cleanup(f).proc = f.proc
<1>1. ASSUME NEW p \in DOMAIN Qvio!Code
      PROVE  Qvio!U!Frame(p) \in Frames /\ Qvio!U!Frame(p).proc = p
  BY Lemma_Shape DEF Qvio!U!Frame, Frames
<1>2. ASSUME NEW f \in Frames
      PROVE  /\ Qvio!U!Onward(f) \in Frames
             /\ Qvio!U!Onward(f) = [f EXCEPT !.at = @ + 1]
             /\ Qvio!U!Onward(f).proc = f.proc
  BY DEF Qvio!U!Onward, Frames
<1>3. ASSUME NEW f \in Frames
      PROVE  Qvio!U!Cleanup(f) \in Frames /\ Qvio!U!Cleanup(f).proc = f.proc
  <2> DEFINE c == Qvio!Code[f.proc]
             l == Qvio!U!Place(c.put, c.get[f.at].label)
  <2>1. Len(c.put) \in Nat /\ DOMAIN c.put = 1 .. Len(c.put)
    BY Lemma_Shape DEF Frames
  <2>2. l \in Nat \ {0}
    BY <2>1 DEF Qvio!U!Place
  <2> HIDE DEF l
  <2>3. Qvio!U!Cleanup(f) = [f EXCEPT !.at = @ + 1]
        \/ \E x \in {"ok", "err"} :
             Qvio!U!Cleanup(f)
               = [f EXCEPT !.phase = "put", !.at = l, !.result = x]
    BY DEF Qvio!U!Cleanup, l
  <2>4. ASSUME NEW x \in {"ok", "err"}
        PROVE  LET g == [f EXCEPT !.phase = "put", !.at = l, !.result = x] IN
               g \in Frames /\ g.proc = f.proc
    BY <2>2 DEF Frames
  <2>5. [f EXCEPT !.at = @ + 1] \in Frames
        /\ [f EXCEPT !.at = @ + 1].proc = f.proc
    BY DEF Frames
  <2> QED
    BY <2>3, <2>4, <2>5
<1> QED
  BY <1>1, <1>2, <1>3

\* The parts are not among what a machine may lack, and no function is a
\* resource.
LEMMA Lemma_PartsAre ==
  /\ Parts \subseteq Qvio!Resources \ (Qvio!Pci \cup Qvio!Platform)
  /\ (Leaves \cup Roots) \cap (Qvio!Pci \cup Qvio!Platform) = {}
  /\ Parts \cap DOMAIN Qvio!Code = {}
  /\ Leaves \cup Roots \subseteq DOMAIN Qvio!Code
  /\ Parts
       \cap (DOMAIN Qvio!Only \cup DOMAIN Qvio!KeptIf \cup Qvio!Recorded) = {}
  /\ Parts
       \cap {"config_bar", "dma_mask", "device_id", "vb2_queue", "xdev"} = {}
  /\ Qvio!Resources \cap DOMAIN Qvio!Code = {}
<1> USE DEF Parts, Leaves, Roots, Starts, Stops, Probes, Removes,
            Qvio!Resources, Qvio!Common, Qvio!Pci, Qvio!Platform, Qvio!Irqs,
            Qvio!MsixIrqs
<1>1. /\ Parts \subseteq Qvio!Resources \ (Qvio!Pci \cup Qvio!Platform)
      /\ (Leaves \cup Roots) \cap (Qvio!Pci \cup Qvio!Platform) = {}
      /\ Parts
           \cap {"config_bar", "dma_mask", "device_id", "vb2_queue", "xdev"}
             = {}
  OBVIOUS
<1>2. Parts
        \cap (DOMAIN Qvio!Only \cup DOMAIN Qvio!KeptIf \cup Qvio!Recorded) = {}
  BY DEF Qvio!Only, Qvio!KeptIf, Qvio!Recorded
<1>3. Leaves \cup Roots \subseteq DOMAIN Qvio!Code
  BY DEF Qvio!Code
<1>4. Qvio!Resources \cap DOMAIN Qvio!Code = {}
  BY DEF Qvio!Code
<1>5. Parts \cap DOMAIN Qvio!Code = {}
  BY <1>1, <1>4
<1> QED
  BY <1>1, <1>2, <1>3, <1>4, <1>5

\* A step of a task, by what happens to its stack and to the parts.
Forward(t) == TopIs(stack[t], stack'[t], [stack[t][1] EXCEPT !.at = @ + 1])
Same == held' = held
Given(r) == \A x \in Parts : held'[x] = IF x = r THEN held[x] + 1 ELSE held[x]
Taken(r) ==
  \A x \in Parts :
    held'[x] = IF x = r /\ held[x] > 0 THEN held[x] - 1 ELSE held[x]

Acquires(t, f) ==
  /\ Working(f) /\ f.phase = "get" /\ Doing(f) \in Qvio!Resources
  /\ Forward(t) /\ Given(Doing(f))
Refuses(t, f) ==
  /\ Working(f) /\ f.phase = "get" /\ Doing(f) \in Qvio!Resources
  /\ TopIs(stack[t], stack'[t], Qvio!U!Cleanup(f)) /\ Same
  /\ LET x == <<f.proc, Doing(f)>> IN
     x \in DOMAIN Qvio!Noted => Qvio!Noted[x] \in failed'
Calls(t, f) ==
  /\ Working(f) /\ Doing(f) \in DOMAIN Qvio!Code /\ Same
  /\ \/ Forward(t) /\ Doing(f) \in Plains
     \/ Pushed(stack[t], stack'[t], Qvio!U!Frame(Doing(f)))
ReleasesOne(t, f) ==
  /\ Working(f) /\ Doing(f) \in Qvio!Resources /\ Forward(t) /\ Taken(Doing(f))
  /\ f.phase = "get" => Qvio!Code[f.proc].get[f.at].drop
Returns(t, f) ==
  /\ ~Working(f) /\ Same
  /\ \/ Len(stack[t]) = 1 /\ stack'[t] = << >>
     \/ /\ Len(stack[t]) >= 2
        /\ LET g == stack[t][2] IN
           Popped(stack[t], stack'[t],
                  IF f.result = "err" /\ g.phase = "get" THEN Qvio!U!Cleanup(g)
                                                       ELSE Qvio!U!Onward(g))

\* What the operators of the machine say of the call on top.
LEMMA Lemma_Top ==
  ASSUME Stacked, NEW t \in Qvio!Tasks, ~Qvio!U!Idle(t)
  PROVE  LET f == stack[t][1] IN
         /\ stack[t] # << >> /\ stack[t] \in Seq(Frames) /\ f \in Frames
         /\ Len(stack[t]) \in Nat \ {0} /\ Qvio!U!Top(t) = f
         /\ Qvio!U!Ends(t) <=> ~Working(f)
         /\ Qvio!U!Current(t) = Doing(f)
         /\ ~Qvio!U!Falls(t)
         /\ Qvio!U!Drops(t)
              <=> (f.phase = "get" => Qvio!Code[f.proc].get[f.at].drop)
<1> DEFINE f == stack[t][1]
<1>1. stack[t] # << >> /\ stack[t] \in Seq(Frames)
  BY DEF Qvio!U!Idle, Stacked
<1>2. Len(stack[t]) \in Nat \ {0} /\ Qvio!U!Top(t) = f /\ f \in Frames
  BY <1>1, StackEnd DEF Qvio!U!Top
<1> HIDE DEF f
<1>3. f.phase \in {"get", "put"} /\ f.at \in Nat \ {0}
      /\ f.proc \in DOMAIN Qvio!Code
  BY <1>2 DEF Frames
<1>4. Qvio!U!Ends(t) <=> ~Working(f)
  BY <1>2, <1>3, Lemma_Shape DEF Qvio!U!Ends, Qvio!U!Body, Working
<1>5. Qvio!U!Current(t) = Doing(f)
  BY <1>2, <1>3 DEF Qvio!U!Current, Qvio!U!Body, Doing
<1>6. ~Qvio!U!Falls(t)
  BY <1>2, <1>3, Lemma_Shape DEF Qvio!U!Falls, Qvio!U!Body
<1>7. Qvio!U!Drops(t) <=> (f.phase = "get" => Qvio!Code[f.proc].get[f.at].drop)
  BY <1>2, <1>3 DEF Qvio!U!Drops, Qvio!U!Body, Qvio!U!In
<1> QED
  BY <1>1, <1>2, <1>4, <1>5, <1>6, <1>7 DEF f

\* Every step of a task is one of these.
LEMMA Lemma_Run ==
  ASSUME Stacked, NEW t \in Qvio!Tasks, Qvio!U!Run(t)
  PROVE  LET f == stack[t][1] IN
         /\ stack[t] # << >> /\ f \in Frames /\ Len(stack[t]) \in Nat \ {0}
         /\ stack' \in [Qvio!Tasks -> Seq(Frames)]
         /\ \A u \in Qvio!Tasks \ {t} : stack'[u] = stack[u]
         /\ held' \in [Qvio!Resources -> Nat] /\ failed \subseteq failed'
         /\ Acquires(t, f) \/ Refuses(t, f) \/ Calls(t, f) \/ ReleasesOne(t, f)
            \/ Returns(t, f)
<1> DEFINE f == stack[t][1]
           s == stack[t]
           Frm == /\ stack' \in [Qvio!Tasks -> Seq(Frames)]
                  /\ \A u \in Qvio!Tasks \ {t} : stack'[u] = stack[u]
<1>1. ~Qvio!U!Idle(t)
  BY DEF Qvio!U!Run, Qvio!U!Acquire, Qvio!U!Refuse, Qvio!U!Call,
     Qvio!U!Release,
         Qvio!U!Fall, Qvio!U!Return, Qvio!U!Falls, Qvio!U!In
<1>2. /\ s # << >> /\ s \in Seq(Frames) /\ f \in Frames
      /\ Len(s) \in Nat \ {0} /\ Qvio!U!Top(t) = f
      /\ Qvio!U!Ends(t) <=> ~Working(f)
      /\ Qvio!U!Current(t) = Doing(f)
      /\ ~Qvio!U!Falls(t)
      /\ Qvio!U!Drops(t)
           <=> (f.phase = "get" => Qvio!Code[f.proc].get[f.at].drop)
  BY <1>1, Lemma_Top
<1>3. f.phase \in {"get", "put"} /\ f.at \in Nat \ {0}
      /\ f.proc \in DOMAIN Qvio!Code
  BY <1>2 DEF Frames
<1>4. /\ Qvio!U!Onward(f) \in Frames
      /\ Qvio!U!Onward(f) = [f EXCEPT !.at = @ + 1]
      /\ Qvio!U!Cleanup(f) \in Frames
  BY <1>2, Lemma_Frames
<1>5. ASSUME NEW x, stack' = [stack EXCEPT ![t] = x], x \in Seq(Frames)
      PROVE  Frm /\ stack'[t] = x
  BY <1>5 DEF Stacked
<1>6. ASSUME NEW g \in Frames,
             stack' = [stack EXCEPT ![t] = [s EXCEPT ![1] = g]]
      PROVE  Frm /\ TopIs(s, stack'[t], g)
  BY <1>2, <1>5, <1>6, StackTop
<1> HIDE DEF f, s, Frm
<1>7. CASE Qvio!U!Acquire(t)
  <2>1. Frm /\ Forward(t)
    BY <1>2, <1>4, <1>6, <1>7 DEF Qvio!U!Acquire, Forward, s, f
  <2>2. Working(f) /\ Doing(f) \in Qvio!Resources /\ f.phase = "get"
    BY <1>2, <1>3, <1>7 DEF Qvio!U!Acquire
  <2> DEFINE r == Doing(f)
  <2>3. r \in Parts =>
          ~Qvio!U!Skipped(r)
          /\ r \notin {"config_bar", "dma_mask", "device_id", "vb2_queue"}
    BY Lemma_PartsAre DEF Qvio!U!Skipped, Stacked
  <2>4. held' = held
          \/ (held' = [held EXCEPT ![r] = @ + 1] /\ ~Qvio!U!Skipped(r))
    BY <1>2, <1>7 DEF Qvio!U!Acquire
  <2>5. r \in Parts => held' = [held EXCEPT ![r] = @ + 1]
    BY <1>2, <1>7, <2>3 DEF Qvio!U!Acquire
  <2> HIDE DEF r
  <2>6. held' \in [Qvio!Resources -> Nat] /\ Given(r)
    <3>1. held \in [Qvio!Resources -> Nat] /\ r \in Qvio!Resources
          /\ Parts \subseteq Qvio!Resources
      BY <2>2, Lemma_PartsAre DEF Stacked, r
    <3>2. CASE held' = [held EXCEPT ![r] = @ + 1]
      BY <3>1, <3>2 DEF Given
    <3>3. CASE held' = held /\ r \notin Parts
      BY <3>1, <3>3 DEF Given
    <3> QED
      BY <2>4, <2>5, <3>2, <3>3
  <2>7. failed' = failed
    BY <1>7 DEF Qvio!U!Acquire
  <2> QED
    BY <1>2, <2>1, <2>2, <2>6, <2>7 DEF Acquires, r, s, f, Frm
<1>8. CASE Qvio!U!Refuse(t)
  <2>1. Frm /\ TopIs(s, stack'[t], Qvio!U!Cleanup(f)) /\ held' = held
    BY <1>2, <1>4, <1>6, <1>8 DEF Qvio!U!Refuse, s, f
  <2>2. Working(f) /\ Doing(f) \in Qvio!Resources /\ f.phase = "get"
    BY <1>2, <1>3, <1>8 DEF Qvio!U!Refuse
  <2>3. failed' = failed \cup
                  {Qvio!Noted[x] : x \in {<<f.proc, Doing(f)>>}
                   \cap DOMAIN Qvio!Noted}
    BY <1>2, <1>8 DEF Qvio!U!Refuse
  <2> QED
    BY <1>2, <2>1, <2>2, <2>3, Stacked DEF Refuses, Same, s, f, Frm, Stacked
<1>9. CASE Qvio!U!Call(t)
  <2> DEFINE r == Doing(f)
  <2>1. Working(f) /\ r \in DOMAIN Qvio!Code /\ held' = held
        /\ failed' = failed
    BY <1>2, <1>9 DEF Qvio!U!Call
  <2>2. CASE r \in absent
    <3>1. stack' = [stack EXCEPT ![t] = <<Qvio!U!Onward(f)>> \o Tail(s)]
      BY <1>2, <1>9, <2>2 DEF Qvio!U!Call, s
    <3>2. <<Qvio!U!Onward(f)>> \o Tail(s) \in Seq(Frames)
          /\ TopIs(s, <<Qvio!U!Onward(f)>> \o Tail(s), Qvio!U!Onward(f))
      BY <1>2, <1>4, StackTop
    <3>3. Frm /\ Forward(t)
      BY <1>4, <1>5, <3>1, <3>2 DEF Forward, s, f
    <3>4. r \in Plains
      BY <2>1, <2>2, Lemma_PartsAre DEF Plains, Stacked
    <3> QED
      BY <1>2, <2>1, <3>3, <3>4 DEF Calls, Same, Stacked, f, s, Frm
  <2>3. CASE r \notin absent
    <3>1. stack' = [stack EXCEPT ![t] = <<Qvio!U!Frame(r)>> \o s]
      BY <1>2, <1>9, <2>3 DEF Qvio!U!Call, s
    <3>2. <<Qvio!U!Frame(r)>> \o s \in Seq(Frames)
          /\ Pushed(s, <<Qvio!U!Frame(r)>> \o s, Qvio!U!Frame(r))
      BY <1>2, <2>1, Lemma_Frames, StackPush
    <3>3. Frm /\ Pushed(s, stack'[t], Qvio!U!Frame(r))
      BY <1>5, <3>1, <3>2
    <3> QED
      BY <1>2, <2>1, <3>3 DEF Calls, Same, Stacked, f, s, Frm
  <2> QED
    BY <2>2, <2>3
<1>10. CASE Qvio!U!Release(t)
  <2> DEFINE r == Doing(f)
  <2>1. /\ Working(f) /\ r \in Qvio!Resources /\ failed' = failed
        /\ f.phase = "get" => Qvio!Code[f.proc].get[f.at].drop
    BY <1>2, <1>10 DEF Qvio!U!Release
  <2>2. stack' = [stack EXCEPT ![t][1].at = @ + 1]
    BY <1>10 DEF Qvio!U!Release
  <2>3. Frm /\ Forward(t)
    <3>1. [s EXCEPT ![1].at = @ + 1]
            = [s EXCEPT ![1] = [f EXCEPT !.at = @ + 1]]
      BY DEF s, f
    <3>2. stack' = [stack EXCEPT ![t] = [s EXCEPT ![1].at = @ + 1]]
      BY <2>2 DEF s
    <3> QED
      BY <1>4, <1>6, <3>1, <3>2 DEF Forward, s, f
  <2>4. held' = [x \in Qvio!Resources |->
                   IF x # r \/ Qvio!U!Kept(r) \/ held[r] = 0 THEN held[x]
                   ELSE held[r] - 1]
    BY <1>2, <1>10 DEF Qvio!U!Release
  <2>5. r \in Parts => ~Qvio!U!Kept(r)
    BY Lemma_PartsAre DEF Qvio!U!Kept, Stacked
  <2>6. held \in [Qvio!Resources -> Nat] /\ Parts \subseteq Qvio!Resources
    BY Lemma_PartsAre DEF Stacked
  <2> HIDE DEF r
  <2>7. held' \in [Qvio!Resources -> Nat] /\ Taken(r)
    BY <2>1, <2>4, <2>5, <2>6 DEF Taken
  <2> QED
    BY <1>2, <2>1, <2>3, <2>7 DEF ReleasesOne, r, s, f, Frm
<1>11. CASE Qvio!U!Return(t)
  <2>1. ~Working(f) /\ held' = held /\ failed' = failed
    BY <1>2, <1>11 DEF Qvio!U!Return
  <2>2. CASE Tail(s) = << >>
    <3>1. stack' = [stack EXCEPT ![t] = << >>] /\ Len(s) = 1
      BY <1>2, <1>11, <2>2, StackEnd DEF Qvio!U!Return, s
    <3>2. Frm /\ stack'[t] = << >>
      BY <1>5, <3>1, ListEmpty
    <3> QED
      BY <1>2, <2>1, <3>1, <3>2 DEF Returns, Same, Stacked, f, s, Frm
  <2>3. CASE Tail(s) # << >>
    <3> DEFINE g == s[2]
               x == IF f.result = "err" /\ g.phase = "get"
                    THEN Qvio!U!Cleanup(g) ELSE Qvio!U!Onward(g)
    <3>1. Len(s) >= 2 /\ Tail(s)[1] = g /\ g \in Frames
      BY <1>2, <2>3, StackPop, StackEnd
    <3>2. x \in Frames
      BY <3>1, Lemma_Frames
    <3>3. stack' = [stack EXCEPT ![t] = <<x>> \o Tail(Tail(s))]
      BY <1>2, <1>11, <2>3, <3>1 DEF Qvio!U!Return, s
    <3>4. <<x>> \o Tail(Tail(s)) \in Seq(Frames)
          /\ Popped(s, <<x>> \o Tail(Tail(s)), x)
      BY <1>2, <2>3, <3>2, StackPop
    <3>5. Frm /\ Popped(s, stack'[t], x)
      BY <1>5, <3>3, <3>4
    <3> QED
      BY <1>2, <2>1, <3>1, <3>5 DEF Returns, Same, Stacked, f, s, Frm
  <2> QED
    BY <2>2, <2>3
<1> QED
  BY <1>7, <1>8, <1>9, <1>10, <1>11, <1>2 DEF Qvio!U!Run, Qvio!U!Fall, f, s,
     Frm

\* The parts that a function has: what its body got so far or, once it
\* releases, what it has yet to release.
Has(f) ==
  LET c == Qvio!Code[f.proc] IN
  IF f.phase = "get" THEN Got(c, f.at) ELSE Left(c, f.at)

\* A frame of a function that handles parts: only a set-up has a body, and it
\* fails if it comes to its labels.
InOrder(f) ==
  /\ f.phase = "get" => /\ f.proc \in SetUps
                        /\ f.at <= Len(Qvio!Code[f.proc].get) + 1
  /\ f.result = "err" <=> (f.proc \in SetUps /\ f.phase = "put")

\* Exactly the parts of X are held, each once.
HeldAre(h, X) == \A r \in Parts : h[r] = IF r \in X THEN 1 ELSE 0
\* The first n calls have to do with none of them.
AllPlain(s, n) == \A i \in 1 .. n : s[i].proc \in Plains

\* Nothing that has to do with parts is on the stack.
Elsewhere(s, h, b) ==
  AllPlain(s, Len(s)) /\ HeldAre(h, IF b THEN Parts ELSE {})
\* The outermost call is a probe, of a device not bound, or a removal.
Rooted(s, b) ==
  LET f == s[Len(s)] IN
  s # << >> /\ f.proc \in Roots /\ InOrder(f) /\ (b <=> f.proc \in Removes)
\* A probe or a removal is on top.
OnTop(s, h, b) == Rooted(s, b) /\ Len(s) = 1 /\ HeldAre(h, Has(s[1]))
\* It is in one of the functions that handle parts.
Inside(s, h, b) ==
  LET f == s[2]
      g == s[1] IN
  /\ Rooted(s, b) /\ Len(s) = 2 /\ Working(f) /\ Doing(f) = g.proc
  /\ g.proc \in Leaves /\ InOrder(g)
  /\ HeldAre(h, (Has(f) \ Group(g.proc)) \cup Has(g))
\* It is in another function.
Beside(s, h, b) ==
  LET f == s[Len(s)] IN
  /\ Rooted(s, b) /\ Len(s) >= 2 /\ Working(f) /\ AllPlain(s, Len(s) - 1)
  /\ Doing(f) = s[Len(s) - 1].proc /\ HeldAre(h, Has(f))

\* Where the driver core's task is, and what is held there.
Layout(s, h, b) ==
  Elsewhere(s, h, b) \/ OnTop(s, h, b) \/ Inside(s, h, b) \/ Beside(s, h, b)

\* The inductive invariant.
PartsInv ==
  /\ Stacked
  /\ "false_success" \notin failed => Layout(stack["admin"], held, bound)

\* What a function does that has to do with none of the parts.
LEMMA Lemma_PlainDoing ==
  ASSUME NEW f \in Frames, f.proc \in Plains, Working(f)
  PROVE  Doing(f) \notin Parts \cup Leaves \cup Roots
<1>1. Plain(Qvio!Code[f.proc])
  BY Lemma_Plain
<1> QED
  BY <1>1 DEF Plain, Frames, Doing, Working

\* A step of such a function leaves the parts alone, and calls such functions.
LEMMA Lemma_PlainStep ==
  ASSUME Stacked, NEW t \in Qvio!Tasks, Qvio!U!Run(t),
         stack[t][1].proc \in Plains
  PROVE  LET s == stack[t]
             u == stack'[t] IN
         /\ \A x \in Parts : held'[x] = held[x]
         /\ \/ \E y \in Frames : TopIs(s, u, y) /\ y.proc = s[1].proc
            \/ \E y \in Frames : Pushed(s, u, y) /\ y.proc \in Plains
            \/ Returns(t, s[1])
<1> DEFINE f == stack[t][1]
           s == stack[t]
           u == stack'[t]
<1>1. /\ f \in Frames /\ held' \in [Qvio!Resources -> Nat]
      /\ Acquires(t, f) \/ Refuses(t, f) \/ Calls(t, f) \/ ReleasesOne(t, f)
         \/ Returns(t, f)
  BY Lemma_Run
<1>2. Working(f) => Doing(f) \notin Parts \cup Leaves \cup Roots
  BY <1>1, Lemma_PlainDoing
<1>3. /\ [f EXCEPT !.at = @ + 1] \in Frames
      /\ [f EXCEPT !.at = @ + 1].proc = f.proc
      /\ Qvio!U!Cleanup(f) \in Frames /\ Qvio!U!Cleanup(f).proc = f.proc
  <2>1. Qvio!U!Onward(f) = [f EXCEPT !.at = @ + 1]
    BY <1>1, Lemma_Frames
  <2> QED
    BY <1>1, <2>1, Lemma_Frames
<1>4. \A p \in DOMAIN Qvio!Code :
        Qvio!U!Frame(p) \in Frames /\ Qvio!U!Frame(p).proc = p
  BY Lemma_Frames
<1> HIDE DEF f
<1>5. CASE Acquires(t, f)
  <2>1. \A x \in Parts : held'[x] = held[x]
    BY <1>2, <1>5 DEF Acquires, Given
  <2> QED
    BY <1>3, <1>5, <2>1 DEF Acquires, Forward, f
<1>6. CASE Refuses(t, f)
  BY <1>3, <1>6 DEF Refuses, Same, f
<1>7. CASE Calls(t, f)
  <2>1. held' = held /\ Doing(f) \in Plains
    BY <1>2, <1>7 DEF Calls, Same, Plains
  <2>2. CASE Forward(t)
    BY <1>3, <2>1, <2>2 DEF Forward, f
  <2>3. CASE Pushed(s, u, Qvio!U!Frame(Doing(f)))
    BY <1>4, <2>1, <2>3 DEF Plains
  <2> QED
    BY <1>7, <2>2, <2>3 DEF Calls, f
<1>8. CASE ReleasesOne(t, f)
  <2>1. \A x \in Parts : held'[x] = held[x]
    BY <1>2, <1>8 DEF ReleasesOne, Taken
  <2> QED
    BY <1>3, <1>8, <2>1 DEF ReleasesOne, Forward, f
<1>9. CASE Returns(t, f)
  BY <1>9 DEF Returns, Same, f
<1> QED
  BY <1>1, <1>5, <1>6, <1>7, <1>8, <1>9

\* A step of a task on a stack of such functions keeps it one.
LEMMA Lemma_AllPlain ==
  ASSUME Stacked, NEW t \in Qvio!Tasks, Qvio!U!Run(t),
         AllPlain(stack[t], Len(stack[t]))
  PROVE  AllPlain(stack'[t], Len(stack'[t]))
         /\ \A x \in Parts : held'[x] = held[x]
<1> DEFINE s == stack[t]
           u == stack'[t]
<1>1. s # << >> /\ Len(s) \in Nat \ {0} /\ s \in Seq(Frames)
      /\ u \in Seq(Frames)
  BY Lemma_Run DEF Stacked
<1>2. s[1].proc \in Plains
  BY <1>1 DEF AllPlain
<1>3. /\ \A x \in Parts : held'[x] = held[x]
      /\ \/ \E y \in Frames : TopIs(s, u, y) /\ y.proc = s[1].proc
         \/ \E y \in Frames : Pushed(s, u, y) /\ y.proc \in Plains
         \/ Returns(t, s[1])
  BY <1>2, Lemma_PlainStep
<1>10. \A i \in 1 .. Len(s) : s[i].proc \in Plains /\ s[i] \in Frames
  BY <1>1, StackEnd DEF AllPlain
<1> HIDE DEF s, u
<1>4. ASSUME \E y \in Frames : TopIs(s, u, y) /\ y.proc = s[1].proc
      PROVE  AllPlain(u, Len(u))
  <2> PICK y \in Frames : TopIs(s, u, y) /\ y.proc = s[1].proc
    BY <1>4
  <2> SUFFICES ASSUME NEW i \in 1 .. Len(u) PROVE u[i].proc \in Plains
    BY DEF AllPlain
  <2>1. CASE i = 1
    BY <1>1, <1>10, <2>1 DEF TopIs
  <2>2. CASE i # 1
    <3>1. i \in 2 .. Len(s) /\ i \in 1 .. Len(s)
      BY <1>1, <2>2 DEF TopIs
    <3> QED
      BY <1>10, <3>1 DEF TopIs
  <2> QED
    BY <2>1, <2>2
<1>5. ASSUME \E y \in Frames : Pushed(s, u, y) /\ y.proc \in Plains
      PROVE  AllPlain(u, Len(u))
  <2> PICK y \in Frames : Pushed(s, u, y) /\ y.proc \in Plains
    BY <1>5
  <2> SUFFICES ASSUME NEW i \in 1 .. Len(u) PROVE u[i].proc \in Plains
    BY DEF AllPlain
  <2>1. CASE i = 1
    BY <2>1 DEF Pushed
  <2>2. CASE i # 1
    <3>1. i - 1 \in 1 .. Len(s) /\ (i - 1) + 1 = i
      BY <1>1, <2>2 DEF Pushed
    <3> QED
      BY <1>10, <3>1 DEF Pushed
  <2> QED
    BY <2>1, <2>2
<1>6. ASSUME Len(s) = 1, u = << >>
      PROVE  AllPlain(u, Len(u))
  BY <1>6, ListEmpty DEF AllPlain
<1>7. ASSUME \E y : Len(s) >= 2 /\ Popped(s, u, y) /\ y.proc = s[2].proc
      PROVE  AllPlain(u, Len(u))
  <2> PICK y : Len(s) >= 2 /\ Popped(s, u, y) /\ y.proc = s[2].proc
    BY <1>7
  <2> SUFFICES ASSUME NEW i \in 1 .. Len(u) PROVE u[i].proc \in Plains
    BY DEF AllPlain
  <2>1. CASE i = 1
    BY <1>1, <1>10, <2>1 DEF Popped
  <2>2. CASE i # 1
    <3>1. i + 1 \in 3 .. Len(s) /\ (i + 1) - 1 = i /\ i + 1 \in 1 .. Len(s)
      BY <1>1, <2>2 DEF Popped
    <3> QED
      BY <1>10, <3>1 DEF Popped
  <2> QED
    BY <2>1, <2>2
<1>8. Returns(t, s[1]) => \/ Len(s) = 1 /\ u = << >>
                          \/ \E y : /\ Len(s) >= 2 /\ Popped(s, u, y)
                                    /\ y.proc = s[2].proc
  <2>1. ASSUME Len(s) >= 2 PROVE s[2] \in Frames
    BY <1>1, <1>10, <2>1
  <2>2. \A g \in Frames : /\ Qvio!U!Onward(g).proc = g.proc
                          /\ Qvio!U!Cleanup(g).proc = g.proc
    BY Lemma_Frames
  <2> QED
    BY <2>1, <2>2 DEF Returns, s, u
<1> QED
  BY <1>3, <1>4, <1>5, <1>6, <1>7, <1>8 DEF s, u

\* What a step that is no acquisition or release of a part stands for.
LEMMA Lemma_GroupOf ==
  /\ \A x \in Plains : Group(x) = {}
  /\ Group("device_id") = {}
  /\ \A x \in Roots : Group(x) = Parts
  /\ \A x : Group(x) \subseteq Parts
  /\ \A x \in Parts : Group(x) = {x}
<1>1. \A x \in Plains : x \notin Parts /\ x \notin Leaves /\ x \notin Roots
  BY Lemma_PartsAre DEF Plains
<1>2. \A x : x \notin Parts /\ x \notin Leaves /\ x \notin Roots
        => Group(x) = {}
  BY DEF Group, Leaves, Starts, Stops
<1> QED
  BY <1>1, <1>2, Lemma_Groups

\* The functions that handle parts, by kind.
LEMMA Lemma_KindsAre ==
  /\ Leaves = Starts \cup Stops /\ Roots = Probes \cup Removes
  /\ SetUps = Starts \cup Probes
  /\ Leaves \cap Roots = {} /\ SetUps \cap (Stops \cup Removes) = {}
  /\ Starts \cap Stops = {} /\ Probes \cap Removes = {}
  /\ {"xdma_device_open", "xdma_device_close"} \subseteq Plains
  /\ {"vb2_queue", "device_id"} \subseteq Qvio!Resources
  /\ {"xdma_device_open", "xdma_device_close", "device_id"} \cap Leaves = {}
<1>1. {"xdma_device_open", "xdma_device_close"} \subseteq Plains
  BY DEF Plains, Leaves, Roots, Starts, Stops, Probes, Removes, Qvio!Code
<1>2. {"vb2_queue", "device_id"} \subseteq Qvio!Resources
  BY DEF Qvio!Resources, Qvio!Common, Qvio!Pci
<1> QED
  BY <1>1, <1>2 DEF Leaves, Roots, SetUps, Starts, Stops, Probes, Removes

\* A step of the body of a function that handles parts.
LEMMA Lemma_InBody ==
  ASSUME NEW f \in Frames, f.proc \in Leaves \cup Roots, InOrder(f),
         f.phase = "get",
         Working(f)
  PROVE  LET r == Doing(f)
             g == [f EXCEPT !.at = @ + 1]
             e == Qvio!U!Cleanup(f)
             quiet == Qvio!Code[f.proc].get[f.at].quiet IN
         /\ f.proc \in SetUps /\ ~Qvio!Code[f.proc].get[f.at].drop
         /\ g \in Frames /\ InOrder(g) /\ Has(g) = Has(f) \cup Group(r)
         /\ Group(r) \cap Has(f) = {} /\ Group(r) \subseteq Group(f.proc)
         /\ quiet => /\ <<f.proc, r>> \in DOMAIN Qvio!Noted
                     /\ Qvio!Noted[<<f.proc, r>>] = "false_success"
                     /\ r \in Parts \cup {"device_id"}
         /\ ~quiet => e \in Frames /\ e.proc = f.proc /\ InOrder(e)
              /\ Has(e) = Has(f)
         /\ r \in IF f.proc \in Leaves THEN Parts \cup {"vb2_queue"}
                  ELSE Starts \cup {"xdma_device_open", "device_id"}
<1> DEFINE c == Qvio!Code[f.proc]
           i == f.at
           r == c.get[i].what
           l == Qvio!U!Place(c.put, c.get[i].label)
<1>1. /\ f.proc \in DOMAIN Qvio!Code /\ i \in Nat \ {0} /\ f.proc \in SetUps
      /\ Doing(f) = r /\ i <= Len(c.get)
  BY DEF Frames, InOrder, Working, Doing
<1>2. Sound(f.proc, c)
  BY Lemma_Sound
<1>3. Len(c.get) \in Nat /\ i \in 1 .. Len(c.get) /\ StepSound(f.proc, c, i)
  BY <1>1, <1>2 DEF Sound
<1>4. /\ ~c.get[i].drop /\ c.get[i].label # "continue"
      /\ c.get[i].quiet => /\ <<f.proc, r>> \in DOMAIN Qvio!Noted
                           /\ Qvio!Noted[<<f.proc, r>>] = "false_success"
                           /\ r \in Parts \cup {"device_id"}
      /\ r \in IF f.proc \in Leaves THEN Parts \cup {"vb2_queue"}
               ELSE Starts \cup {"xdma_device_open", "device_id"}
      /\ Group(r) \cap Got(c, i) = {} /\ Group(r) \subseteq Group(f.proc)
      /\ l \in Nat \ {0} /\ Left(c, l) = Got(c, i)
  BY <1>3 DEF StepSound
<1>5. Got(c, i + 1) = Got(c, i) \cup Group(r)
  BY <1>1, Lemma_Got
<1> HIDE DEF c, r, l
<1>6. Has(f) = Got(c, i)
  BY DEF Has, c
<1>7. LET g == [f EXCEPT !.at = @ + 1] IN
      g \in Frames /\ InOrder(g) /\ Has(g) = Got(c, i + 1)
  <2> DEFINE g == [f EXCEPT !.at = @ + 1]
  <2>1. g \in Frames /\ g.proc = f.proc /\ g.phase = "get" /\ g.at = i + 1
        /\ g.result = f.result
    BY <1>1 DEF Frames
  <2> HIDE DEF g
  <2>2. InOrder(g)
    BY <1>1, <1>3, <2>1 DEF InOrder, c
  <2>3. Has(g) = Got(c, i + 1)
    BY <2>1 DEF Has, c
  <2> QED
    BY <2>1, <2>2, <2>3 DEF g
<1>8. ~c.get[i].quiet => LET e == Qvio!U!Cleanup(f) IN
        e \in Frames /\ e.proc = f.proc /\ InOrder(e) /\ Has(e) = Left(c, l)
  <2> DEFINE e == Qvio!U!Cleanup(f)
  <2> SUFFICES ASSUME ~c.get[i].quiet
               PROVE  e \in Frames /\ e.proc = f.proc /\ InOrder(e)
                      /\ Has(e) = Left(c, l)
    OBVIOUS
  <2>1. e = [f EXCEPT !.phase = "put", !.at = l, !.result = "err"]
    BY <1>4 DEF Qvio!U!Cleanup, c, l
  <2>2. e \in Frames /\ e.proc = f.proc /\ e.phase = "put" /\ e.at = l
        /\ e.result = "err"
    BY <1>4, <2>1 DEF Frames
  <2> HIDE DEF e
  <2>3. InOrder(e)
    BY <1>1, <2>2 DEF InOrder
  <2>4. Has(e) = Left(c, l)
    BY <2>2 DEF Has, c
  <2> QED
    BY <2>2, <2>3, <2>4
<1> QED
  BY <1>1, <1>4, <1>5, <1>6, <1>7, <1>8 DEF c

\* A release in one.
LEMMA Lemma_InLabels ==
  ASSUME NEW f \in Frames, f.proc \in Leaves \cup Roots, InOrder(f),
         f.phase = "put",
         Working(f)
  PROVE  LET r == Doing(f)
             g == [f EXCEPT !.at = @ + 1] IN
         /\ g \in Frames /\ InOrder(g) /\ Has(f) = Has(g) \cup Group(r)
         /\ Group(r) \cap Has(g) = {} /\ Group(r) \subseteq Group(f.proc)
         /\ r \in IF f.proc \in Leaves THEN Parts
                  ELSE Stops \cup {"xdma_device_close"}
<1> DEFINE c == Qvio!Code[f.proc]
           i == f.at
           r == c.put[i]
           g == [f EXCEPT !.at = @ + 1]
<1>1. f.proc \in DOMAIN Qvio!Code /\ i \in Nat \ {0} /\ Doing(f) = r
      /\ i <= Len(c.put)
  BY DEF Frames, Working, Doing
<1>2. Sound(f.proc, c)
  BY Lemma_Sound
<1>3. Len(c.put) \in Nat /\ i \in 1 .. Len(c.put) /\ DropSound(f.proc, c, i)
  BY <1>1, <1>2 DEF Sound
<1>4. /\ r \in IF f.proc \in Leaves THEN Parts
               ELSE Stops \cup {"xdma_device_close"}
      /\ Group(r) \cap Left(c, i + 1) = {} /\ Group(r) \subseteq Group(f.proc)
  BY <1>3 DEF DropSound
<1>5. Left(c, i) = Left(c, i + 1) \cup Group(r)
  BY <1>3, Lemma_Left
<1> HIDE DEF c, r
<1>6. g \in Frames /\ g.proc = f.proc /\ g.phase = "put" /\ g.at = i + 1
      /\ g.result = f.result
  BY <1>1 DEF Frames
<1> HIDE DEF g
<1>7. InOrder(g)
  BY <1>6 DEF InOrder
<1>8. Has(f) = Left(c, i) /\ Has(g) = Left(c, i + 1)
  BY <1>6 DEF Has, c
<1> QED
  BY <1>1, <1>4, <1>5, <1>6, <1>7, <1>8 DEF g

\* One that is at its end.
LEMMA Lemma_AtEnd ==
  ASSUME NEW f \in Frames, f.proc \in Leaves \cup Roots, InOrder(f),
         ~Working(f)
  PROVE  IF f.phase = "get"
         THEN f.proc \in SetUps /\ f.result = "ok" /\ Has(f) = Group(f.proc)
         ELSE Has(f) = {} /\ (f.result = "err" <=> f.proc \in SetUps)
<1> DEFINE c == Qvio!Code[f.proc]
<1>1. /\ f.proc \in DOMAIN Qvio!Code /\ f.at \in Nat \ {0}
      /\ f.phase \in {"get", "put"}
      /\ f.result \in {"ok", "err"}
  BY DEF Frames
<1>2. Sound(f.proc, c)
  BY Lemma_Sound
<1>3. CASE f.phase = "get"
  <2>1. f.proc \in SetUps /\ f.at <= Len(c.get) + 1 /\ f.result = "ok"
    BY <1>1, <1>3 DEF InOrder
  <2>2. Len(c.get) \in Nat /\ Got(c, Len(c.get) + 1) = Group(f.proc)
    BY <1>2, <2>1 DEF Sound
  <2>3. f.at = Len(c.get) + 1
    BY <1>1, <1>3, <2>1, <2>2 DEF Working
  <2> QED
    BY <1>3, <2>1, <2>2, <2>3 DEF Has
<1>4. CASE f.phase = "put"
  <2>1. Len(c.put) \in Nat /\ f.at > Len(c.put)
    BY <1>1, <1>2, <1>4 DEF Working, Sound
  <2>2. f.at .. Len(c.put) = {}
    BY <1>1, <2>1
  <2>3. Left(c, f.at) = {}
    BY <2>2 DEF Left
  <2> QED
    BY <1>4, <2>3 DEF Has, InOrder
<1> QED
  BY <1>1, <1>3, <1>4

\* One that starts.
LEMMA Lemma_AtStart ==
  ASSUME NEW p \in Leaves \cup Roots
  PROVE  LET f == Qvio!U!Frame(p) IN
         /\ f \in Frames /\ f.proc = p /\ InOrder(f)
         /\ Has(f) = IF p \in SetUps THEN {} ELSE Group(p)
         /\ f.phase = IF p \in SetUps THEN "get" ELSE "put"
<1> DEFINE c == Qvio!Code[p]
           f == Qvio!U!Frame(p)
<1>1. Sound(p, c) /\ p \in DOMAIN Qvio!Code
  BY Lemma_Sound, Lemma_PartsAre
<1>2. f = [proc |-> p, result |-> "ok",
           phase |-> IF c.get = << >> THEN "put" ELSE "get", at |-> 1]
  BY <1>1 DEF Qvio!U!Frame, Sound
<1>3. f \in Frames /\ f.proc = p /\ f.at = 1 /\ f.result = "ok"
      /\ f.phase = IF c.get = << >> THEN "put" ELSE "get"
  BY <1>1, <1>2 DEF Frames
<1> HIDE DEF f
<1>4. CASE p \in SetUps
  <2>1. c.get # << >> /\ Len(c.get) \in Nat
    BY <1>1, <1>4 DEF Sound
  <2>2. InOrder(f)
    BY <1>3, <1>4, <2>1 DEF InOrder
  <2>3. Has(f) = {}
    BY <1>3, <2>1, Lemma_Got DEF Has
  <2> QED
    BY <1>3, <1>4, <2>1, <2>2, <2>3 DEF f
<1>5. CASE p \notin SetUps
  <2>1. c.get = << >> /\ Left(c, 1) = Group(p)
    BY <1>1, <1>5 DEF Sound
  <2>2. InOrder(f)
    BY <1>3, <1>5, <2>1 DEF InOrder
  <2>3. Has(f) = Group(p)
    BY <1>3, <2>1 DEF Has
  <2> QED
    BY <1>3, <1>5, <2>1, <2>2, <2>3 DEF f
<1> QED
  BY <1>4, <1>5

\* What the driver core makes of the return of the outermost function.
Outcome ==
  LET leaves(p, result) == Qvio!U!Leaves("admin", result)
                                 /\ Qvio!U!Top("admin").proc \in p IN
  bound' = ((bound \/ leaves(Probes, "ok")) /\ ~leaves(Removes, "ok"))

\* It changes what is bound only when a probe or a removal returns.
LEMMA Lemma_Outcome ==
  ASSUME Stacked, Outcome, stack["admin"] # << >>
  PROVE  LET s == stack["admin"]
             f == s[1] IN
         /\ ~(Len(s) = 1 /\ f.proc \in Roots /\ ~Working(f)) => bound' = bound
         /\ Len(s) = 1 /\ ~Working(f) =>
              /\ f.proc \in Probes => bound' = (bound \/ f.result = "ok")
              /\ f.proc \in Removes /\ f.result = "ok" => bound' = FALSE
<1> DEFINE s == stack["admin"]
           f == s[1]
<1>1. "admin" \in Qvio!Tasks /\ ~Qvio!U!Idle("admin") /\ bound \in BOOLEAN
  BY DEF Qvio!Tasks, Qvio!U!Idle, Stacked
<1>2. /\ Qvio!U!Top("admin") = f /\ ~Qvio!U!Falls("admin")
      /\ Qvio!U!Ends("admin") <=> ~Working(f)
  BY <1>1, Lemma_Top
<1>3. \A x : Qvio!U!Leaves("admin", x) <=> Len(s) = 1 /\ ~Working(f)
        /\ f.result = x
  <2> SUFFICES ASSUME NEW x
               PROVE  Qvio!U!Leaves("admin", x) <=> Len(s) = 1 /\ ~Working(f)
                        /\ f.result = x
    OBVIOUS
  <2>1. Qvio!U!Leaves("admin", x) <=>
          /\ ~Qvio!U!Idle("admin") /\ Len(s) = 1 /\ Qvio!U!Ends("admin")
          /\ ~Qvio!U!Falls("admin") /\ Qvio!U!Top("admin").result = x
    BY DEF Qvio!U!Leaves
  <2> HIDE DEF s, f
  <2> QED
    BY <1>1, <1>2, <2>1
<1> HIDE DEF s, f
<1>4. LET done == Len(s) = 1 /\ ~Working(f) /\ f.result = "ok" IN
      bound' = ((bound \/ (done /\ f.proc \in Probes))
                /\ ~(done /\ f.proc \in Removes))
  BY <1>2, <1>3 DEF Outcome
<1> QED
  BY <1>1, <1>4, Lemma_KindsAre DEF s, f

\* A probe or a removal on its own.
LEMMA Lemma_OnTop ==
  ASSUME Stacked, OnTop(stack["admin"], held, bound), Qvio!U!Run("admin"),
         Outcome,
         "false_success" \notin failed'
  PROVE  Layout(stack'["admin"], held', bound')
<1> DEFINE s == stack["admin"]
           u == stack'["admin"]
           f == s[1]
           g == [f EXCEPT !.at = @ + 1]
           r == Doing(f)
<1>1. "admin" \in Qvio!Tasks
  BY DEF Qvio!Tasks
<1>2. /\ s # << >> /\ f \in Frames /\ Len(s) = 1
      /\ f.proc \in Roots /\ InOrder(f) /\ (bound <=> f.proc \in Removes)
      /\ HeldAre(held, Has(f))
  BY <1>1, Lemma_Run DEF OnTop, Rooted
<1>3. Acquires("admin", f) \/ Refuses("admin", f) \/ Calls("admin", f)
      \/ ReleasesOne("admin", f) \/ Returns("admin", f)
  BY <1>1, Lemma_Run
<1>4. f.phase \in {"get", "put"} /\ f.proc \notin Leaves
      /\ f.proc \in Leaves \cup Roots
  BY <1>2, Lemma_KindsAre DEF Frames
<1>5. Working(f) => bound' = bound
  BY <1>2, Lemma_Outcome
<1>6. ASSUME NEW y \in Frames, TopIs(s, u, y), y.proc = f.proc, InOrder(y),
             bound' = bound,
             HeldAre(held', Has(y))
      PROVE  Layout(u, held', bound')
  <2>1. Len(u) = 1 /\ u[1] = y
    BY <1>2, <1>6 DEF TopIs
  <2>2. u # << >>
    BY <2>1, ListEmpty
  <2> HIDE DEF u, s, f
  <2> QED
    BY <1>2, <1>6, <2>1, <2>2 DEF Layout, OnTop, Rooted
<1>7. r \in Plains \cup {"device_id"} => Group(r) = {}
  BY Lemma_GroupOf
<1>8. Working(f) =>
        r \in IF f.phase = "get"
             THEN Starts \cup {"xdma_device_open", "device_id"}
             ELSE Stops \cup {"xdma_device_close"}
  BY <1>2, <1>4, Lemma_InBody, Lemma_InLabels
<1>9. /\ r \in Qvio!Resources /\ Working(f) => f.phase = "get"
           /\ r = "device_id"
      /\ r \in DOMAIN Qvio!Code /\ Working(f) => r \in Plains \/ r \in Leaves
  <2>1. Leaves \cup Plains \subseteq DOMAIN Qvio!Code
    BY Lemma_PartsAre DEF Plains
  <2> QED
    BY <1>4, <1>8, <2>1, Lemma_PartsAre, Lemma_KindsAre
<1>10. Working(f) => g \in Frames /\ g.proc = f.proc /\ InOrder(g)
  BY <1>2, <1>4, Lemma_InBody, Lemma_InLabels DEF Frames
<1>11. Working(f) /\ Group(r) = {} => Has(g) = Has(f)
  <2>1. Working(f) /\ f.phase = "get" => Has(g) = Has(f) \cup Group(r)
    BY <1>2, <1>4, Lemma_InBody
  <2>2. Working(f) /\ f.phase = "put" => Has(f) = Has(g) \cup Group(r)
    BY <1>2, <1>4, Lemma_InLabels
  <2> HIDE DEF f, g, r
  <2> QED
    BY <1>4, <2>1, <2>2
<1> HIDE DEF g, r
<1>12. CASE Acquires("admin", f)
  <2>1. Working(f) /\ r = "device_id" /\ TopIs(s, u, g) /\ Given(r)
    BY <1>9, <1>12 DEF Acquires, Forward, g, r
  <2>2. \A x \in Parts : held'[x] = held[x]
    BY <2>1, Lemma_PartsAre DEF Given
  <2>3. HeldAre(held', Has(g))
    BY <1>2, <1>7, <1>11, <2>1, <2>2 DEF HeldAre
  <2> QED
    BY <1>5, <1>6, <1>10, <2>1, <2>3
<1>13. CASE Refuses("admin", f)
  <2> DEFINE e == Qvio!U!Cleanup(f)
  <2>1. /\ Working(f) /\ f.phase = "get" /\ TopIs(s, u, e) /\ held' = held
        /\ <<f.proc, r>> \in DOMAIN Qvio!Noted
             => Qvio!Noted[<<f.proc, r>>] \in failed'
    BY <1>13 DEF Refuses, Same, r
  <2>2. ~Qvio!Code[f.proc].get[f.at].quiet
    BY <1>2, <1>4, <2>1, Lemma_InBody DEF r
  <2>3. e \in Frames /\ e.proc = f.proc /\ InOrder(e) /\ Has(e) = Has(f)
    BY <1>2, <1>4, <2>1, <2>2, Lemma_InBody
  <2> HIDE DEF e
  <2> QED
    BY <1>2, <1>5, <1>6, <2>1, <2>3
<1>14. CASE Calls("admin", f)
  <2>1. Working(f) /\ r \in DOMAIN Qvio!Code /\ held' = held
    BY <1>14 DEF Calls, Same, r
  <2>2. CASE Forward("admin") /\ r \in Plains
    <3>1. TopIs(s, u, g) /\ Has(g) = Has(f)
      BY <1>7, <1>11, <2>1, <2>2 DEF Forward, g
    <3> QED
      BY <1>2, <1>5, <1>6, <1>10, <2>1, <3>1
  <2>3. CASE Pushed(s, u, Qvio!U!Frame(r))
    <3> DEFINE y == Qvio!U!Frame(r)
    <3>1. Len(u) = 2 /\ u[1] = y /\ u[2] = f /\ u # << >>
      <4>1. Len(u) = 2 /\ u[1] = y
        BY <1>2, <2>3 DEF Pushed
      <4>2. u[1 + 1] = s[1]
        BY <1>2, <2>3 DEF Pushed
      <4> QED
        BY <4>1, <4>2, ListEmpty
    <3>2. Rooted(u, bound')
      BY <1>2, <1>5, <2>1, <3>1 DEF Rooted
    <3>3. y.proc = r
      BY <2>1, Lemma_Frames
    <3>4. CASE r \in Leaves
      <4>1. y.proc = r /\ InOrder(y)
            /\ Has(y) = IF r \in SetUps THEN {} ELSE Group(r)
        BY <3>4, Lemma_AtStart
      <4>2. (Has(f) \ Group(r)) \cup Has(y) = Has(f)
        <5>1. CASE f.phase = "get"
          <6>1. r \in SetUps
            BY <1>8, <2>1, <3>4, <5>1, Lemma_KindsAre
          <6>2. Group(r) \cap Has(f) = {}
            BY <1>2, <1>4, <2>1, <5>1, Lemma_InBody DEF r
          <6> QED
            BY <4>1, <6>1, <6>2
        <5>2. CASE f.phase = "put"
          <6>1. r \notin SetUps
            BY <1>8, <2>1, <3>4, <5>2, Lemma_KindsAre
          <6>2. Has(f) = Has(g) \cup Group(r)
            BY <1>2, <1>4, <2>1, <5>2, Lemma_InLabels DEF r, g
          <6> QED
            BY <4>1, <6>1, <6>2
        <5> QED
          BY <1>4, <5>1, <5>2
      <4> HIDE DEF y, u, s, f
      <4>3. Inside(u, held', bound')
        BY <1>2, <2>1, <3>1, <3>2, <3>4, <4>1, <4>2 DEF Inside, HeldAre, r
      <4> QED
        BY <4>3 DEF Layout, u
    <3>5. CASE r \in Plains
      <4> HIDE DEF y, u, s, f
      <4>1. AllPlain(u, 1)
        BY <3>1, <3>3, <3>5 DEF AllPlain
      <4>2. Beside(u, held', bound')
        BY <1>2, <2>1, <3>1, <3>2, <3>3, <4>1 DEF Beside, r
      <4> QED
        BY <4>2 DEF Layout, u
    <3> QED
      BY <1>9, <2>1, <3>4, <3>5
  <2> QED
    BY <1>14, <2>2, <2>3 DEF Calls, r
<1>15. CASE ReleasesOne("admin", f)
  <2>1. Working(f) /\ f.phase = "get" /\ Qvio!Code[f.proc].get[f.at].drop
    BY <1>9, <1>15 DEF ReleasesOne, r
  <2> QED
    BY <1>2, <1>4, <2>1, Lemma_InBody
<1>16. CASE Returns("admin", f)
  <2>1. ~Working(f) /\ held' = held /\ u = << >>
    BY <1>2, <1>16 DEF Returns, Same
  <2>2. f.proc \in Probes => bound' = (bound \/ f.result = "ok")
    BY <1>2, <2>1, Lemma_Outcome
  <2>3. f.proc \in Removes /\ f.result = "ok" => bound' = FALSE
    BY <1>2, <2>1, Lemma_Outcome
  <2>4. Has(f) = IF bound' THEN Parts ELSE {}
    <3>1. IF f.phase = "get"
          THEN f.proc \in SetUps /\ f.result = "ok" /\ Has(f) = Parts
          ELSE Has(f) = {} /\ (f.result = "err" <=> f.proc \in SetUps)
      BY <1>2, <1>4, <2>1, Lemma_AtEnd, Lemma_GroupOf
    <3>2. f.result \in {"ok", "err"}
      BY <1>2 DEF Frames
    <3> HIDE DEF f
    <3>3. f.proc \in Probes \/ f.proc \in Removes
      BY <1>2, Lemma_KindsAre
    <3>4. CASE f.proc \in Probes
      <4>1. f.proc \in SetUps /\ f.proc \notin Removes
        BY <3>4, Lemma_KindsAre
      <4>2. ~bound
        BY <1>2, <4>1
      <4> QED
        BY <2>2, <3>1, <3>2, <3>4, <4>1, <4>2
    <3>5. CASE f.proc \in Removes
      <4>1. f.proc \notin SetUps
        BY <3>5, Lemma_KindsAre
      <4> QED
        BY <2>3, <3>1, <3>2, <3>5, <4>1
    <3> QED
      BY <3>3, <3>4, <3>5
  <2>5. Elsewhere(u, held', bound')
    BY <1>2, <2>1, <2>4, ListEmpty DEF Elsewhere, AllPlain
  <2> QED
    BY <2>5 DEF Layout
<1> QED
  BY <1>3, <1>12, <1>13, <1>14, <1>15, <1>16

\* What the outermost function becomes when the one it called returns.
LEMMA Lemma_Resumed ==
  ASSUME NEW f \in Frames, f.proc \in Roots, InOrder(f), Working(f),
         NEW result \in {"ok", "err"}
  PROVE  LET r == Doing(f)
             x == IF result = "err" /\ f.phase = "get" THEN Qvio!U!Cleanup(f)
                                                       ELSE Qvio!U!Onward(f) IN
         r \in DOMAIN Qvio!Code =>
           /\ x \in Frames /\ x.proc = f.proc /\ InOrder(x)
           /\ f.phase = "get" =>
                Has(x) = IF result = "ok" THEN Has(f) \cup Group(r)
                         ELSE Has(f) \ Group(r)
           /\ f.phase = "put" => Has(x) = Has(f) \ Group(r)
<1> DEFINE r == Doing(f)
           g == [f EXCEPT !.at = @ + 1]
<1> SUFFICES ASSUME r \in DOMAIN Qvio!Code
             PROVE  LET x == IF result = "err" /\ f.phase = "get"
                              THEN Qvio!U!Cleanup(f)
                                                       ELSE Qvio!U!Onward(f) IN
                    /\ x \in Frames /\ x.proc = f.proc /\ InOrder(x)
                    /\ f.phase = "get" =>
                         Has(x) = IF result = "ok" THEN Has(f) \cup Group(r)
                                  ELSE Has(f) \ Group(r)
                    /\ f.phase = "put" => Has(x) = Has(f) \ Group(r)
  OBVIOUS
<1>1. f.phase \in {"get", "put"} /\ f.proc \in Leaves \cup Roots
  BY DEF Frames
<1>2. Qvio!U!Onward(f) = g /\ g \in Frames /\ g.proc = f.proc
  BY Lemma_Frames
<1>3. r \notin Parts /\ r # "device_id"
  BY Lemma_PartsAre, Lemma_KindsAre
<1> HIDE DEF g, r
<1>4. CASE f.phase = "get"
  <2>1. /\ InOrder(g) /\ Has(g) = Has(f) \cup Group(r)
        /\ Group(r) \cap Has(f) = {}
    BY <1>1, <1>4, Lemma_InBody DEF g, r
  <2>2. ~Qvio!Code[f.proc].get[f.at].quiet
    BY <1>1, <1>3, <1>4, Lemma_InBody DEF r
  <2>3. LET e == Qvio!U!Cleanup(f) IN
        e \in Frames /\ e.proc = f.proc /\ InOrder(e) /\ Has(e) = Has(f)
    BY <1>1, <1>4, <2>2, Lemma_InBody
  <2>4. CASE result = "ok"
    BY <1>2, <1>4, <2>1, <2>4
  <2>5. CASE result = "err"
    <3>1. Has(f) = Has(f) \ Group(r)
      BY <2>1
    <3> QED
      BY <1>4, <2>3, <2>5, <3>1
  <2> QED
    BY <2>4, <2>5
<1>5. CASE f.phase = "put"
  <2>1. /\ InOrder(g) /\ Has(f) = Has(g) \cup Group(r)
        /\ Group(r) \cap Has(g) = {}
    BY <1>1, <1>5, Lemma_InLabels DEF g, r
  <2>2. Has(g) = Has(f) \ Group(r)
    BY <2>1
  <2> QED
    BY <1>2, <1>5, <2>1, <2>2
<1> QED
  BY <1>1, <1>4, <1>5

\* A function that handles parts, called by a probe or a removal.
LEMMA Lemma_Inside ==
  ASSUME Stacked, Inside(stack["admin"], held, bound), Qvio!U!Run("admin"),
         Outcome,
         "false_success" \notin failed'
  PROVE  Layout(stack'["admin"], held', bound')
<1> DEFINE s == stack["admin"]
           u == stack'["admin"]
           f == s[2]
           g == s[1]
           h == [g EXCEPT !.at = @ + 1]
           r == Doing(g)
           Rest == Has(f) \ Group(g.proc)
<1>1. "admin" \in Qvio!Tasks /\ s \in Seq(Frames)
  BY DEF Qvio!Tasks, Stacked
<1>2. /\ s # << >> /\ g \in Frames /\ f \in Frames /\ Len(s) = 2
      /\ f.proc \in Roots /\ InOrder(f) /\ (bound <=> f.proc \in Removes)
      /\ Working(f) /\ Doing(f) = g.proc /\ g.proc \in Leaves /\ InOrder(g)
      /\ HeldAre(held, Rest \cup Has(g))
  <2>1. s # << >> /\ Len(s) = 2
    BY DEF Inside, Rooted
  <2>2. g \in Frames /\ f \in Frames
    BY <1>1, <2>1, StackEnd
  <2> QED
    BY <2>1, <2>2 DEF Inside, Rooted
<1>3. Acquires("admin", g) \/ Refuses("admin", g) \/ Calls("admin", g)
      \/ ReleasesOne("admin", g) \/ Returns("admin", g)
  BY <1>1, Lemma_Run
<1>4. g.phase \in {"get", "put"} /\ g.proc \in Leaves \cup Roots
  BY <1>2 DEF Frames
<1>5. bound' = bound
  BY <1>2, Lemma_Outcome
<1>6. ASSUME NEW y \in Frames, TopIs(s, u, y), y.proc = g.proc, InOrder(y),
             HeldAre(held', Rest \cup Has(y))
      PROVE  Layout(u, held', bound')
  <2>1. Len(u) = 2 /\ u[1] = y /\ u[2] = f /\ u # << >>
    BY <1>2, <1>6, ListEmpty DEF TopIs
  <2> HIDE DEF u, s, f, g
  <2>2. Inside(u, held', bound')
    BY <1>2, <1>5, <1>6, <2>1 DEF Inside, Rooted
  <2> QED
    BY <2>2 DEF Layout
<1>7. Working(g) => /\ r \in Parts \cup {"vb2_queue"}
                    /\ Group(r) \subseteq Group(g.proc)
                    /\ h \in Frames /\ h.proc = g.proc /\ InOrder(h)
  <2>1. Working(g) /\ g.phase = "get" => /\ r \in Parts \cup {"vb2_queue"}
                                         /\ InOrder(h)
                                         /\ Group(r) \subseteq Group(g.proc)
                                         /\ h \in Frames
    BY <1>2, <1>4, Lemma_InBody
  <2>2. Working(g) /\ g.phase = "put" => /\ r \in Parts \cup {"vb2_queue"}
                                         /\ InOrder(h)
                                         /\ Group(r) \subseteq Group(g.proc)
                                         /\ h \in Frames
    BY <1>2, <1>4, Lemma_InLabels
  <2>3. h.proc = g.proc
    BY <1>2 DEF Frames
  <2> QED
    BY <1>4, <2>1, <2>2, <2>3
<1>8. r \in Parts => Group(r) = {r}
  BY Lemma_GroupOf
<1> HIDE DEF h, r, Rest
<1>9. CASE Acquires("admin", g)
  <2>1. Working(g) /\ g.phase = "get" /\ TopIs(s, u, h) /\ Given(r)
    BY <1>9 DEF Acquires, Forward, h, r
  <2>2. Has(h) = Has(g) \cup Group(r) /\ Group(r) \cap Has(g) = {}
    BY <1>2, <1>4, <2>1, Lemma_InBody DEF h, r
  <2>3. HeldAre(held', Rest \cup Has(h))
    <3>1. CASE r \in Parts
      <4>1. r \notin Rest \cup Has(g) /\ Has(h) = Has(g) \cup {r}
        BY <1>7, <1>8, <2>1, <2>2, <3>1 DEF Rest
      <4> HIDE DEF g
      <4> QED
        BY <1>2, <2>1, <4>1 DEF HeldAre, Given
    <3>2. CASE r = "vb2_queue" /\ r \notin Parts
      <4>1. Group(r) = {}
        BY <3>2, Lemma_Groups
      <4>2. Has(h) = Has(g)
        BY <2>2, <4>1
      <4> QED
        BY <1>2, <2>1, <3>2, <4>2 DEF HeldAre, Given
    <3> QED
      BY <1>7, <2>1, <3>1, <3>2
  <2> QED
    BY <1>6, <1>7, <2>1, <2>3
<1>10. CASE Refuses("admin", g)
  <2> DEFINE e == Qvio!U!Cleanup(g)
  <2>1. /\ Working(g) /\ g.phase = "get" /\ TopIs(s, u, e) /\ held' = held
        /\ <<g.proc, r>> \in DOMAIN Qvio!Noted
             => Qvio!Noted[<<g.proc, r>>] \in failed'
    BY <1>10 DEF Refuses, Same, r
  <2>2. ~Qvio!Code[g.proc].get[g.at].quiet
    BY <1>2, <1>4, <2>1, Lemma_InBody DEF r
  <2>3. e \in Frames /\ e.proc = g.proc /\ InOrder(e) /\ Has(e) = Has(g)
    BY <1>2, <1>4, <2>1, <2>2, Lemma_InBody
  <2> HIDE DEF e
  <2> QED
    BY <1>2, <1>6, <2>1, <2>3
<1>11. CASE Calls("admin", g)
  <2>1. Working(g) /\ r \in DOMAIN Qvio!Code
    BY <1>11 DEF Calls, r
  <2> QED
    BY <1>7, <2>1, Lemma_PartsAre, Lemma_KindsAre
<1>12. CASE ReleasesOne("admin", g)
  <2>1. Working(g) /\ TopIs(s, u, h) /\ Taken(r)
        /\ (g.phase = "get" => Qvio!Code[g.proc].get[g.at].drop)
    BY <1>12 DEF ReleasesOne, Forward, h, r
  <2>2. g.phase = "put"
    BY <1>2, <1>4, <2>1, Lemma_InBody
  <2>3. Has(g) = Has(h) \cup Group(r) /\ Group(r) \cap Has(h) = {}
        /\ r \in Parts
    BY <1>2, <1>4, <2>1, <2>2, Lemma_InLabels DEF h, r
  <2>4. HeldAre(held', Rest \cup Has(h))
    <3>1. /\ r \in Has(g) /\ Rest \cup Has(h) = (Rest \cup Has(g)) \ {r}
      BY <1>7, <1>8, <2>1, <2>3 DEF Rest
    <3> HIDE DEF g
    <3> QED
      BY <1>2, <2>1, <3>1 DEF HeldAre, Taken
  <2> QED
    BY <1>6, <1>7, <2>1, <2>4
<1>13. CASE Returns("admin", g)
  <2> DEFINE x == IF g.result = "err" /\ f.phase = "get" THEN Qvio!U!Cleanup(f)
                                                       ELSE Qvio!U!Onward(f)
  <2>1. ~Working(g) /\ held' = held /\ Popped(s, u, x)
    BY <1>2, <1>13 DEF Returns, Same
  <2>2. g.result \in {"ok", "err"} /\ g.proc \in DOMAIN Qvio!Code
        /\ f.phase \in {"get", "put"}
    BY <1>2 DEF Frames
  <2>3. /\ x \in Frames /\ x.proc = f.proc /\ InOrder(x)
        /\ f.phase = "get" =>
             Has(x) = IF g.result = "ok" THEN Has(f) \cup Group(g.proc)
                      ELSE Has(f) \ Group(g.proc)
        /\ f.phase = "put" => Has(x) = Has(f) \ Group(g.proc)
    BY <1>2, <2>2, Lemma_Resumed
  <2>4. IF g.phase = "get"
        THEN g.proc \in SetUps /\ g.result = "ok" /\ Has(g) = Group(g.proc)
        ELSE Has(g) = {} /\ (g.result = "err" <=> g.proc \in SetUps)
    BY <1>2, <1>4, <2>1, Lemma_AtEnd
  <2>5. g.proc \in SetUps <=> f.phase = "get"
    <3>1. f.proc \in Leaves \cup Roots /\ f.proc \notin Leaves
      BY <1>2, Lemma_KindsAre
    <3>2. f.phase = "get" => g.proc \in Starts
      <4>1. f.phase = "get"
              => g.proc \in Starts \cup {"xdma_device_open", "device_id"}
        BY <1>2, <3>1, Lemma_InBody
      <4> QED
        BY <1>2, <4>1, Lemma_KindsAre
    <3>3. f.phase = "put" => g.proc \in Stops
      <4>1. ASSUME f.phase = "put"
            PROVE  Doing(f) \in Stops \cup {"xdma_device_close"}
        BY <1>2, <3>1, <4>1, Lemma_InLabels
      <4> QED
        BY <1>2, <4>1, Lemma_KindsAre
    <3> QED
      BY <2>2, <3>2, <3>3, Lemma_KindsAre
  <2> HIDE DEF x
  <2>6. Has(x) = Rest \cup Has(g)
    BY <1>4, <2>2, <2>3, <2>4, <2>5 DEF Rest
  <2>7. Len(u) = 1 /\ u[1] = x /\ u # << >>
    BY <1>2, <2>1, ListEmpty DEF Popped
  <2> HIDE DEF u, s, f, g
  <2>8. OnTop(u, held', bound')
    BY <1>2, <1>5, <2>1, <2>3, <2>6, <2>7 DEF OnTop, Rooted
  <2> QED
    BY <2>8 DEF Layout, u
<1> QED
  BY <1>3, <1>9, <1>10, <1>11, <1>12, <1>13

\* Another function, called by a probe or a removal.
LEMMA Lemma_Beside ==
  ASSUME Stacked, Beside(stack["admin"], held, bound), Qvio!U!Run("admin"),
         Outcome
  PROVE  Layout(stack'["admin"], held', bound')
<1> DEFINE s == stack["admin"]
           u == stack'["admin"]
           n == Len(s)
           f == s[n]
           g == s[1]
<1>1. "admin" \in Qvio!Tasks /\ s \in Seq(Frames) /\ u \in Seq(Frames)
      /\ s # << >>
  BY Lemma_Run DEF Qvio!Tasks, Stacked
<1>2. /\ n \in Nat /\ n >= 2 /\ f \in Frames /\ f.proc \in Roots /\ InOrder(f)
      /\ bound <=> f.proc \in Removes
      /\ Working(f) /\ Doing(f) = s[n - 1].proc /\ HeldAre(held, Has(f))
      /\ \A i \in 1 .. n : s[i] \in Frames
      /\ \A i \in 1 .. n - 1 : s[i].proc \in Plains
  <2>1. n \in Nat /\ n >= 2 /\ \A i \in 1 .. n : s[i] \in Frames
    BY <1>1, StackEnd DEF Beside
  <2>2. f \in Frames
    BY <2>1
  <2> QED
    BY <2>1, <2>2 DEF Beside, Rooted, AllPlain
<1>3. g.proc \in Plains
  BY <1>2
<1>4. bound' = bound
  BY <1>1, <1>2, Lemma_Outcome
<1>5. /\ \A x \in Parts : held'[x] = held[x]
      /\ \/ \E y \in Frames : TopIs(s, u, y) /\ y.proc = s[1].proc
         \/ \E y \in Frames : Pushed(s, u, y) /\ y.proc \in Plains
         \/ Returns("admin", s[1])
  BY <1>1, <1>3, Lemma_PlainStep
<1>6. HeldAre(held', Has(f))
  BY <1>2, <1>5 DEF HeldAre
<1>7. ASSUME Len(u) \in Nat, Len(u) >= 2, u[Len(u)] = f,
             u[Len(u) - 1].proc = s[n - 1].proc,
             \A i \in 1 .. Len(u) - 1 : u[i].proc \in Plains
      PROVE  Layout(u, held', bound')
  <2>1. u # << >>
    BY <1>7, ListEmpty
  <2> HIDE DEF u, s, f, g, n
  <2>2. Beside(u, held', bound')
    BY <1>2, <1>4, <1>6, <1>7, <2>1 DEF Beside, Rooted, AllPlain
  <2> QED
    BY <2>2 DEF Layout
<1>8. CASE \E y \in Frames : TopIs(s, u, y) /\ y.proc = s[1].proc
  <2> PICK y \in Frames : TopIs(s, u, y) /\ y.proc = s[1].proc
    BY <1>8
  <2>1. Len(u) = n /\ u[1] = y /\ \A i \in 2 .. n : u[i] = s[i]
    BY DEF TopIs
  <2> HIDE DEF u, s, n
  <2>2. \A i \in 1 .. n : u[i].proc = s[i].proc
    <3> SUFFICES ASSUME NEW i \in 1 .. n PROVE u[i].proc = s[i].proc
      OBVIOUS
    <3>1. i = 1 \/ i \in 2 .. n
      BY <1>2
    <3> QED
      BY <2>1, <3>1
  <2>3. n \in 2 .. n /\ n - 1 \in 1 .. n
    BY <1>2
  <2>4. \A i \in 1 .. n - 1 : u[i].proc \in Plains
    BY <1>2, <2>2
  <2> QED
    BY <1>2, <1>7, <2>1, <2>2, <2>3, <2>4 DEF u
<1>9. CASE \E y \in Frames : Pushed(s, u, y) /\ y.proc \in Plains
  <2> PICK y \in Frames : Pushed(s, u, y) /\ y.proc \in Plains
    BY <1>9
  <2>1. Len(u) = n + 1 /\ u[1] = y /\ \A i \in 1 .. n : u[i + 1] = s[i]
    BY DEF Pushed
  <2> HIDE DEF u, s, n
  <2>2. u[n + 1] = s[n] /\ u[n] = s[n - 1]
    <3>1. n \in 1 .. n /\ n - 1 \in 1 .. n /\ (n - 1) + 1 = n
      BY <1>2
    <3> QED
      BY <2>1, <3>1
  <2>3. \A i \in 1 .. n : u[i].proc \in Plains
    <3> SUFFICES ASSUME NEW i \in 1 .. n PROVE u[i].proc \in Plains
      OBVIOUS
    <3>1. i = 1
            \/ (i - 1 \in 1 .. n /\ i - 1 \in 1 .. n - 1 /\ (i - 1) + 1 = i)
      BY <1>2
    <3> QED
      BY <1>2, <2>1, <3>1
  <2>4. Len(u) \in Nat /\ Len(u) >= 2 /\ Len(u) - 1 = n
    BY <1>2, <2>1
  <2> QED
    BY <1>7, <2>1, <2>2, <2>3, <2>4 DEF u
<1>10. CASE Returns("admin", s[1])
  <2> DEFINE k == s[2]
             x == IF g.result = "err" /\ k.phase = "get" THEN Qvio!U!Cleanup(k)
                                                        ELSE Qvio!U!Onward(k)
  <2>1. Popped(s, u, x) /\ k \in Frames
    BY <1>2, <1>10 DEF Returns
  <2>2. x \in Frames /\ x.proc = k.proc
    BY <2>1, Lemma_Frames
  <2>3. Len(u) = n - 1 /\ u[1] = x /\ \A i \in 3 .. n : u[i - 1] = s[i]
    BY <2>1 DEF Popped
  <2>4. CASE n = 2
    <3>1. k = f /\ Doing(f) = g.proc /\ g.proc \in DOMAIN Qvio!Code
      BY <1>2, <1>3, <2>4 DEF Plains
    <3>2. Group(g.proc) = {} /\ g.result \in {"ok", "err"}
          /\ f.phase \in {"get", "put"}
      BY <1>2, <1>3, Lemma_GroupOf DEF Frames
    <3>3. InOrder(x) /\ Has(x) = Has(f)
      BY <1>2, <3>1, <3>2, Lemma_Resumed
    <3>4. Len(u) = 1 /\ u # << >>
      BY <2>3, <2>4, ListEmpty
    <3> HIDE DEF x, u, s, f, g, n, k
    <3>5. OnTop(u, held', bound')
      BY <1>2, <1>4, <1>6, <2>2, <2>3, <3>1, <3>3, <3>4 DEF OnTop, Rooted
    <3> QED
      BY <3>5 DEF Layout, u
  <2>5. CASE n # 2
    <3> HIDE DEF x, u, s, n, k
    <3>1. n \in 3 .. n /\ Len(u) \in Nat /\ Len(u) >= 2 /\ Len(u) = n - 1
      BY <1>2, <2>3, <2>5
    <3>2. u[n - 1] = s[n]
      BY <2>3, <3>1
    <3>3. \A i \in 1 .. n - 2 : u[i].proc = s[i + 1].proc
      <4> SUFFICES ASSUME NEW i \in 1 .. n - 2 PROVE u[i].proc = s[i + 1].proc
        OBVIOUS
      <4>1. CASE i = 1
        BY <2>2, <2>3, <4>1 DEF k
      <4>2. CASE i # 1
        <5>1. i + 1 \in 3 .. n /\ (i + 1) - 1 = i
          BY <1>2, <4>2
        <5> QED
          BY <2>3, <5>1
      <4> QED
        BY <4>1, <4>2
    <3>4. u[n - 2].proc = s[n - 1].proc
      <4>1. n - 2 \in 1 .. n - 2 /\ (n - 2) + 1 = n - 1
        BY <1>2, <2>5
      <4> QED
        BY <3>3, <4>1
    <3>5. \A i \in 1 .. n - 2 : u[i].proc \in Plains
      <4> SUFFICES ASSUME NEW i \in 1 .. n - 2 PROVE u[i].proc \in Plains
        OBVIOUS
      <4>1. i + 1 \in 1 .. n - 1
        BY <1>2
      <4> QED
        BY <1>2, <3>3, <4>1
    <3>6. Len(u) - 1 = n - 2
      BY <1>2, <3>1
    <3> QED
      BY <1>7, <3>1, <3>2, <3>4, <3>5, <3>6 DEF u
  <2> QED
    BY <2>4, <2>5
<1> QED
  BY <1>5, <1>8, <1>9, <1>10

\* Nothing is held and nothing runs at first.
LEMMA Lemma_PartsInit == Qvio!Init => PartsInv
<1> SUFFICES ASSUME Qvio!Init PROVE PartsInv
  OBVIOUS
<1>1. Parts \subseteq Qvio!Resources
  BY Lemma_PartsAre
<1>2. absent \subseteq Qvio!Pci \cup Qvio!Platform
  BY DEF Qvio!Init, Qvio!Machines, Qvio!Pci, Qvio!Irqs
<1>3. stack = [t \in Qvio!Tasks |-> << >>] /\ "user" \in Qvio!Tasks
      /\ "admin" \in Qvio!Tasks
      /\ bound = FALSE /\ held = [r \in Qvio!Resources |-> 0]
  BY DEF Qvio!Init, Qvio!Tasks
<1>4. Stacked
  <2>1. stack \in [Qvio!Tasks -> Seq(Frames)]
        /\ held \in [Qvio!Resources -> Nat]
    BY <1>3, ListEmpty
  <2>2. Len(stack["user"]) = 0
    BY <1>3, ListEmpty
  <2>3. \A i \in 1 .. Len(stack["user"]) : stack["user"][i].proc \in Plains
    BY <2>2
  <2>4. bound \in BOOLEAN
    BY <1>3
  <2> QED
    BY <1>2, <2>1, <2>3, <2>4 DEF Stacked
<1>5. Elsewhere(stack["admin"], held, bound)
  BY <1>1, <1>3, ListEmpty DEF Elsewhere, AllPlain, HeldAre
<1> QED
  BY <1>4, <1>5 DEF PartsInv, Layout

\* A task that starts a function.
LEMMA Lemma_Starts ==
  ASSUME PartsInv, NEW t \in Qvio!Tasks, NEW p \in DOMAIN Qvio!Code,
         Qvio!Begin(t, p)
  PROVE  LET x == Qvio!U!Frame(p) IN
         /\ stack[t] = << >> /\ stack'[t] = <<x>>
         /\ \A u \in Qvio!Tasks \ {t} : stack'[u] = stack[u]
         /\ x \in Frames /\ x.proc = p
         /\ stack' \in [Qvio!Tasks -> Seq(Frames)] /\ held' = held
         /\ absent' = absent /\ failed' = failed
<1>1. Qvio!U!Frame(p) \in Frames /\ Qvio!U!Frame(p).proc = p
  BY Lemma_Frames
<1>2. <<Qvio!U!Frame(p)>> \in Seq(Frames)
  BY <1>1
<1>3. stack \in [Qvio!Tasks -> Seq(Frames)]
  BY DEF PartsInv, Stacked
<1>4. stack' = [stack EXCEPT ![t] = <<Qvio!U!Frame(p)>>] /\ stack[t] = << >>
      /\ held' = held /\ absent' = absent /\ failed' = failed
  BY DEF Qvio!Begin, Qvio!U!Begin, Qvio!U!Idle
<1> QED
  BY <1>1, <1>2, <1>3, <1>4

\* A function that has to do with no part starts.
LEMMA Lemma_StartsPlain ==
  ASSUME PartsInv, NEW t \in Qvio!Tasks, NEW p \in Plains, Qvio!Begin(t, p),
         bound' = bound
  PROVE  PartsInv'
<1> DEFINE x == Qvio!U!Frame(p)
<1>1. p \in DOMAIN Qvio!Code
  BY DEF Plains
<1>2. /\ stack[t] = << >> /\ stack'[t] = <<x>> /\ x.proc = p
      /\ \A u \in Qvio!Tasks \ {t} : stack'[u] = stack[u]
      /\ stack' \in [Qvio!Tasks -> Seq(Frames)] /\ held' = held
      /\ absent' = absent /\ failed' = failed
  BY <1>1, Lemma_Starts
<1> HIDE DEF x
<1>3. Len(<<x>>) = 1 /\ \A i \in 1 .. 1 : (<<x>>[i]).proc \in Plains
  BY <1>2
<1>4. Qvio!Tasks = {"admin", "user"}
  BY DEF Qvio!Tasks
<1>5. Stacked'
  BY <1>2, <1>3, <1>4 DEF Stacked, PartsInv
<1>6. ASSUME "false_success" \notin failed', t = "admin"
      PROVE  Layout(stack'["admin"], held', bound')
  <2>1. Layout(<< >>, held, bound)
    BY <1>2, <1>6 DEF PartsInv
  <2>2. HeldAre(held, IF bound THEN Parts ELSE {})
    BY <2>1, ListEmpty DEF Layout, Elsewhere, OnTop, Inside, Beside, Rooted
  <2>3. AllPlain(stack'["admin"], Len(stack'["admin"]))
    BY <1>2, <1>3, <1>6 DEF AllPlain
  <2>4. Elsewhere(stack'["admin"], held', bound')
    BY <1>2, <2>2, <2>3 DEF Elsewhere
  <2> QED
    BY <2>4 DEF Layout
<1>7. ASSUME "false_success" \notin failed', t = "user"
      PROVE  Layout(stack'["admin"], held', bound')
  BY <1>2, <1>4, <1>7 DEF PartsInv
<1> QED
  BY <1>4, <1>5, <1>6, <1>7 DEF PartsInv

\* The driver core probes a device it has not bound, or removes one it has.
LEMMA Lemma_StartsRoot ==
  ASSUME PartsInv, NEW p \in Roots, Qvio!Begin("admin", p), bound' = bound,
         bound <=> p \in Removes
  PROVE  PartsInv'
<1> DEFINE x == Qvio!U!Frame(p)
<1>1. p \in DOMAIN Qvio!Code /\ "admin" \in Qvio!Tasks
      /\ Qvio!Tasks = {"admin", "user"}
  BY Lemma_PartsAre DEF Qvio!Tasks
<1>2. /\ stack["admin"] = << >> /\ stack'["admin"] = <<x>> /\ x.proc = p
      /\ \A u \in Qvio!Tasks \ {"admin"} : stack'[u] = stack[u]
      /\ stack' \in [Qvio!Tasks -> Seq(Frames)] /\ held' = held
      /\ absent' = absent /\ failed' = failed
  BY <1>1, Lemma_Starts
<1>3. InOrder(x) /\ Has(x) = IF p \in SetUps THEN {} ELSE Parts
  BY Lemma_AtStart, Lemma_GroupOf
<1> HIDE DEF x
<1>4. Len(<<x>>) = 1 /\ <<x>>[1] = x /\ <<x>> # << >>
  OBVIOUS
<1>5. Stacked'
  BY <1>1, <1>2 DEF Stacked, PartsInv
<1>6. ASSUME "false_success" \notin failed'
      PROVE  Layout(stack'["admin"], held', bound')
  <2>1. Layout(<< >>, held, bound)
    BY <1>2, <1>6 DEF PartsInv
  <2>2. HeldAre(held, IF bound THEN Parts ELSE {})
    BY <2>1, ListEmpty DEF Layout, Elsewhere, OnTop, Inside, Beside, Rooted
  <2>3. p \in SetUps <=> p \notin Removes
    BY Lemma_KindsAre
  <2>4. Has(x) = IF bound THEN Parts ELSE {}
    BY <1>3, <2>3
  <2>5. OnTop(stack'["admin"], held', bound')
    BY <1>2, <1>3, <1>4, <2>2, <2>4 DEF OnTop, Rooted
  <2> QED
    BY <2>5 DEF Layout
<1> QED
  BY <1>5, <1>6 DEF PartsInv

\* The administrator's functions go on.
LEMMA Lemma_RunAdmin ==
  ASSUME PartsInv, Qvio!RunAdmin
  PROVE  PartsInv'
<1>1. "admin" \in Qvio!Tasks /\ Qvio!Tasks = {"admin", "user"} /\ Stacked
  BY DEF Qvio!Tasks, PartsInv
<1>2. Qvio!U!Run("admin") /\ absent' = absent /\ Outcome
  BY DEF Qvio!RunAdmin, Outcome, Probes, Removes
<1>3. /\ stack["admin"] # << >>
      /\ stack' \in [Qvio!Tasks -> Seq(Frames)]
      /\ stack'["user"] = stack["user"]
      /\ held' \in [Qvio!Resources -> Nat] /\ failed \subseteq failed'
  BY <1>1, <1>2, Lemma_Run
<1>4. bound' \in BOOLEAN
  BY <1>1, <1>2 DEF Outcome
<1>5. Stacked'
  BY <1>1, <1>2, <1>3, <1>4 DEF Stacked
<1>6. ASSUME "false_success" \notin failed'
      PROVE  Layout(stack'["admin"], held', bound')
  <2>1. Layout(stack["admin"], held, bound)
    BY <1>3, <1>6 DEF PartsInv
  <2>2. CASE Elsewhere(stack["admin"], held, bound)
    <3>1. /\ AllPlain(stack'["admin"], Len(stack'["admin"]))
          /\ \A x \in Parts : held'[x] = held[x]
      BY <1>1, <1>2, <2>2, Lemma_AllPlain DEF Elsewhere
    <3>2. stack["admin"][1].proc \notin Roots
      <4>1. Len(stack["admin"]) \in Nat \ {0}
        BY <1>1, <1>2, Lemma_Run
      <4> QED
        BY <2>2, <4>1 DEF Elsewhere, AllPlain, Plains
    <3>3. bound' = bound
      BY <1>1, <1>2, <1>3, <3>2, Lemma_Outcome
    <3>4. Elsewhere(stack'["admin"], held', bound')
      BY <2>2, <3>1, <3>3 DEF Elsewhere, HeldAre
    <3> QED
      BY <3>4 DEF Layout
  <2> QED
    BY <1>1, <1>2, <1>6, <2>1, <2>2, Lemma_OnTop, Lemma_Inside, Lemma_Beside
       DEF Layout
<1> QED
  BY <1>5, <1>6 DEF PartsInv

\* The functions of the ioctls go on beside them.
LEMMA Lemma_RunUser ==
  ASSUME PartsInv, Qvio!RunUser
  PROVE  PartsInv'
<1>1. "user" \in Qvio!Tasks /\ Qvio!Tasks = {"admin", "user"} /\ Stacked
  BY DEF Qvio!Tasks, PartsInv
<1>2. Qvio!U!Run("user") /\ absent' = absent /\ bound' = bound
  BY DEF Qvio!RunUser, Qvio!userVars
<1>3. /\ stack' \in [Qvio!Tasks -> Seq(Frames)]
      /\ stack'["admin"] = stack["admin"]
      /\ held' \in [Qvio!Resources -> Nat] /\ failed \subseteq failed'
  BY <1>1, <1>2, Lemma_Run
<1>4. /\ AllPlain(stack'["user"], Len(stack'["user"]))
      /\ \A x \in Parts : held'[x] = held[x]
  BY <1>1, <1>2, Lemma_AllPlain DEF AllPlain, Stacked
<1>5. Stacked'
  BY <1>1, <1>2, <1>3, <1>4 DEF Stacked, AllPlain
<1>6. Layout(stack["admin"], held, bound)
        => Layout(stack'["admin"], held', bound')
  BY <1>2, <1>3, <1>4 DEF Layout, Elsewhere, OnTop, Inside, Beside, HeldAre
<1> QED
  BY <1>3, <1>5, <1>6 DEF PartsInv

\* Every step keeps the invariant.
LEMMA Lemma_PartsStep == PartsInv /\ [Qvio!Next]_(Qvio!vars) => PartsInv'
<1> SUFFICES ASSUME PartsInv, [Qvio!Next]_(Qvio!vars) PROVE PartsInv'
  OBVIOUS
<1>1. "admin" \in Qvio!Tasks /\ "user" \in Qvio!Tasks
  BY DEF Qvio!Tasks
<1>2. /\ {"qvio_mod_init", "qvio_mod_exit"} \subseteq Plains
      /\ DOMAIN Qvio!After \subseteq Plains
      /\ {"xdma_device_offline", "xdma_device_online"} \subseteq Plains
  BY DEF Qvio!After, Plains, Qvio!Code, Leaves, Roots, Starts, Stops, Probes,
     Removes
<1>3. CASE Qvio!Insmod
  BY <1>1, <1>2, <1>3, Lemma_StartsPlain DEF Qvio!Insmod
<1>4. CASE Qvio!Rmmod
  BY <1>1, <1>2, <1>4, Lemma_StartsPlain DEF Qvio!Rmmod
<1>5. CASE Qvio!Bind
  <2>1. ~bound /\ bound' = bound
    BY <1>5 DEF Qvio!Bind
  <2>2. \E p \in Probes : Qvio!Begin("admin", p)
    BY <1>5 DEF Qvio!Bind, Probes
  <2> QED
    BY <2>1, <2>2, Lemma_StartsRoot, Lemma_KindsAre
<1>6. CASE Qvio!Unbind
  <2>1. bound /\ bound' = bound
    BY <1>6 DEF Qvio!Unbind
  <2>2. \E p \in Removes : Qvio!Begin("admin", p)
    BY <1>6 DEF Qvio!Unbind, Removes
  <2> QED
    BY <2>1, <2>2, Lemma_StartsRoot, Lemma_KindsAre
<1>7. ASSUME NEW t \in Qvio!Tasks, NEW p \in Plains, Qvio!Switch(t, p)
      PROVE  PartsInv'
  BY <1>7, Lemma_StartsPlain DEF Qvio!Switch
<1>8. CASE Qvio!OpenFile \/ Qvio!CloseFile \/ UNCHANGED Qvio!vars
  BY <1>8 DEF Qvio!OpenFile, Qvio!CloseFile, Qvio!vars, PartsInv, Stacked
<1>9. CASE Qvio!RunAdmin
  BY <1>9, Lemma_RunAdmin
<1>10. CASE Qvio!RunUser
  BY <1>10, Lemma_RunUser
<1> QED
  BY <1>1, <1>2, <1>3, <1>4, <1>5, <1>6, <1>7, <1>8, <1>9, <1>10 DEF Qvio!Next

\* It implies the property.
LEMMA Lemma_AllOrNothing == PartsInv => Qvio!AllOrNothing
<1> SUFFICES ASSUME PartsInv, stack["admin"] = << >>,
                    "false_success" \notin failed
             PROVE  \A r \in Parts : (held[r] > 0) <=> bound
  BY DEF Qvio!AllOrNothing, Qvio!U!Idle, Parts
<1>1. HeldAre(held, IF bound THEN Parts ELSE {})
  BY ListEmpty DEF PartsInv, Layout, Elsewhere, OnTop, Inside, Beside, Rooted
<1> QED
  BY <1>1 DEF HeldAre

\* A step of a behaviour of qvio's life is a step of it, or none.
LEMMA Lemma_QvioPart ==
  ASSUME part = "qvio", [Next]_vars
  PROVE  [Qvio!Next]_(Qvio!vars)
BY DEF Next, vars, ofUnwind, ofQvio, Qvio!vars

\* Whatever fails while the driver is bound to a device or taken off it, at any
\* step of any of its functions, and whichever of the machine's features are
\* absent: once the driver core is through, the device is bound with every part
\* of it, or not bound with none, as long as no failure was reported as
\* success.
THEOREM BoundOrClean == Spec => []AllOrNothing
<1> DEFINE Inv == part = "qvio" => PartsInv
<1>1. Init => Inv
  BY Lemma_PartsInit DEF Init
<1>2. Inv /\ [Next]_vars => Inv'
  <2> SUFFICES ASSUME Inv, [Next]_vars, part' = "qvio" PROVE PartsInv'
    OBVIOUS
  <2>1. part = "qvio" /\ PartsInv
    BY DEF Next, vars
  <2> QED
    BY <2>1, Lemma_QvioPart, Lemma_PartsStep
<1>3. Inv => AllOrNothing
  BY Lemma_AllOrNothing DEF AllOrNothing
<1> QED
  BY <1>1, <1>2, <1>3, PTL DEF Spec
=============================================================================
