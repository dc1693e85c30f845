---------------------------- MODULE QdmabufProofs ----------------------------
(***************************************************************************)
(* The life of a dma-buf, in the part of MCDrivers that is qdmabuf, for    *)
(* every kind of buffer and any number of maps.  Each call of a task owns  *)
(* the references it was made with and those it got and has yet to         *)
(* release; a call in progress below another shares them with it.  As long *)
(* as someone uses the buffer the counts are at least what the tasks own,  *)
(* the descriptors, the maps and the attachments; the last reference goes  *)
(* only when nobody does.                                                  *)
(***************************************************************************)
EXTENDS MCDrivers, ListFacts

-----------------------------------------------------------------------------
(* The references that count, and the functions that deal in them.         *)

\* The references that count, and what a buffer consists of besides.
Refs == {"dmabuf", "refcount", "attach"}
Stock == {"fd", "buf", "vaddr", "page1", "page2", "dev_ref"}
Watched == Refs \cup Stock

\* The functions of each kind of buffer, and those of the other kinds.
AttachOf == [vmalloc |-> "exp_vmalloc_attach", dma_sg |-> "exp_dma_sg_attach",
             dma_contig |-> "exp_dma_contig_attach"]
DetachOf == [vmalloc |-> "exp_vmalloc_detach", dma_sg |-> "exp_dma_sg_detach",
             dma_contig |-> "exp_dma_contig_detach"]
MmapOf == [vmalloc |-> "exp_vmalloc_mmap", dma_sg |-> "exp_dma_sg_mmap",
           dma_contig |-> "exp_dma_contig_mmap"]
PutOf ==
  [vmalloc |-> "exp_vmalloc_buffer_put", dma_sg |-> "exp_dma_sg_buffer_put",
   dma_contig |-> "exp_dma_contig_buffer_put"]
AllocOf ==
  [vmalloc |-> "qdmabuf_dmabuf_alloc_vmalloc",
   dma_sg |-> "qdmabuf_dmabuf_alloc_dma_sg",
   dma_contig |-> "qdmabuf_dmabuf_alloc_dma_contig"]
Foreign(k) == UNION {Qdmabuf!Of[j] : j \in Qdmabuf!Kinds \ {k}}

\* The functions, by what they have to do with references: nothing; those that
\* an importer, an ioctl or a process calls; those called by them; those that
\* go on only with the last reference; those that make a buffer; those that
\* only release.
Idlers ==
  {"qdmabuf_cdev_register", "qdmabuf_cdev_unregister", "qdmabuf_mod_init",
   "qdmabuf_mod_exit", "qdmabuf_device_register", "qdmabuf_device_unregister",
   "qdmabuf_cdev_start", "qdmabuf_cdev_stop", "qdmabuf_device_new",
   "qdmabuf_device_put", "probe", "remove", "map_from", "map_to",
   "exp_vmalloc_map_from", "exp_dma_sg_map_from", "exp_dma_contig_map_from",
   "exp_vmalloc_map_to", "exp_dma_sg_map_to", "exp_dma_contig_map_to"}
AppCalls == {"import", "unimport", "qdmabuf_ioctl_info"}
OtherCalls == {"mmap", "fork", "munmap"}
Callers == AppCalls \cup OtherCalls
Called(k) ==
  {AttachOf[k], DetachOf[k], MmapOf[k], "dmabuf_exp_vm_open",
   "dmabuf_exp_vm_close"}
Counters(k) == {"dma_buf_put", PutOf[k]}
Makers ==
  {"qdmabuf_ioctl_alloc", "qdmabuf_dmabuf_alloc_vmalloc",
   "qdmabuf_dmabuf_alloc_dma_sg", "qdmabuf_dmabuf_alloc_dma_contig",
   "exp_dma_sg_alloc_compacted"}
Putters ==
  {"dma_buf_put", "exp_vmalloc_dma_buf_release", "exp_dma_sg_dma_buf_release",
   "exp_dma_contig_dma_buf_release", "exp_vmalloc_buffer_put",
   "exp_dma_sg_buffer_put", "exp_dma_contig_buffer_put"}

-----------------------------------------------------------------------------
(* What a function was lent, has got and owes at each of its steps, and    *)
(* that its script balances the three.                                     *)

\* The references that a step, or a function called in it, acquires or
\* releases.
Share(k, w) ==
  IF w \in Refs THEN {w}
  ELSE IF w \in {AttachOf[k], DetachOf[k]} THEN {"attach"}
  ELSE IF w \in {MmapOf[k], PutOf[k], "dmabuf_exp_vm_open",
                 "dmabuf_exp_vm_close"} THEN {"refcount"}
  ELSE IF w = "dma_buf_put" THEN {"dmabuf"}
  ELSE IF w \in AppCalls THEN {"dmabuf", "attach"}
  ELSE IF w \in OtherCalls THEN {"dmabuf", "refcount"}
  ELSE {}

\* Those that a function is called with; that its steps before the i-th gave;
\* that its releases from the i-th on will take.
Lent(k, p) ==
  IF Qdmabuf!Code[p].get = << >> THEN Share(k, p)
  ELSE Share(k, p) \cap {"dmabuf"}
Gained(k, c, i) ==
  {x \in Refs : \E j \in 1 .. i - 1 : x \in Share(k, c.get[j].what)}
Owed(k, c, i) ==
  {x \in Refs : \E j \in i .. Len(c.put) : x \in Share(k, c.put[j])}

\* A script as Lemma_Shaped says they all are.
Shaped(c) ==
  /\ c.when = "always"
  /\ Len(c.get) \in Nat /\ DOMAIN c.get = 1 .. Len(c.get)
  /\ Len(c.put) \in Nat /\ DOMAIN c.put = 1 .. Len(c.put)
  /\ (c.get = << >>) <=> (Len(c.get) = 0)

\* What a step or a release may be of, whatever the function has got.
Obtainable(k, s) ==
  /\ s.what \notin Stock \cup {"dmabuf"} /\ (s.drop => s.what \notin Refs)
  /\ s.what \in DOMAIN Qdmabuf!Code \ Foreign(k) =>
       s.what \in Idlers \cup Called(k) /\ Lent(k, s.what) = {}
Releasable(k, w) ==
  /\ w \notin Stock \cup {"dmabuf", "refcount"}
  /\ w \in DOMAIN Qdmabuf!Code \ Foreign(k) =>
       w \in Idlers \cup Called(k) \cup Counters(k) /\ Lent(k, w) = Share(k, w)

\* A step is of references that the function has not got yet, and what it goes
\* to when it fails, as dmabuf_exp_vm_open never does, releases just what it
\* has got.
StepKeeps(k, p, c, i) ==
  LET s == c.get[i]
      b == Lent(k, p) \cup Gained(k, c, i)
      l == Qdmabuf!U!Place(c.put, s.label) IN
  /\ Obtainable(k, s)
  /\ Share(k, s.what) \subseteq Share(k, p) \ b
  /\ s.what \notin Foreign(k) /\ s.label # "continue" =>
       /\ Owed(k, c, l) = b \/ s.what = "dmabuf_exp_vm_open"
       /\ s.quiet => p \in Idlers
  /\ s.label = "continue" => Share(k, s.what) = {} \/ s.what = "refcount"

\* A release is of references that no later one releases.
DropKeeps(k, p, c, i) ==
  LET w == c.put[i] IN
  /\ Releasable(k, w)
  /\ Share(k, w) \cap Owed(k, c, i + 1) = {}
  /\ Share(k, w) \subseteq Share(k, p)

\* A function that keeps account of its references.
Keeps(k, p) ==
  LET c == Qdmabuf!Code[p] IN
  /\ \A i \in 1 .. Len(c.get) : StepKeeps(k, p, c, i)
  /\ \A i \in 1 .. Len(c.put) : DropKeeps(k, p, c, i)
  /\ c.get # << >> =>
       Lent(k, p) \cup Gained(k, c, Len(c.get) + 1) = Share(k, p)
  /\ c.get = << >> \/ c.through => Owed(k, c, 1) = Share(k, p)

-----------------------------------------------------------------------------
(* Places of a script, and what is shared, got and owed there.             *)

\* The release that a label stands for; any other label ends the function.
LEMMA Lemma_QPlace ==
  ASSUME NEW put, NEW n \in Nat, DOMAIN put = 1 .. n,
         \A i, j \in 1 .. n : put[i] = put[j] => i = j
  PROVE  \A k \in 1 .. n : Qdmabuf!U!Place(put, put[k]) = k
BY DEF Qdmabuf!U!Place

\* A label that no release stands for ends the function.
LEMMA Lemma_QNoPlace ==
  ASSUME NEW put, NEW label, \A i \in DOMAIN put : put[i] # label
  PROVE  Qdmabuf!U!Place(put, label) = Len(put) + 1
BY DEF Qdmabuf!U!Place

\* Of three functions, one for each kind, one is of this kind.
Turn == [vmalloc |-> 1, dma_sg |-> 2, dma_contig |-> 3]

\* The two others in each list are foreign to this kind.
LEMMA Lemma_OfKind ==
  ASSUME NEW k \in Qdmabuf!Kinds
  PROVE  LET l1 == <<"exp_vmalloc_attach", "exp_dma_sg_attach",
                     "exp_dma_contig_attach">>
             l2 == <<"exp_vmalloc_detach", "exp_dma_sg_detach",
                     "exp_dma_contig_detach">>
             l3 == <<"exp_vmalloc_mmap", "exp_dma_sg_mmap",
                     "exp_dma_contig_mmap">>
             l4 == <<"exp_vmalloc_buffer_put", "exp_dma_sg_buffer_put",
                     "exp_dma_contig_buffer_put">>
             l5 == <<"qdmabuf_dmabuf_alloc_vmalloc",
                     "qdmabuf_dmabuf_alloc_dma_sg",
                     "qdmabuf_dmabuf_alloc_dma_contig">> IN
         /\ Turn[k] \in 1 .. 3
         /\ AttachOf[k] = l1[Turn[k]] /\ DetachOf[k] = l2[Turn[k]]
         /\ MmapOf[k] = l3[Turn[k]] /\ PutOf[k] = l4[Turn[k]]
         /\ AllocOf[k] = l5[Turn[k]]
         /\ \A j \in 1 .. 3 :
              /\ l1[j] \in Foreign(k) <=> j # Turn[k]
              /\ l2[j] \in Foreign(k) <=> j # Turn[k]
              /\ l3[j] \in Foreign(k) <=> j # Turn[k]
              /\ l4[j] \in Foreign(k) <=> j # Turn[k]
              /\ l5[j] \in Foreign(k) <=> j # Turn[k]
              /\ Share(k, l1[j]) = IF j = Turn[k] THEN {"attach"} ELSE {}
              /\ Share(k, l2[j]) = IF j = Turn[k] THEN {"attach"} ELSE {}
              /\ Share(k, l3[j]) = IF j = Turn[k] THEN {"refcount"} ELSE {}
              /\ Share(k, l4[j]) = IF j = Turn[k] THEN {"refcount"} ELSE {}
              /\ Share(k, l5[j]) = {}
<1> USE DEF Turn, AttachOf, DetachOf, MmapOf, PutOf, AllocOf, Share, Refs,
            AppCalls, OtherCalls, Foreign, Qdmabuf!Of, Qdmabuf!Kinds
<1>1. CASE k = "vmalloc"
  BY <1>1
<1>2. CASE k = "dma_sg"
  BY <1>2
<1>3. CASE k = "dma_contig"
  BY <1>3
<1> QED
  BY <1>1, <1>2, <1>3

\* The references of every other step.
LEMMA Lemma_Shares ==
  ASSUME NEW k \in Qdmabuf!Kinds
  PROVE  /\ \A w : Share(k, w) \subseteq Refs
         /\ \A w \in Refs : Share(k, w) = {w}
         /\ \A w \in AppCalls : Share(k, w) = {"dmabuf", "attach"}
         /\ \A w \in OtherCalls : Share(k, w) = {"dmabuf", "refcount"}
         /\ Share(k, "dma_buf_put") = {"dmabuf"}
         /\ Share(k, "dmabuf_exp_vm_open") = {"refcount"}
         /\ Share(k, "dmabuf_exp_vm_close") = {"refcount"}
         /\ Share(k, AttachOf[k]) = {"attach"}
         /\ Share(k, DetachOf[k]) = {"attach"}
         /\ Share(k, MmapOf[k]) = {"refcount"}
         /\ Share(k, PutOf[k]) = {"refcount"}
         /\ \A w : w \notin Refs \cup Callers \cup Called(k) \cup Counters(k)
              => Share(k, w) = {}
         /\ \A w \in Idlers \cup Makers : Share(k, w) = {}
<1> USE DEF Qdmabuf!Kinds, AttachOf, DetachOf, MmapOf, PutOf, Share, Refs,
            AppCalls, OtherCalls, Callers, Called, Counters, Idlers, Makers
<1>1. CASE k = "vmalloc"
  BY <1>1
<1>2. CASE k = "dma_sg"
  BY <1>2
<1>3. CASE k = "dma_contig"
  BY <1>3
<1> QED
  BY <1>1, <1>2, <1>3

\* What a function has got, if one of its steps gives something.
OneGives(k, c, m, X) ==
  /\ m \in Nat /\ X \in SUBSET Refs /\ Len(c.get) \in Nat
  /\ \A j \in 1 .. Len(c.get) :
       Share(k, c.get[j].what) = IF j = m THEN X ELSE {}

\* A body that gets references at one place has them from there on.
LEMMA Lemma_Gained ==
  ASSUME NEW k, NEW c, NEW m, NEW X, OneGives(k, c, m, X)
  PROVE  \A i \in 1 .. Len(c.get) + 1 :
           Gained(k, c, i) = IF 1 <= m /\ m < i THEN X ELSE {}
<1> DEFINE n == Len(c.get)
<1>0. /\ n \in Nat /\ m \in Nat /\ X \in SUBSET Refs
      /\ \A j \in 1 .. n :
           Share(k, c.get[j].what) = IF j = m THEN X ELSE {}
  BY DEF OneGives
<1> HIDE DEF n
<1> SUFFICES ASSUME NEW i \in 1 .. n + 1
             PROVE  Gained(k, c, i) = IF 1 <= m /\ m < i THEN X ELSE {}
  BY DEF n
<1>1. \A j \in 1 .. i - 1 : j \in 1 .. n
  BY <1>0
<1>2. (1 <= m /\ m < i) <=> m \in 1 .. i - 1
  BY <1>0
<1>3. CASE m \in 1 .. i - 1
  <2>1. \A x \in Refs :
          (\E j \in 1 .. i - 1 : x \in Share(k, c.get[j].what)) <=> x \in X
    BY <1>0, <1>1, <1>3
  <2> QED
    BY <1>0, <1>2, <1>3, <2>1 DEF Gained
<1>4. CASE m \notin 1 .. i - 1
  <2>1. \A j \in 1 .. i - 1 : Share(k, c.get[j].what) = {}
    BY <1>0, <1>1, <1>4
  <2> QED
    BY <1>2, <1>4, <2>1 DEF Gained
<1> QED
  BY <1>3, <1>4

\* What a function owes, if two of its releases take something.
TwoTake(k, c, m, X, n, Y) ==
  /\ m \in Nat /\ n \in Nat /\ m < n /\ Len(c.put) \in Nat /\ n <= Len(c.put)
  /\ X \in SUBSET Refs /\ Y \in SUBSET Refs
  /\ \A j \in 1 .. Len(c.put) :
       Share(k, c.put[j]) = IF j = m THEN X ELSE IF j = n THEN Y ELSE {}

\* A function that puts references at two places owes them until there.
LEMMA Lemma_Owed ==
  ASSUME NEW k, NEW c, NEW m, NEW X, NEW n, NEW Y, TwoTake(k, c, m, X, n, Y)
  PROVE  \A i \in 1 .. Len(c.put) + 1 :
           Owed(k, c, i) = (IF i <= m THEN X ELSE {}) \cup
                           (IF i <= n THEN Y ELSE {})
<1> DEFINE e == Len(c.put)
<1>0. /\ e \in Nat /\ m \in Nat /\ n \in Nat /\ m < n /\ n <= e
      /\ X \in SUBSET Refs /\ Y \in SUBSET Refs
      /\ \A j \in 1 .. e :
           Share(k, c.put[j]) = IF j = m THEN X ELSE IF j = n THEN Y ELSE {}
  BY DEF TwoTake
<1>5. ASSUME NEW i
               PROVE Owed(k, c, i)
                       = {x \in Refs : \E j \in i .. e : x
                          \in Share(k, c.put[j])}
  BY DEF Owed
<1> HIDE DEF e
<1> SUFFICES ASSUME NEW i \in 1 .. e + 1
             PROVE  Owed(k, c, i) = (IF i <= m THEN X ELSE {}) \cup
                                    (IF i <= n THEN Y ELSE {})
  BY DEF e
<1>1. \A j \in i .. e : j \in 1 .. e
  BY <1>0
<1>2. i <= m <=> m \in i .. e
  BY <1>0
<1>3. i <= n <=> n \in i .. e
  BY <1>0
<1>4. \A x \in Refs :
        (\E j \in i .. e : x \in Share(k, c.put[j]))
          <=> (m \in i .. e /\ x \in X)
              \/ (n \in i .. e /\ x \in Y)
  <2> SUFFICES ASSUME NEW x \in Refs
               PROVE  (\E j \in i .. e : x \in Share(k, c.put[j]))
                        <=> (m \in i .. e /\ x \in X)
                            \/ (n \in i .. e /\ x \in Y)
    OBVIOUS
  <2>1. m # n
    BY <1>0
  <2> QED
    BY <1>0, <1>1, <2>1
<1> QED
  BY <1>0, <1>2, <1>3, <1>4, <1>5

\* Nothing is owed at the end.
LEMMA Lemma_OwedEnd ==
  ASSUME NEW k, NEW c, Len(c.put) \in Nat, NEW i \in Nat, i > Len(c.put)
  PROVE  Owed(k, c, i) = {}
BY DEF Owed

\* The other functions.
Others ==
  {"import", "unimport", "qdmabuf_ioctl_info", "mmap", "fork", "munmap",
   "exp_vmalloc_attach", "exp_dma_sg_attach", "exp_dma_contig_attach",
   "exp_vmalloc_detach", "exp_dma_sg_detach", "exp_dma_contig_detach",
   "exp_vmalloc_mmap", "exp_dma_sg_mmap", "exp_dma_contig_mmap",
   "dmabuf_exp_vm_open", "dmabuf_exp_vm_close"} \cup Putters \cup Makers
-----------------------------------------------------------------------------
(* The scripts: what each is lent, drops, gives back and offers.           *)

\* The functions that deal in references and those that do not.
LEMMA Lemma_Functions ==
  DOMAIN Qdmabuf!Code = Idlers \cup Others /\ Idlers \cap Others = {}
BY DEF Qdmabuf!Code, Idlers, Others, Putters, Makers

\* The functions that have to do with no references.
Idle0(c) ==
  /\ Shaped(c) /\ ~c.through
  /\ \A i \in DOMAIN c.get : c.get[i].what \notin Watched \cup Others
  /\ \A i \in DOMAIN c.put : c.put[i] \notin Watched \cup Others

\* No function that the driver core calls has to do with any.
LEMMA Lemma_Idlers ==
  ASSUME NEW p \in Idlers
  PROVE  Idle0(Qdmabuf!Code[p])
<1> USE DEF Qdmabuf!Code, Shaped, Watched, Refs, Stock, Idlers, Qdmabuf!Script,
            Qdmabuf!Releases, Qdmabuf!On, Qdmabuf!Step, Qdmabuf!Drop, Others,
            Putters, Makers, Idle0
<1>1. Idle0(Qdmabuf!Code["qdmabuf_cdev_register"])
  BY DEF Qdmabuf!qdmabuf_cdev_register
<1>2. Idle0(Qdmabuf!Code["qdmabuf_cdev_unregister"])
  BY DEF Qdmabuf!qdmabuf_cdev_unregister
<1>3. Idle0(Qdmabuf!Code["qdmabuf_mod_init"])
  BY DEF Qdmabuf!qdmabuf_mod_init
<1>4. Idle0(Qdmabuf!Code["qdmabuf_mod_exit"])
  BY DEF Qdmabuf!qdmabuf_mod_exit
<1>5. Idle0(Qdmabuf!Code["qdmabuf_device_register"])
  BY DEF Qdmabuf!qdmabuf_device_register
<1>6. Idle0(Qdmabuf!Code["qdmabuf_device_unregister"])
  BY DEF Qdmabuf!qdmabuf_device_unregister
<1>7. Idle0(Qdmabuf!Code["qdmabuf_cdev_start"])
  BY DEF Qdmabuf!qdmabuf_cdev_start, Qdmabuf!Forgetful
<1>8. Idle0(Qdmabuf!Code["qdmabuf_cdev_stop"])
  BY DEF Qdmabuf!qdmabuf_cdev_stop
<1>9. Idle0(Qdmabuf!Code["qdmabuf_device_new"])
  BY DEF Qdmabuf!qdmabuf_device_new
<1>10. Idle0(Qdmabuf!Code["qdmabuf_device_put"])
  BY DEF Qdmabuf!qdmabuf_device_put
<1>11. Idle0(Qdmabuf!Code["probe"])
  BY DEF Qdmabuf!probe
<1>12. Idle0(Qdmabuf!Code["remove"])
  BY DEF Qdmabuf!remove
<1>13. Idle0(Qdmabuf!Code["map_from"])
  BY DEF Qdmabuf!map_from, Qdmabuf!MapFrom
<1>14. Idle0(Qdmabuf!Code["map_to"])
  BY DEF Qdmabuf!map_to, Qdmabuf!MapTo
<1>15. Idle0(Qdmabuf!Code["exp_vmalloc_map_from"])
  BY DEF Qdmabuf!exp_vmalloc_map_dma_buf
<1>16. Idle0(Qdmabuf!Code["exp_dma_sg_map_from"])
  BY DEF Qdmabuf!exp_dma_sg_map_dma_buf
<1>17. Idle0(Qdmabuf!Code["exp_dma_contig_map_from"])
  BY DEF Qdmabuf!exp_dma_contig_map_dma_buf
<1>18. Idle0(Qdmabuf!Code["exp_vmalloc_map_to"])
  BY DEF Qdmabuf!exp_vmalloc_map_dma_buf
<1>19. Idle0(Qdmabuf!Code["exp_dma_sg_map_to"])
  BY DEF Qdmabuf!exp_dma_sg_map_dma_buf
<1>20. Idle0(Qdmabuf!Code["exp_dma_contig_map_to"])
  BY DEF Qdmabuf!exp_dma_contig_map_dma_buf
<1> HIDE DEF Idle0, Qdmabuf!Code, Shaped
<1> QED
  BY <1>1, <1>2, <1>3, <1>4, <1>5, <1>6, <1>7, <1>8, <1>9, <1>10, <1>11,
     <1>12, <1>13, <1>14, <1>15, <1>16, <1>17, <1>18, <1>19, <1>20

\* Which functions have a body.
LEMMA Lemma_Bodies ==
  /\ \A p \in {"exp_vmalloc_detach", "exp_dma_sg_detach",
               "exp_dma_contig_detach", "dmabuf_exp_vm_close", "munmap",
               "unimport"} \cup Putters : Qdmabuf!Code[p].get = << >>
  /\ \A p \in {"exp_vmalloc_attach", "exp_dma_sg_attach",
               "exp_dma_contig_attach", "exp_vmalloc_mmap", "exp_dma_sg_mmap",
               "exp_dma_contig_mmap", "dmabuf_exp_vm_open", "import", "mmap",
               "fork", "qdmabuf_ioctl_info"} : Len(Qdmabuf!Code[p].get) # 0
<1> USE DEF Qdmabuf!Code, Qdmabuf!Script, Qdmabuf!Releases, Qdmabuf!Through,
            Qdmabuf!On, Qdmabuf!Step, Qdmabuf!Regardless
<1>1. /\ Qdmabuf!Code["exp_vmalloc_detach"].get = << >>
      /\ Qdmabuf!Code["exp_dma_sg_detach"].get = << >>
      /\ Qdmabuf!Code["exp_dma_contig_detach"].get = << >>
      /\ Qdmabuf!Code["dmabuf_exp_vm_close"].get = << >>
      /\ Qdmabuf!Code["munmap"].get = << >>
      /\ Qdmabuf!Code["unimport"].get = << >>
  BY DEF Qdmabuf!exp_vmalloc_detach, Qdmabuf!exp_dma_sg_detach,
         Qdmabuf!exp_dma_contig_detach, Qdmabuf!dmabuf_exp_vm_close,
         Qdmabuf!munmap, Qdmabuf!unimport
<1>2. /\ Qdmabuf!Code["dma_buf_put"].get = << >>
      /\ Qdmabuf!Code["exp_vmalloc_dma_buf_release"].get = << >>
      /\ Qdmabuf!Code["exp_dma_sg_dma_buf_release"].get = << >>
      /\ Qdmabuf!Code["exp_dma_contig_dma_buf_release"].get = << >>
      /\ Qdmabuf!Code["exp_vmalloc_buffer_put"].get = << >>
      /\ Qdmabuf!Code["exp_dma_sg_buffer_put"].get = << >>
      /\ Qdmabuf!Code["exp_dma_contig_buffer_put"].get = << >>
  BY DEF Qdmabuf!dma_buf_put, Qdmabuf!exp_vmalloc_dma_buf_release,
         Qdmabuf!exp_dma_sg_dma_buf_release,
         Qdmabuf!exp_dma_contig_dma_buf_release,
         Qdmabuf!exp_vmalloc_buffer_put, Qdmabuf!exp_dma_sg_buffer_put,
         Qdmabuf!exp_dma_contig_buffer_put
<1>3. /\ Len(Qdmabuf!Code["exp_vmalloc_attach"].get) = 3
      /\ Len(Qdmabuf!Code["exp_dma_sg_attach"].get) = 2
      /\ Len(Qdmabuf!Code["exp_dma_contig_attach"].get) = 2
  BY DEF Qdmabuf!exp_vmalloc_attach, Qdmabuf!exp_dma_sg_attach,
         Qdmabuf!exp_dma_contig_attach
<1>4. /\ Len(Qdmabuf!Code["exp_vmalloc_mmap"].get) = 2
      /\ Len(Qdmabuf!Code["exp_dma_sg_mmap"].get) = 2
      /\ Len(Qdmabuf!Code["exp_dma_contig_mmap"].get) = 2
      /\ Len(Qdmabuf!Code["dmabuf_exp_vm_open"].get) = 1
  BY DEF Qdmabuf!exp_vmalloc_mmap, Qdmabuf!exp_dma_sg_mmap,
         Qdmabuf!exp_dma_contig_mmap, Qdmabuf!dmabuf_exp_vm_open
<1>5. /\ Len(Qdmabuf!Code["mmap"].get) = 3
      /\ Len(Qdmabuf!Code["fork"].get) = 1
  BY DEF Qdmabuf!mmap, Qdmabuf!fork
<1>6. Len(Qdmabuf!Code["import"].get) = 3
  <2>1. Qdmabuf!Code["import"].get = Qdmabuf!Attach("dma_buf_put")
    BY DEF Qdmabuf!import
  <2> QED
    BY <2>1 DEF Qdmabuf!Attach
<1>7. Len(Qdmabuf!Code["qdmabuf_ioctl_info"].get) = 6
  <2> DEFINE l == "dma_buf_put"
             t == Qdmabuf!MapFrom("exp_vmalloc_detach")
             x == Qdmabuf!On("exp_vmalloc_attach", l)
             y == Qdmabuf!On("exp_dma_sg_attach", l)
             z == Qdmabuf!On("exp_dma_contig_attach", l)
             S == {x, y, z, t[1], t[2], t[3]}
             u == Qdmabuf!Code["qdmabuf_ioctl_info"].get
             s == <<x, y, z>>
  <2>1. Joined(u, s, t)
    BY DEF Joined, Qdmabuf!qdmabuf_ioctl_info, Qdmabuf!Attach
  <2>2. Len(t) = 3 /\ t \in Seq(S)
    BY DEF Qdmabuf!MapFrom
  <2>3. s \in Seq(S) /\ t \in Seq(S)
    BY <2>2
  <2>6. Len(s) = 3
    OBVIOUS
  <2> HIDE DEF s, t, u, S
  <2>4. Len(u) = Len(s) + Len(t)
    BY <2>1, <2>3, ListJoin
  <2>5. Len(u) = 6
    BY <2>2, <2>4, <2>6
  <2> QED
    BY <2>5 DEF u
<1> HIDE DEF Qdmabuf!Code, Qdmabuf!Script, Qdmabuf!Releases, Qdmabuf!Through,
             Qdmabuf!On, Qdmabuf!Step, Qdmabuf!Regardless
<1>8. \A p \in Putters : Qdmabuf!Code[p].get = << >>
  BY <1>2 DEF Putters
<1> HIDE DEF Qdmabuf!Script, Qdmabuf!Releases, Qdmabuf!Through, Qdmabuf!On,
             Qdmabuf!Step, Qdmabuf!Regardless
<1>9. /\ \A p \in {"exp_vmalloc_detach", "exp_dma_sg_detach",
                  "exp_dma_contig_detach", "dmabuf_exp_vm_close", "munmap",
                  "unimport"} : Qdmabuf!Code[p].get = << >>
  BY <1>1
<1>10. \A p \in {"exp_vmalloc_attach", "exp_dma_sg_attach",
                "exp_dma_contig_attach", "exp_vmalloc_mmap", "exp_dma_sg_mmap",
                "exp_dma_contig_mmap", "dmabuf_exp_vm_open", "import", "mmap",
                "fork", "qdmabuf_ioctl_info"} :
         Len(Qdmabuf!Code[p].get) # 0
  <2> DEFINE n(p) == Len(Qdmabuf!Code[p].get)
  <2>1. /\ n("exp_vmalloc_attach") = 3 /\ n("exp_dma_sg_attach") = 2
        /\ n("exp_dma_contig_attach") = 2 /\ n("exp_vmalloc_mmap") = 2
        /\ n("exp_dma_sg_mmap") = 2 /\ n("exp_dma_contig_mmap") = 2
        /\ n("dmabuf_exp_vm_open") = 1 /\ n("import") = 3
        /\ n("mmap") = 3 /\ n("fork") = 1 /\ n("qdmabuf_ioctl_info") = 6
    BY <1>3, <1>4, <1>5, <1>6, <1>7
  <2> HIDE DEF n
  <2>2. \A p \in {"exp_vmalloc_attach", "exp_dma_sg_attach",
                  "exp_dma_contig_attach", "exp_vmalloc_mmap",
                  "exp_dma_sg_mmap", "exp_dma_contig_mmap",
                  "dmabuf_exp_vm_open", "import", "mmap", "fork",
                  "qdmabuf_ioctl_info"} : n(p) # 0
    BY <2>1
  <2> QED
    BY <2>2 DEF n
<1> QED
  BY <1>8, <1>9, <1>10

\* The references that these are called with.
LEMMA Lemma_Lent ==
  ASSUME NEW k \in Qdmabuf!Kinds
  PROVE  /\ \A p \in {AttachOf[k], MmapOf[k], "dmabuf_exp_vm_open"}
              \cup Idlers :
              Lent(k, p) = {}
         /\ \A p \in {DetachOf[k], PutOf[k], "dmabuf_exp_vm_close", "munmap",
                      "unimport", "dma_buf_put"} : Lent(k, p) = Share(k, p)
         /\ \A p \in {"import", "qdmabuf_ioctl_info", "mmap", "fork"} :
              Lent(k, p) = {"dmabuf"}
<1>1. /\ AttachOf[k] \in {"exp_vmalloc_attach", "exp_dma_sg_attach",
                         "exp_dma_contig_attach"}
      /\ DetachOf[k] \in {"exp_vmalloc_detach", "exp_dma_sg_detach",
                         "exp_dma_contig_detach"}
      /\ MmapOf[k] \in {"exp_vmalloc_mmap", "exp_dma_sg_mmap",
                       "exp_dma_contig_mmap"}
      /\ PutOf[k] \in Putters
  BY DEF AttachOf, DetachOf, MmapOf, PutOf, Putters, Qdmabuf!Kinds
<1>2. \A p : Len(Qdmabuf!Code[p].get) # 0 => Qdmabuf!Code[p].get # << >>
  BY ListEmpty
<1>3. ASSUME NEW p \in {AttachOf[k], MmapOf[k], "dmabuf_exp_vm_open"}
      PROVE  Lent(k, p) = {}
  <2>1. Len(Qdmabuf!Code[p].get) # 0
    BY <1>1, Lemma_Bodies
  <2>2. Share(k, p) \cap {"dmabuf"} = {}
    BY Lemma_Shares
  <2> QED
    BY <1>2, <2>1, <2>2 DEF Lent
<1>4. ASSUME NEW p \in Idlers PROVE Lent(k, p) = {}
  BY Lemma_Shares DEF Lent
<1>5. ASSUME NEW p \in {DetachOf[k], PutOf[k], "dmabuf_exp_vm_close", "munmap",
                       "unimport", "dma_buf_put"}
      PROVE  Lent(k, p) = Share(k, p)
  <2>1. Qdmabuf!Code[p].get = << >>
    BY <1>1, Lemma_Bodies DEF Putters
  <2> QED
    BY <2>1 DEF Lent
<1>6. ASSUME NEW p \in {"import", "qdmabuf_ioctl_info", "mmap", "fork"}
      PROVE  Lent(k, p) = {"dmabuf"}
  <2>1. Len(Qdmabuf!Code[p].get) # 0
    BY Lemma_Bodies
  <2>2. Share(k, p) \cap {"dmabuf"} = {"dmabuf"}
    BY Lemma_Shares DEF AppCalls, OtherCalls
  <2> QED
    BY <1>2, <2>1, <2>2 DEF Lent
<1> QED
  BY <1>3, <1>4, <1>5, <1>6

\* The releases of a function, two of which take something.
LEMMA Lemma_Drops ==
  ASSUME NEW k, NEW p, NEW c, NEW m, NEW X, NEW n, NEW Y,
         TwoTake(k, c, m, X, n, Y), X \cap Y = {},
         X \cup Y \subseteq Share(k, p),
         \A i \in 1 .. Len(c.put) : Releasable(k, c.put[i])
  PROVE  \A i \in 1 .. Len(c.put) : DropKeeps(k, p, c, i)
<1> SUFFICES ASSUME NEW i \in 1 .. Len(c.put) PROVE DropKeeps(k, p, c, i)
  OBVIOUS
<1>1. /\ m \in Nat /\ n \in Nat /\ m < n /\ Len(c.put) \in Nat
      /\ Share(k, c.put[i]) = IF i = m THEN X ELSE IF i = n THEN Y ELSE {}
  BY DEF TwoTake
<1>2. i + 1 \in 1 .. Len(c.put) + 1
  BY <1>1
<1>3. Owed(k, c, i + 1) = (IF i + 1 <= m THEN X ELSE {}) \cup
                          (IF i + 1 <= n THEN Y ELSE {})
  BY <1>2, Lemma_Owed
<1>4. Share(k, c.put[i]) \cap Owed(k, c, i + 1) = {}
  BY <1>1, <1>3
<1>5. Share(k, c.put[i]) \subseteq Share(k, p)
  BY <1>1
<1> QED
  BY <1>4, <1>5 DEF DropKeeps

\* A function that only releases.
Gives(k, p, c, m, X, n, Y) ==
  /\ TwoTake(k, c, m, X, n, Y) /\ X \cap Y = {} /\ X \cup Y = Share(k, p)
  /\ m = 0 => X = {}
  /\ n # 0 /\ c.get = << >>
  /\ \A i \in 1 .. Len(c.put) : Releasable(k, c.put[i])

\* A function that puts all it was lent, at two places at most, keeps its
\* balance.
LEMMA Lemma_Releases ==
  ASSUME NEW k, NEW p, NEW m, NEW X, NEW n, NEW Y,
         Gives(k, p, Qdmabuf!Code[p], m, X, n, Y)
  PROVE  Keeps(k, p)
<1> DEFINE c == Qdmabuf!Code[p]
<1>0. /\ TwoTake(k, c, m, X, n, Y) /\ X \cap Y = {}
      /\ X \cup Y = Share(k, p) /\ (m = 0 => X = {}) /\ n # 0
      /\ c.get = << >>
      /\ \A i \in 1 .. Len(c.put) : Releasable(k, c.put[i])
  BY DEF Gives
<1> HIDE DEF c
<1>1. \A i \in 1 .. Len(c.put) : DropKeeps(k, p, c, i)
  BY <1>0, Lemma_Drops
<1>2. /\ m \in Nat /\ n \in Nat /\ m < n /\ Len(c.put) \in Nat
      /\ n <= Len(c.put)
  BY <1>0 DEF TwoTake
<1>3. Owed(k, c, 1) = X \cup Y
  <2>1. 1 \in 1 .. Len(c.put) + 1
    BY <1>2
  <2>2. Owed(k, c, 1) = (IF 1 <= m THEN X ELSE {}) \cup
                        (IF 1 <= n THEN Y ELSE {})
    BY <1>0, <2>1, Lemma_Owed
  <2>3. 1 <= n /\ (1 <= m \/ X = {})
    BY <1>0, <1>2
  <2> QED
    BY <1>0, <2>2, <2>3
<1>4. Len(c.get) = 0
  BY <1>0, ListEmpty
<1>5. \A i \in 1 .. Len(c.get) : StepKeeps(k, p, c, i)
  BY <1>4
<1> QED
  BY <1>0, <1>1, <1>3, <1>5 DEF Keeps, c

\* A function whose body calls the one of three that is the buffer's, and that
\* puts the dma-buf if that fails.
Offers(k, p, l, x) ==
  /\ x \in {"attach", "refcount"} /\ Share(k, p) = {"dmabuf", x}
  /\ Lent(k, p) = {"dmabuf"} /\ Lent(k, l[Turn[k]]) = {}
  /\ l[Turn[k]] \in Called(k)
  /\ \A j \in 1 .. 3 : /\ l[j] \in Foreign(k) <=> j # Turn[k]
                       /\ Share(k, l[j]) = IF j = Turn[k] THEN {x} ELSE {}
                       /\ l[j] \notin Stock \cup Refs

\* So does one that holds the dma-buf while it calls the function of its
\* kind.
LEMMA Lemma_Offers ==
  ASSUME NEW k \in Qdmabuf!Kinds, NEW p, NEW l, NEW x, Offers(k, p, l, x),
         Shaped(Qdmabuf!Code[p]), ~Qdmabuf!Code[p].through,
         Qdmabuf!Code[p].put = <<"dma_buf_put">>,
         Len(Qdmabuf!Code[p].get) = 3,
         \A j \in 1 .. 3 :
           LET s == Qdmabuf!Code[p].get[j] IN
           s.what = l[j] /\ s.label = "dma_buf_put" /\ ~s.quiet /\ ~s.drop
  PROVE  Keeps(k, p)
<1> DEFINE c == Qdmabuf!Code[p]
           m == Turn[k]
<1>1. /\ Len(c.get) = 3 /\ c.put = <<"dma_buf_put">> /\ Shaped(c) /\ ~c.through
      /\ \A j \in 1 .. 3 :
           /\ c.get[j].what = l[j] /\ c.get[j].label = "dma_buf_put"
           /\ ~c.get[j].quiet /\ ~c.get[j].drop
  OBVIOUS
<1> HIDE DEF c
<1>2. c.get # << >>
  BY <1>1, ListEmpty
<1>3. /\ Len(c.put) = 1 /\ DOMAIN c.put = 1 .. 1 /\ c.put[1] = "dma_buf_put"
  BY <1>1
<1>5. /\ m \in 1 .. 3
      /\ \A j \in 1 .. 3 : /\ l[j] \in Foreign(k) <=> j # m
                           /\ Share(k, l[j]) = IF j = m THEN {x} ELSE {}
                           /\ l[j] \notin Stock \cup Refs
      /\ x \in {"attach", "refcount"} /\ Share(k, p) = {"dmabuf", x}
      /\ l[m] \in Called(k)
  BY Lemma_OfKind DEF Offers
<1>6. /\ Lent(k, p) = {"dmabuf"} /\ Lent(k, l[m]) = {}
  BY DEF Offers
<1> HIDE DEF m
<1>7. /\ Share(k, "dma_buf_put") = {"dmabuf"}
      /\ Lent(k, "dma_buf_put") = {"dmabuf"}
  BY Lemma_Shares, Lemma_Lent
<1>8. \A i \in 1 .. 4 : Gained(k, c, i) = IF m < i THEN {x} ELSE {}
  <2>1. OneGives(k, c, m, {x})
    BY <1>1, <1>5 DEF OneGives, Refs
  <2>2. \A i \in 1 .. Len(c.get) + 1 :
          Gained(k, c, i) = IF 1 <= m /\ m < i THEN {x} ELSE {}
    BY <2>1, Lemma_Gained
  <2> QED
    BY <1>1, <1>5, <2>2
<1>9. Owed(k, c, 1) = {"dmabuf"} /\ TwoTake(k, c, 0, {}, 1, {"dmabuf"})
  <2>1. TwoTake(k, c, 0, {}, 1, {"dmabuf"})
    BY <1>3, <1>7 DEF TwoTake, Refs
  <2> QED
    BY <1>3, <2>1, Lemma_Owed
<1>10. Qdmabuf!U!Place(c.put, "dma_buf_put") = 1
  <2>1. \A i, j \in 1 .. 1 : c.put[i] = c.put[j] => i = j
    OBVIOUS
  <2>2. \A i \in 1 .. 1 : Qdmabuf!U!Place(c.put, c.put[i]) = i
    BY <1>3, <2>1, Lemma_QPlace
  <2> QED
    BY <1>3, <2>2
<1>11. ASSUME NEW i \in 1 .. 3 PROVE StepKeeps(k, p, c, i)
  <2> DEFINE s == c.get[i]
  <2>1. /\ s.what = l[i] /\ s.label = "dma_buf_put"
        /\ ~s.quiet /\ ~s.drop /\ s.what \notin Stock \cup Refs
    BY <1>1, <1>5
  <2>2. s.what \notin Foreign(k) =>
          s.what \in Called(k) /\ Lent(k, s.what) = {}
    BY <1>5, <1>6, <2>1
  <2>3. Lent(k, p) \cup Gained(k, c, i)
          = IF m < i THEN {"dmabuf", x} ELSE {"dmabuf"}
    BY <1>6, <1>8
  <2>4. Share(k, s.what) = IF i = m THEN {x} ELSE {}
    BY <1>5, <2>1
  <2>5. s.what \notin Foreign(k) => i = m
    BY <1>5, <2>1
  <2>6. Obtainable(k, s)
    BY <2>1, <2>2 DEF Obtainable, Refs
  <2>7. Share(k, s.what)
          \subseteq Share(k, p) \ (Lent(k, p) \cup Gained(k, c, i))
    BY <1>5, <2>3, <2>4
  <2> HIDE DEF s
  <2>8. s.what \notin Foreign(k) =>
          Owed(k, c, Qdmabuf!U!Place(c.put, s.label))
            = Lent(k, p) \cup Gained(k, c, i)
    BY <1>9, <1>10, <2>1, <2>3, <2>5
  <2> QED
    BY <2>1, <2>6, <2>7, <2>8 DEF StepKeeps, s
<1>12. \A i \in 1 .. Len(c.put) : DropKeeps(k, p, c, i)
  <2>1. Releasable(k, "dma_buf_put")
    BY <1>7 DEF Releasable, Stock, Counters
  <2> QED
    BY <1>3, <1>5, <1>9, <2>1, Lemma_Drops
<1> QED
  <2>1. Len(c.get) + 1 = 4
    BY <1>1
  <2>2. \A i \in 1 .. Len(c.get) : StepKeeps(k, p, c, i)
    BY <1>1, <1>11
  <2>4. Lent(k, p) \cup Gained(k, c, Len(c.get) + 1) = Share(k, p)
    BY <1>5, <1>6, <1>8, <2>1
  <2> QED
    BY <1>1, <1>2, <1>12, <2>2, <2>4 DEF Keeps, c

\* What is held is no function, and nobody's share if it is no reference.
LEMMA Lemma_Things ==
  ASSUME NEW k \in Qdmabuf!Kinds
  PROVE  /\ Qdmabuf!Resources \cap DOMAIN Qdmabuf!Code = {}
         /\ Watched \subseteq Qdmabuf!Resources
         /\ \A w \in Qdmabuf!Resources \ Refs : Share(k, w) = {}
         /\ \A w \in Qdmabuf!Resources \ Watched : Releasable(k, w)
         /\ \A s : s.what \in Qdmabuf!Resources \ Watched => Obtainable(k, s)
<1>1. /\ Qdmabuf!Resources \cap (Idlers \cup Others) = {}
      /\ Watched \subseteq Qdmabuf!Resources
  BY DEF Qdmabuf!Resources, Qdmabuf!Memory, Qdmabuf!Dirs, Idlers, Others,
         Putters, Makers, Watched, Refs, Stock
<1>2. Qdmabuf!Resources \cap DOMAIN Qdmabuf!Code = {}
  BY <1>1, Lemma_Functions
<1>3. Callers \cup Called(k) \cup Counters(k) \subseteq Others
  BY DEF Callers, AppCalls, OtherCalls, Called, Counters, Others, Putters,
         Qdmabuf!Kinds, AttachOf, DetachOf, MmapOf, PutOf
<1>4. \A w \in Qdmabuf!Resources \ Refs : Share(k, w) = {}
  BY <1>1, <1>3, Lemma_Shares
<1>5. \A w \in Qdmabuf!Resources \ Watched : Releasable(k, w)
  BY <1>2 DEF Releasable, Watched, Refs
<1>6. \A s : s.what \in Qdmabuf!Resources \ Watched => Obtainable(k, s)
  BY <1>2 DEF Obtainable, Watched, Refs
<1> QED
  BY <1>1, <1>2, <1>4, <1>5, <1>6

-----------------------------------------------------------------------------
(* Every function keeps its balance.                                       *)

\* An importer, and a map.
LEMMA Lemma_import ==
  ASSUME NEW k \in Qdmabuf!Kinds
  PROVE  LET c == Qdmabuf!Code["import"] IN
         Shaped(c) /\ ~c.through /\ Keeps(k, "import")
<1> DEFINE c == Qdmabuf!Code["import"]
           l == <<"exp_vmalloc_attach", "exp_dma_sg_attach",
                  "exp_dma_contig_attach">>
<1>1. /\ c.get = Qdmabuf!Attach("dma_buf_put") /\ c.put = <<"dma_buf_put">>
      /\ ~c.through /\ c.when = "always"
  BY DEF Qdmabuf!Code, Qdmabuf!import, Qdmabuf!Script
<1> HIDE DEF c
<1>2. /\ Len(c.get) = 3 /\ DOMAIN c.get = 1 .. 3 /\ c.get # << >>
      /\ \A j \in 1 .. 3 :
           /\ c.get[j].what = l[j] /\ c.get[j].label = "dma_buf_put"
           /\ ~c.get[j].quiet /\ ~c.get[j].drop
  BY <1>1 DEF Qdmabuf!Attach, Qdmabuf!On, Qdmabuf!Step
<1>3. Shaped(c)
  BY <1>1, <1>2 DEF Shaped
<1>4. Offers(k, "import", l, "attach")
  <2>1. \A j \in 1 .. 3 : l[j] \notin Stock \cup Refs
    BY DEF Stock, Refs
  <2>2. Share(k, "import") = {"dmabuf", "attach"}
        /\ Lent(k, "import") = {"dmabuf"}
    BY Lemma_Shares, Lemma_Lent DEF AppCalls
  <2>3. /\ l[Turn[k]] = AttachOf[k]
        /\ \A j \in 1 .. 3 :
             /\ l[j] \in Foreign(k) <=> j # Turn[k]
             /\ Share(k, l[j]) = IF j = Turn[k] THEN {"attach"} ELSE {}
    BY Lemma_OfKind
  <2> HIDE DEF l
  <2>4. Lent(k, l[Turn[k]]) = {} /\ l[Turn[k]] \in Called(k)
    BY <2>3, Lemma_Lent DEF Called
  <2> QED
    BY <2>1, <2>2, <2>3, <2>4 DEF Offers
<1> HIDE DEF l
<1> QED
  BY <1>1, <1>2, <1>3, <1>4, Lemma_Offers DEF c

\* A map: the function of this kind takes a reference to the buffer.
LEMMA Lemma_mmap ==
  ASSUME NEW k \in Qdmabuf!Kinds
  PROVE  LET c == Qdmabuf!Code["mmap"] IN
         Shaped(c) /\ ~c.through /\ Keeps(k, "mmap")
<1> DEFINE c == Qdmabuf!Code["mmap"]
           l == <<"exp_vmalloc_mmap", "exp_dma_sg_mmap",
                  "exp_dma_contig_mmap">>
<1>1. /\ c.put = <<"dma_buf_put">> /\ ~c.through /\ c.when = "always"
  BY DEF Qdmabuf!Code, Qdmabuf!mmap, Qdmabuf!Script
<1>2. /\ Len(c.get) = 3 /\ DOMAIN c.get = 1 .. 3 /\ c.get # << >>
      /\ \A j \in 1 .. 3 :
           /\ c.get[j].what = l[j] /\ c.get[j].label = "dma_buf_put"
           /\ ~c.get[j].quiet /\ ~c.get[j].drop
  BY DEF Qdmabuf!Code, Qdmabuf!mmap, Qdmabuf!Script, Qdmabuf!On, Qdmabuf!Step
<1> HIDE DEF c
<1>3. Shaped(c)
  BY <1>1, <1>2 DEF Shaped
<1>4. Offers(k, "mmap", l, "refcount")
  <2>1. \A j \in 1 .. 3 : l[j] \notin Stock \cup Refs
    BY DEF Stock, Refs
  <2>2. Share(k, "mmap") = {"dmabuf", "refcount"}
        /\ Lent(k, "mmap") = {"dmabuf"}
    BY Lemma_Shares, Lemma_Lent DEF OtherCalls
  <2>3. /\ l[Turn[k]] = MmapOf[k]
        /\ \A j \in 1 .. 3 :
             /\ l[j] \in Foreign(k) <=> j # Turn[k]
             /\ Share(k, l[j]) = IF j = Turn[k] THEN {"refcount"} ELSE {}
    BY Lemma_OfKind
  <2> HIDE DEF l
  <2>4. Lent(k, l[Turn[k]]) = {} /\ l[Turn[k]] \in Called(k)
    BY <2>3, Lemma_Lent DEF Called
  <2> QED
    BY <2>1, <2>2, <2>3, <2>4 DEF Offers
<1> HIDE DEF l
<1> QED
  BY <1>1, <1>2, <1>3, <1>4, Lemma_Offers DEF c

\* What they undo.
LEMMA Lemma_munmap ==
  ASSUME NEW k \in Qdmabuf!Kinds
  PROVE  LET c == Qdmabuf!Code["munmap"] IN
         Shaped(c) /\ ~c.through /\ Keeps(k, "munmap")
<1> DEFINE c == Qdmabuf!Code["munmap"]
<1>1. /\ c.get = << >> /\ c.put = <<"dmabuf_exp_vm_close", "dma_buf_put">>
      /\ ~c.through /\ c.when = "always"
  BY DEF Qdmabuf!Code, Qdmabuf!munmap, Qdmabuf!Releases, Qdmabuf!Script
<1> HIDE DEF c
<1>2. /\ Len(c.put) = 2 /\ DOMAIN c.put = 1 .. 2
      /\ c.put[1] = "dmabuf_exp_vm_close" /\ c.put[2] = "dma_buf_put"
      /\ Len(c.get) = 0 /\ DOMAIN c.get = 1 .. 0
  BY <1>1
<1>3. Shaped(c)
  BY <1>1, <1>2 DEF Shaped
<1>4. /\ Share(k, "munmap") = {"dmabuf", "refcount"}
      /\ Share(k, "dma_buf_put") = {"dmabuf"}
      /\ Share(k, "dmabuf_exp_vm_close") = {"refcount"}
      /\ Lent(k, "dma_buf_put") = {"dmabuf"}
      /\ Lent(k, "dmabuf_exp_vm_close") = {"refcount"}
  BY Lemma_Shares, Lemma_Lent DEF OtherCalls
<1>5. TwoTake(k, c, 1, {"refcount"}, 2, {"dmabuf"})
  BY <1>2, <1>4 DEF TwoTake, Refs
<1>6. \A i \in 1 .. Len(c.put) : Releasable(k, c.put[i])
  <2>1. Releasable(k, "dma_buf_put")
    BY <1>4 DEF Releasable, Stock, Counters
  <2>2. Releasable(k, "dmabuf_exp_vm_close")
    BY <1>4 DEF Releasable, Stock, Called
  <2> QED
    BY <1>2, <2>1, <2>2
<1>7. Gives(k, "munmap", c, 1, {"refcount"}, 2, {"dmabuf"})
  BY <1>1, <1>4, <1>5, <1>6 DEF Gives
<1>8. Keeps(k, "munmap")
  BY <1>7, Lemma_Releases DEF c
<1> QED
  BY <1>1, <1>3, <1>8 DEF c

\* The end of a map puts the reference to the buffer.
LEMMA Lemma_dmabuf_exp_vm_close ==
  ASSUME NEW k \in Qdmabuf!Kinds
  PROVE  LET c == Qdmabuf!Code["dmabuf_exp_vm_close"] IN
         Shaped(c) /\ ~c.through /\ Keeps(k, "dmabuf_exp_vm_close")
<1> DEFINE c == Qdmabuf!Code["dmabuf_exp_vm_close"]
           m == Turn[k]
           l == <<"exp_vmalloc_buffer_put", "exp_dma_sg_buffer_put",
                  "exp_dma_contig_buffer_put">>
<1>1. /\ c.get = << >> /\ c.put = l /\ ~c.through /\ c.when = "always"
  BY DEF Qdmabuf!Code, Qdmabuf!dmabuf_exp_vm_close, Qdmabuf!Releases,
         Qdmabuf!Script
<1> HIDE DEF c
<1>2. /\ Len(c.put) = 3 /\ DOMAIN c.put = 1 .. 3
      /\ Len(c.get) = 0 /\ DOMAIN c.get = 1 .. 0
  BY <1>1
<1>3. Shaped(c)
  BY <1>1, <1>2 DEF Shaped
<1>4. /\ m \in 1 .. 3 /\ l[m] = PutOf[k]
      /\ \A j \in 1 .. 3 : /\ l[j] \in Foreign(k) <=> j # m
                           /\ Share(k, l[j]) = IF j = m THEN {"refcount"}
                                ELSE {}
  BY Lemma_OfKind
<1>5. \A j \in 1 .. 3 : l[j] \notin Stock \cup Refs
  BY DEF Stock, Refs
<1> HIDE DEF l, m
<1>6. /\ Share(k, "dmabuf_exp_vm_close") = {"refcount"}
      /\ Lent(k, l[m]) = Share(k, l[m]) /\ l[m] \in Counters(k)
  BY <1>4, Lemma_Shares, Lemma_Lent DEF Counters
<1>7. \A i \in 1 .. Len(c.put) : Releasable(k, c.put[i])
  BY <1>1, <1>2, <1>4, <1>5, <1>6 DEF Releasable, Refs
<1>8. /\ m - 1 \in Nat /\ m - 1 < m /\ m \in Nat /\ m # 0
  BY <1>4
<1>9. TwoTake(k, c, m - 1, {}, m, {"refcount"})
  BY <1>1, <1>2, <1>4, <1>8 DEF TwoTake, Refs
<1>10. Keeps(k, "dmabuf_exp_vm_close")
  <2> DEFINE n == m - 1
  <2>1. TwoTake(k, c, n, {}, m, {"refcount"})
    BY <1>9
  <2> HIDE DEF n
  <2>2. Gives(k, "dmabuf_exp_vm_close", c, n, {}, m, {"refcount"})
    BY <1>1, <1>6, <1>7, <1>8, <2>1 DEF Gives
  <2> QED
    BY <2>2, Lemma_Releases DEF c
<1> QED
  BY <1>1, <1>3, <1>10 DEF c

\* What an importer and the ioctl that describes a buffer release.
LEMMA Lemma_Detach ==
  ASSUME NEW k \in Qdmabuf!Kinds, NEW c,
         Joined(c.put, Qdmabuf!Detach, <<"dma_buf_put">>)
  PROVE  /\ Len(c.put) = 4 /\ DOMAIN c.put = 1 .. 4
         /\ c.put[1] = "exp_vmalloc_detach" /\ c.put[4] = "dma_buf_put"
         /\ Turn[k] \in 1 .. 3
         /\ TwoTake(k, c, Turn[k], {"attach"}, 4, {"dmabuf"})
         /\ \A i \in 1 .. Len(c.put) : Releasable(k, c.put[i])
         /\ Qdmabuf!U!Place(c.put, "exp_vmalloc_detach") = 1
         /\ Qdmabuf!U!Place(c.put, "dma_buf_put") = 4
<1> DEFINE m == Turn[k]
           l == <<"exp_vmalloc_detach", "exp_dma_sg_detach",
                  "exp_dma_contig_detach">>
           d == <<"dma_buf_put">>
           S == {"exp_vmalloc_detach", "exp_dma_sg_detach",
                 "exp_dma_contig_detach", "dma_buf_put"}
<1>1. /\ l \in Seq(S) /\ Len(l) = 3 /\ d \in Seq(S) /\ Len(d) = 1
      /\ l[1] = "exp_vmalloc_detach" /\ l[2] = "exp_dma_sg_detach"
      /\ l[3] = "exp_dma_contig_detach" /\ d[1] = "dma_buf_put"
  OBVIOUS
<1>0. l \in Seq(S) /\ d \in Seq(S)
  OBVIOUS
<1>2. Joined(c.put, l, d)
  BY DEF Joined, Qdmabuf!Detach
<1>3. /\ m \in 1 .. 3 /\ l[m] = DetachOf[k]
      /\ \A j \in 1 .. 3 : /\ l[j] \in Foreign(k) <=> j # m
                           /\ Share(k, l[j]) = IF j = m THEN {"attach"} ELSE {}
  BY Lemma_OfKind
<1>4. \A j \in 1 .. 3 : l[j] \notin Stock \cup Refs
  BY DEF Stock, Refs
<1> HIDE DEF l, d, m, S
<1>5. /\ c.put \in Seq(S) /\ Len(c.put) = Len(l) + Len(d)
      /\ \A i \in 1 .. Len(l) : c.put[i] = l[i]
      /\ \A i \in 1 .. Len(d) : c.put[Len(l) + i] = d[i]
  <2> DEFINE u == c.put
  <2>1. Joined(u, l, d)
    BY <1>2
  <2> HIDE DEF u
  <2>2. u \in Seq(S) /\ Len(u) = Len(l) + Len(d)
    BY <1>0, <2>1, ListJoin
  <2>3. \A i \in 1 .. Len(l) : u[i] = l[i]
    BY <1>0, <2>1, ListJoin
  <2>4. \A i \in 1 .. Len(d) : u[Len(l) + i] = d[i]
    BY <1>0, <2>1, ListJoin
  <2> QED
    BY <2>2, <2>3, <2>4 DEF u
<1>6. /\ Len(c.put) = 4 /\ DOMAIN c.put = 1 .. 4
      /\ \A i \in 1 .. 3 : c.put[i] = l[i]
      /\ c.put[4] = "dma_buf_put"
  <2>1. Len(c.put) = 4 /\ DOMAIN c.put = 1 .. Len(c.put)
    BY <1>1, <1>5, ListEntries
  <2>2. 1 \in 1 .. Len(d) /\ Len(l) + 1 = 4
    BY <1>1
  <2>3. c.put[4] = d[1]
    BY <1>5, <2>2
  <2> QED
    BY <1>1, <1>5, <2>1, <2>3
<1>7. /\ Lent(k, l[m]) = Share(k, l[m]) /\ l[m] \in Called(k)
      /\ Share(k, "dma_buf_put") = {"dmabuf"}
      /\ Lent(k, "dma_buf_put") = {"dmabuf"}
  BY <1>3, Lemma_Shares, Lemma_Lent DEF Called
<1>8. ASSUME NEW i \in 1 .. Len(c.put) PROVE Releasable(k, c.put[i])
  <2>1. Releasable(k, "dma_buf_put")
    BY <1>7 DEF Releasable, Stock, Counters
  <2>2. \A j \in 1 .. 3 : Releasable(k, l[j])
    BY <1>3, <1>4, <1>7 DEF Releasable, Refs
  <2>3. i \in 1 .. 3 \/ i = 4
    BY <1>6
  <2> QED
    BY <1>6, <2>1, <2>2, <2>3
<1>9. TwoTake(k, c, m, {"attach"}, 4, {"dmabuf"})
  <2>1. ASSUME NEW j \in 1 .. Len(c.put)
        PROVE  Share(k, c.put[j])
                 = IF j = m THEN {"attach"} ELSE IF j = 4 THEN {"dmabuf"}
                   ELSE {}
    <3>1. j \in 1 .. 3 \/ j = 4
      BY <1>6
    <3> QED
      BY <1>3, <1>6, <1>7, <3>1
  <2> QED
    BY <1>3, <1>6, <2>1 DEF TwoTake, Refs
<1>10. \A i \in 1 .. 4 : Qdmabuf!U!Place(c.put, c.put[i]) = i
  <2>1. \A i \in 1 .. 4 : c.put[i] = IF i = 1 THEN "exp_vmalloc_detach"
                                     ELSE IF i = 2 THEN "exp_dma_sg_detach"
                                     ELSE IF i = 3 THEN "exp_dma_contig_detach"
                                     ELSE "dma_buf_put"
    BY <1>1, <1>6
  <2>2. \A i, j \in 1 .. 4 : c.put[i] = c.put[j] => i = j
    BY <2>1
  <2> QED
    BY <1>6, <2>2, Lemma_QPlace
<1>11. /\ c.put[1] = "exp_vmalloc_detach"
       /\ Qdmabuf!U!Place(c.put, "exp_vmalloc_detach") = 1
       /\ Qdmabuf!U!Place(c.put, "dma_buf_put") = 4
  BY <1>1, <1>6, <1>10
<1> QED
  BY <1>3, <1>6, <1>8, <1>9, <1>11 DEF m

\* An importer that detaches puts the attachment and then the dma-buf.
LEMMA Lemma_unimport ==
  ASSUME NEW k \in Qdmabuf!Kinds
  PROVE  LET c == Qdmabuf!Code["unimport"] IN
         Shaped(c) /\ ~c.through /\ Keeps(k, "unimport")
<1> DEFINE c == Qdmabuf!Code["unimport"]
           m == Turn[k]
<1>1. /\ c.get = << >> /\ Joined(c.put, Qdmabuf!Detach, <<"dma_buf_put">>)
      /\ ~c.through /\ c.when = "always"
  BY DEF Joined, Qdmabuf!Code, Qdmabuf!unimport, Qdmabuf!Releases,
         Qdmabuf!Script
<1> HIDE DEF c
<1>2. /\ Len(c.put) = 4 /\ DOMAIN c.put = 1 .. 4 /\ m \in 1 .. 3
      /\ TwoTake(k, c, m, {"attach"}, 4, {"dmabuf"})
      /\ \A i \in 1 .. Len(c.put) : Releasable(k, c.put[i])
  BY <1>1, Lemma_Detach
<1> HIDE DEF m
<1>3. Shaped(c)
  BY <1>1, <1>2 DEF Shaped
<1>4. Share(k, "unimport") = {"dmabuf", "attach"}
  BY Lemma_Shares DEF AppCalls
<1>5. Gives(k, "unimport", c, m, {"attach"}, 4, {"dmabuf"})
  BY <1>1, <1>2, <1>4 DEF Gives
<1> QED
  BY <1>1, <1>3, <1>5, Lemma_Releases DEF c

\* The function of this kind that detaches gives the attachment back.
LEMMA Lemma_detach ==
  ASSUME NEW k \in Qdmabuf!Kinds
  PROVE  LET c == Qdmabuf!Code[DetachOf[k]] IN
         Shaped(c) /\ ~c.through /\ Keeps(k, DetachOf[k])
<1> DEFINE p == DetachOf[k]
           c == Qdmabuf!Code[p]
<1>1. /\ c.get = << >> /\ ~c.through /\ c.when = "always"
      /\ c.put = <<"mapped_to", "mapped_from", "attach_table", "attach">>
  <2> USE DEF Qdmabuf!Code, Qdmabuf!Releases, Qdmabuf!Script, DetachOf
  <2>1. CASE k = "vmalloc"
    BY <2>1 DEF Qdmabuf!exp_vmalloc_detach
  <2>2. CASE k = "dma_sg"
    BY <2>2 DEF Qdmabuf!exp_dma_sg_detach
  <2>3. CASE k = "dma_contig"
    BY <2>3 DEF Qdmabuf!exp_dma_contig_detach
  <2> QED
    BY <2>1, <2>2, <2>3 DEF Qdmabuf!Kinds
<1> HIDE DEF c, p
<1>2. /\ Len(c.put) = 4 /\ DOMAIN c.put = 1 .. 4
      /\ c.put[1] = "mapped_to" /\ c.put[2] = "mapped_from"
      /\ c.put[3] = "attach_table" /\ c.put[4] = "attach"
      /\ Len(c.get) = 0 /\ DOMAIN c.get = 1 .. 0
  BY <1>1
<1>3. Shaped(c)
  BY <1>1, <1>2 DEF Shaped
<1>4. {"mapped_to", "mapped_from", "attach_table"}
        \subseteq Qdmabuf!Resources \ Watched
  BY DEF Qdmabuf!Resources, Qdmabuf!Dirs, Watched, Refs, Stock
<1>5. /\ \A i \in 1 .. 3 : Share(k, c.put[i]) = {} /\ Releasable(k, c.put[i])
      /\ Share(k, "attach") = {"attach"} /\ Share(k, p) = {"attach"}
  <2>1. \A i \in 1 .. 3 : c.put[i] \in Qdmabuf!Resources \ Watched
    BY <1>2, <1>4
  <2>2. \A w \in Qdmabuf!Resources \ Watched : Share(k, w) = {}
          /\ Releasable(k, w)
    BY Lemma_Things DEF Watched
  <2> QED
    BY <2>1, <2>2, Lemma_Shares DEF Refs, p
<1>6. Releasable(k, "attach")
  <2>1. "attach" \notin DOMAIN Qdmabuf!Code
    BY Lemma_Things DEF Watched, Refs
  <2> QED
    BY <2>1 DEF Releasable, Stock
<1>7. TwoTake(k, c, 0, {}, 4, {"attach"})
  <2>1. \A j \in 1 .. 4 : j \in 1 .. 3 \/ j = 4
    OBVIOUS
  <2> QED
    BY <1>2, <1>5, <2>1 DEF TwoTake, Refs
<1>8. \A i \in 1 .. Len(c.put) : Releasable(k, c.put[i])
  <2>1. \A j \in 1 .. 4 : j \in 1 .. 3 \/ j = 4
    OBVIOUS
  <2> QED
    BY <1>2, <1>5, <1>6, <2>1
<1>9. Gives(k, p, c, 0, {}, 4, {"attach"})
  BY <1>1, <1>5, <1>7, <1>8 DEF Gives
<1> QED
  BY <1>1, <1>3, <1>9, Lemma_Releases DEF c, p

\* A function whose m-th step is the one that gives something, and all whose
\* other steps are of things that are no references.
Takes(k, p, c, m, x) ==
  /\ Shaped(c) /\ ~c.through /\ m \in 1 .. Len(c.get)
  /\ x \in Refs /\ x \notin Lent(k, p) /\ Lent(k, p) \cup {x} = Share(k, p)
  /\ \A i \in 1 .. Len(c.get) :
       /\ c.get[i].what \notin Foreign(k)
       /\ Share(k, c.get[i].what) = IF i = m THEN {x} ELSE {}
       /\ Obtainable(k, c.get[i])
       /\ c.get[i].label = "continue" => i # m \/ c.get[i].what = "refcount"
       /\ c.get[i].label # "continue" => ~c.get[i].quiet
       /\ c.get[i].label # "continue" =>
            \/ c.get[i].what = "dmabuf_exp_vm_open"
            \/ Owed(k, c, Qdmabuf!U!Place(c.put, c.get[i].label))
                 = Lent(k, p) \cup (IF m < i THEN {x} ELSE {})
  /\ \A i \in 1 .. Len(c.put) : DropKeeps(k, p, c, i)

\* A function that takes one reference, or fails without it, keeps its
\* balance.
LEMMA Lemma_Takes ==
  ASSUME NEW k, NEW p, NEW m, NEW x, Takes(k, p, Qdmabuf!Code[p], m, x)
  PROVE  Keeps(k, p)
<1> DEFINE c == Qdmabuf!Code[p]
           n == Len(c.get)
<1>1. /\ Shaped(c) /\ ~c.through /\ m \in 1 .. n /\ n \in Nat
      /\ x \in Refs /\ x \notin Lent(k, p) /\ Lent(k, p) \cup {x} = Share(k, p)
      /\ \A i \in 1 .. n :
           /\ c.get[i].what \notin Foreign(k)
           /\ Share(k, c.get[i].what) = IF i = m THEN {x} ELSE {}
           /\ Obtainable(k, c.get[i])
           /\ c.get[i].label = "continue" =>
                i # m \/ c.get[i].what = "refcount"
           /\ c.get[i].label # "continue" => ~c.get[i].quiet
           /\ c.get[i].label # "continue" =>
                \/ c.get[i].what = "dmabuf_exp_vm_open"
                \/ Owed(k, c, Qdmabuf!U!Place(c.put, c.get[i].label))
                     = Lent(k, p) \cup (IF m < i THEN {x} ELSE {})
      /\ \A i \in 1 .. Len(c.put) : DropKeeps(k, p, c, i)
  <2>1. Takes(k, p, c, m, x)
    OBVIOUS
  <2>2. Shaped(c) => n \in Nat
    BY DEF Shaped
  <2> HIDE DEF c
  <2> QED
    BY <2>1, <2>2 DEF Takes
<1> HIDE DEF c, n
<1>6. c.get # << >>
  BY <1>1, ListEmpty DEF n
<1>2. OneGives(k, c, m, {x})
  <2>1. m \in Nat /\ {x} \in SUBSET Refs /\ Len(c.get) \in Nat
    BY <1>1 DEF n
  <2> QED
    BY <1>1, <2>1 DEF OneGives, n
<1>3. \A i \in 1 .. n + 1 : Gained(k, c, i) = IF m < i THEN {x} ELSE {}
  <2>1. \A i \in 1 .. Len(c.get) + 1 :
          Gained(k, c, i) = IF 1 <= m /\ m < i THEN {x} ELSE {}
    BY <1>2, Lemma_Gained
  <2> QED
    BY <1>1, <2>1 DEF n
<1>4. ASSUME NEW i \in 1 .. n PROVE StepKeeps(k, p, c, i)
  <2> DEFINE s == c.get[i]
             g == IF m < i THEN {x} ELSE {}
  <2>1. /\ s.what \notin Foreign(k) /\ Obtainable(k, s)
        /\ Share(k, s.what) = IF i = m THEN {x} ELSE {}
        /\ s.label = "continue" => i # m \/ s.what = "refcount"
        /\ s.label # "continue" => ~s.quiet
        /\ s.label # "continue" =>
             \/ s.what = "dmabuf_exp_vm_open"
             \/ Owed(k, c, Qdmabuf!U!Place(c.put, s.label))
                  = Lent(k, p) \cup g
    BY <1>1
  <2>2. Gained(k, c, i) = g
    BY <1>1, <1>3
  <2>3. Share(k, s.what) \subseteq Share(k, p) \ (Lent(k, p) \cup g)
    BY <1>1, <2>1
  <2> HIDE DEF s, g
  <2> QED
    BY <2>1, <2>2, <2>3 DEF StepKeeps, s
<1>5. Lent(k, p) \cup Gained(k, c, n + 1) = Share(k, p)
  BY <1>1, <1>3
<1> QED
  BY <1>1, <1>4, <1>5, <1>6 DEF Keeps, c, n

\* A map is counted when it is opened, and when a process that has it forks.
LEMMA Lemma_dmabuf_exp_vm_open ==
  ASSUME NEW k \in Qdmabuf!Kinds
  PROVE  LET c == Qdmabuf!Code["dmabuf_exp_vm_open"] IN
         Shaped(c) /\ ~c.through /\ Keeps(k, "dmabuf_exp_vm_open")
<1> DEFINE c == Qdmabuf!Code["dmabuf_exp_vm_open"]
<1>1. /\ Len(c.get) = 1 /\ DOMAIN c.get = 1 .. 1 /\ c.get # << >>
      /\ c.get[1].what = "refcount" /\ c.get[1].label = "continue"
      /\ ~c.get[1].drop
      /\ c.put = << >> /\ ~c.through /\ c.when = "always"
  BY DEF Qdmabuf!Code, Qdmabuf!dmabuf_exp_vm_open, Qdmabuf!Script,
         Qdmabuf!Regardless, Qdmabuf!Step
<1> HIDE DEF c
<1>2. Len(c.put) = 0 /\ DOMAIN c.put = 1 .. 0
  BY <1>1
<1>3. Shaped(c)
  BY <1>1, <1>2 DEF Shaped
<1>4. /\ Share(k, "dmabuf_exp_vm_open") = {"refcount"}
      /\ Lent(k, "dmabuf_exp_vm_open") = {}
      /\ Share(k, "refcount") = {"refcount"}
  BY Lemma_Shares, Lemma_Lent DEF Refs
<1>5. Obtainable(k, c.get[1]) /\ "refcount" \notin Foreign(k)
  <2>1. "refcount" \notin DOMAIN Qdmabuf!Code
    BY Lemma_Things DEF Watched, Refs
  <2>2. "refcount" \notin Foreign(k)
    BY DEF Foreign, Qdmabuf!Kinds, Qdmabuf!Of
  <2> QED
    BY <1>1, <2>1, <2>2 DEF Obtainable, Stock
<1>6. Takes(k, "dmabuf_exp_vm_open", c, 1, "refcount")
  BY <1>1, <1>2, <1>3, <1>4, <1>5 DEF Takes, Refs
<1> QED
  BY <1>1, <1>3, <1>6, Lemma_Takes DEF c

\* A fork calls it for the new map.
LEMMA Lemma_fork ==
  ASSUME NEW k \in Qdmabuf!Kinds
  PROVE  LET c == Qdmabuf!Code["fork"] IN
         Shaped(c) /\ ~c.through /\ Keeps(k, "fork")
<1> DEFINE c == Qdmabuf!Code["fork"]
<1>1. /\ Len(c.get) = 1 /\ DOMAIN c.get = 1 .. 1 /\ c.get # << >>
      /\ c.get[1].what = "dmabuf_exp_vm_open" /\ c.get[1].label = "return"
      /\ ~c.get[1].drop /\ ~c.get[1].quiet
      /\ c.put = << >> /\ ~c.through /\ c.when = "always"
  BY DEF Qdmabuf!Code, Qdmabuf!fork, Qdmabuf!Script, Qdmabuf!On, Qdmabuf!Step
<1> HIDE DEF c
<1>2. Len(c.put) = 0 /\ DOMAIN c.put = 1 .. 0
  BY <1>1
<1>3. Shaped(c)
  BY <1>1, <1>2 DEF Shaped
<1>4. /\ Share(k, "dmabuf_exp_vm_open") = {"refcount"}
      /\ Lent(k, "dmabuf_exp_vm_open") = {} /\ Lent(k, "fork") = {"dmabuf"}
      /\ Share(k, "fork") = {"dmabuf", "refcount"}
  BY Lemma_Shares, Lemma_Lent DEF OtherCalls
<1>5. Obtainable(k, c.get[1]) /\ "dmabuf_exp_vm_open" \notin Foreign(k)
  <2>1. "dmabuf_exp_vm_open" \notin Foreign(k)
    BY DEF Foreign, Qdmabuf!Kinds, Qdmabuf!Of
  <2> QED
    BY <1>1, <1>4, <2>1 DEF Obtainable, Stock, Called
<1>6. Takes(k, "fork", c, 1, "refcount")
  BY <1>1, <1>2, <1>3, <1>4, <1>5 DEF Takes, Refs
<1> QED
  BY <1>1, <1>3, <1>6, Lemma_Takes DEF c

\* The map of a buffer's kind.
LEMMA Lemma_kind_mmap ==
  ASSUME NEW k \in Qdmabuf!Kinds
  PROVE  LET c == Qdmabuf!Code[MmapOf[k]] IN
         Shaped(c) /\ ~c.through /\ Keeps(k, MmapOf[k])
<1> DEFINE p == MmapOf[k]
           c == Qdmabuf!Code[p]
<1>1. /\ Len(c.get) = 2 /\ DOMAIN c.get = 1 .. 2
      /\ c.get[1].what = "remap" /\ c.get[1].label = "return"
      /\ ~c.get[1].drop /\ ~c.get[1].quiet
      /\ c.get[2].what = "dmabuf_exp_vm_open" /\ c.get[2].label = "return"
      /\ ~c.get[2].drop /\ ~c.get[2].quiet
      /\ c.put = << >> /\ ~c.through /\ c.when = "always"
  <2> USE DEF Qdmabuf!Code, Qdmabuf!Script, MmapOf, Qdmabuf!On, Qdmabuf!Step
  <2>1. CASE k = "vmalloc"
    BY <2>1 DEF Qdmabuf!exp_vmalloc_mmap
  <2>2. CASE k = "dma_sg"
    BY <2>2 DEF Qdmabuf!exp_dma_sg_mmap
  <2>3. CASE k = "dma_contig"
    BY <2>3 DEF Qdmabuf!exp_dma_contig_mmap
  <2> QED
    BY <2>1, <2>2, <2>3 DEF Qdmabuf!Kinds
<1> HIDE DEF c, p
<1>2. Len(c.put) = 0 /\ DOMAIN c.put = 1 .. 0 /\ c.get # << >>
  BY <1>1, ListEmpty
<1>3. Shaped(c)
  BY <1>1, <1>2 DEF Shaped
<1>4. /\ Share(k, "dmabuf_exp_vm_open") = {"refcount"}
      /\ Lent(k, "dmabuf_exp_vm_open") = {} /\ Lent(k, p) = {}
      /\ Share(k, p) = {"refcount"}
  BY Lemma_Shares, Lemma_Lent DEF p
<1>5. /\ Obtainable(k, c.get[2]) /\ Obtainable(k, c.get[1])
      /\ Share(k, "remap") = {}
      /\ c.get[1].what \notin Foreign(k) /\ c.get[2].what \notin Foreign(k)
  <2>1. "dmabuf_exp_vm_open" \notin Foreign(k) /\ "remap" \notin Foreign(k)
    BY DEF Foreign, Qdmabuf!Kinds, Qdmabuf!Of
  <2>2. "remap" \in Qdmabuf!Resources \ Watched
    BY DEF Qdmabuf!Resources, Watched, Refs, Stock
  <2>3. Obtainable(k, c.get[2])
    BY <1>1, <1>4 DEF Obtainable, Stock, Called
  <2>4. Obtainable(k, c.get[1]) /\ Share(k, "remap") = {}
    BY <1>1, <2>2, Lemma_Things DEF Watched
  <2> QED
    BY <1>1, <2>1, <2>3, <2>4
<1>6. Owed(k, c, Qdmabuf!U!Place(c.put, "return")) = {}
  <2>1. Qdmabuf!U!Place(c.put, "return") = 1
    BY <1>2, Lemma_QNoPlace
  <2> QED
    BY <1>2, <2>1, Lemma_OwedEnd
<1>7. Takes(k, p, c, 2, "refcount")
  <2>1. \A i \in 1 .. 2 : i = 1 \/ i = 2
    OBVIOUS
  <2> QED
    BY <1>1, <1>2, <1>3, <1>4, <1>5, <1>6, <2>1 DEF Takes, Refs
<1> QED
  BY <1>1, <1>3, <1>7, Lemma_Takes DEF c, p

\* What an attachment is made of besides.
LEMMA Lemma_AttachThings ==
  ASSUME NEW k \in Qdmabuf!Kinds
  PROVE  /\ \A w \in {"attach_table", "page"} :
              Share(k, w) = {} /\ Releasable(k, w) /\ w \notin Foreign(k)
         /\ Share(k, "attach") = {"attach"} /\ "attach" \notin Foreign(k)
         /\ Releasable(k, "attach")
         /\ \A s : s.what \in {"attach", "attach_table", "page"} /\ ~s.drop =>
              Obtainable(k, s)
         /\ Share(k, AttachOf[k]) = {"attach"} /\ Lent(k, AttachOf[k]) = {}
<1>1. /\ {"attach_table", "page"} \subseteq Qdmabuf!Resources \ Watched
      /\ "attach" \in Watched /\ "attach" \in Refs
      /\ "attach" \notin Stock \cup {"dmabuf", "refcount"}
  BY DEF Qdmabuf!Resources, Qdmabuf!Dirs, Watched, Refs, Stock
<1>2. \A w \in {"attach_table", "page"} : Share(k, w) = {} /\ Releasable(k, w)
  BY <1>1, Lemma_Things DEF Watched
<1>3. \A w \in {"attach", "attach_table", "page"} : w \notin Foreign(k)
  BY DEF Foreign, Qdmabuf!Kinds, Qdmabuf!Of
<1>4. "attach" \notin DOMAIN Qdmabuf!Code
  BY <1>1, Lemma_Things
<1>5. Releasable(k, "attach")
  BY <1>1, <1>4 DEF Releasable
<1>6. ASSUME NEW s, s.what \in {"attach", "attach_table", "page"}, ~s.drop
      PROVE  Obtainable(k, s)
  <2>1. CASE s.what = "attach"
    BY <1>1, <1>4, <1>6, <2>1 DEF Obtainable
  <2>2. CASE s.what # "attach"
    BY <1>1, <1>6, <2>2, Lemma_Things
  <2> QED
    BY <2>1, <2>2
<1> QED
  BY <1>1, <1>2, <1>3, <1>5, <1>6, Lemma_Shares, Lemma_Lent

\* The attachment to a vmalloc buffer, and to another.
LEMMA Lemma_exp_vmalloc_attach ==
  ASSUME NEW k \in Qdmabuf!Kinds, k = "vmalloc"
  PROVE  LET c == Qdmabuf!Code[AttachOf[k]] IN
         Shaped(c) /\ ~c.through /\ Keeps(k, AttachOf[k])
<1> DEFINE p == AttachOf[k]
           c == Qdmabuf!Code[p]
<1>1. /\ Len(c.get) = 3 /\ DOMAIN c.get = 1 .. 3
      /\ c.get[1].what = "attach" /\ c.get[1].label = "return"
      /\ ~c.get[1].drop /\ ~c.get[1].quiet
      /\ c.get[2].what = "attach_table" /\ c.get[2].label = "attach"
      /\ ~c.get[2].drop /\ ~c.get[2].quiet
      /\ c.get[3].what = "page" /\ c.get[3].label = "attach_table"
      /\ ~c.get[3].drop /\ ~c.get[3].quiet
      /\ c.put = <<"attach_table", "attach">> /\ ~c.through
      /\ c.when = "always"
  BY DEF Qdmabuf!Code, Qdmabuf!Script, AttachOf, Qdmabuf!On, Qdmabuf!Step,
         Qdmabuf!exp_vmalloc_attach
<1> HIDE DEF c, p
<1>2. /\ Len(c.put) = 2 /\ DOMAIN c.put = 1 .. 2 /\ c.get # << >>
      /\ c.put[1] = "attach_table" /\ c.put[2] = "attach"
  BY <1>1, ListEmpty
<1>3. Shaped(c)
  BY <1>1, <1>2 DEF Shaped
<1>4. /\ \A i \in 1 .. 3 : /\ Obtainable(k, c.get[i])
                           /\ c.get[i].what \notin Foreign(k)
                           /\ Share(k, c.get[i].what)
                                = IF i = 1 THEN {"attach"} ELSE {}
      /\ Share(k, "attach_table") = {} /\ Share(k, "attach") = {"attach"}
      /\ \A i \in 1 .. Len(c.put) : Releasable(k, c.put[i])
      /\ Share(k, p) = {"attach"} /\ Lent(k, p) = {}
  <2>1. \A i \in 1 .. 3 : i = 1 \/ i = 2 \/ i = 3
    OBVIOUS
  <2>2. \A i \in 1 .. 2 : i = 1 \/ i = 2
    OBVIOUS
  <2> QED
    BY <1>1, <1>2, <2>1, <2>2, Lemma_AttachThings DEF p
<1>5. TwoTake(k, c, 0, {}, 2, {"attach"})
  <2>1. \A i \in 1 .. 2 : i = 1 \/ i = 2
    OBVIOUS
  <2> QED
    BY <1>2, <1>4, <2>1 DEF TwoTake, Refs
<1>6. \A i \in 1 .. Len(c.put) : DropKeeps(k, p, c, i)
  BY <1>4, <1>5, Lemma_Drops
<1>7. /\ Owed(k, c, 1) = {"attach"} /\ Owed(k, c, 2) = {"attach"}
      /\ Owed(k, c, 3) = {}
  BY <1>2, <1>5, Lemma_Owed
<1>8. /\ Qdmabuf!U!Place(c.put, "return") = 3
      /\ Qdmabuf!U!Place(c.put, "attach_table") = 1
      /\ Qdmabuf!U!Place(c.put, "attach") = 2
  <2>1. \A i \in DOMAIN c.put : c.put[i] # "return"
    BY <1>2
  <2>2. Qdmabuf!U!Place(c.put, "return") = Len(c.put) + 1
    BY <2>1, Lemma_QNoPlace
  <2>3. \A i, j \in 1 .. 2 : c.put[i] = c.put[j] => i = j
    BY <1>2
  <2>4. \A i \in 1 .. 2 : Qdmabuf!U!Place(c.put, c.put[i]) = i
    BY <1>2, <2>3, Lemma_QPlace
  <2> QED
    BY <1>2, <2>2, <2>4
<1>9. Takes(k, p, c, 1, "attach")
  <2>1. \A i \in 1 .. 3 : i = 1 \/ i = 2 \/ i = 3
    OBVIOUS
  <2>2. \A i \in 1 .. 3 :
          /\ c.get[i].label # "continue" /\ ~c.get[i].quiet
          /\ Owed(k, c, Qdmabuf!U!Place(c.put, c.get[i].label))
               = Lent(k, p) \cup (IF 1 < i THEN {"attach"} ELSE {})
    BY <1>1, <1>4, <1>7, <1>8, <2>1
  <2> QED
    BY <1>1, <1>3, <1>4, <1>6, <2>2 DEF Takes, Refs
<1> QED
  BY <1>1, <1>3, <1>9, Lemma_Takes DEF c, p

\* The same for the two other kinds.
LEMMA Lemma_exp_dma_attach ==
  ASSUME NEW k \in Qdmabuf!Kinds, k # "vmalloc"
  PROVE  LET c == Qdmabuf!Code[AttachOf[k]] IN
         Shaped(c) /\ ~c.through /\ Keeps(k, AttachOf[k])
<1> DEFINE p == AttachOf[k]
           c == Qdmabuf!Code[p]
<1>1. /\ Len(c.get) = 2 /\ DOMAIN c.get = 1 .. 2
      /\ c.get[1].what = "attach" /\ c.get[1].label = "return"
      /\ ~c.get[1].drop /\ ~c.get[1].quiet
      /\ c.get[2].what = "attach_table" /\ c.get[2].label = "attach"
      /\ ~c.get[2].drop /\ ~c.get[2].quiet
      /\ c.put = <<"attach">> /\ ~c.through /\ c.when = "always"
  <2> USE DEF Qdmabuf!Code, Qdmabuf!Script, AttachOf, Qdmabuf!On, Qdmabuf!Step
  <2>1. CASE k = "dma_sg"
    BY <2>1 DEF Qdmabuf!exp_dma_sg_attach
  <2>2. CASE k = "dma_contig"
    BY <2>2 DEF Qdmabuf!exp_dma_contig_attach
  <2> QED
    BY <2>1, <2>2 DEF Qdmabuf!Kinds
<1> HIDE DEF c, p
<1>2. /\ Len(c.put) = 1 /\ DOMAIN c.put = 1 .. 1 /\ c.get # << >>
      /\ c.put[1] = "attach"
  BY <1>1, ListEmpty
<1>3. Shaped(c)
  BY <1>1, <1>2 DEF Shaped
<1>4. /\ \A i \in 1 .. 2 : /\ Obtainable(k, c.get[i])
                           /\ c.get[i].what \notin Foreign(k)
                           /\ Share(k, c.get[i].what)
                                = IF i = 1 THEN {"attach"} ELSE {}
      /\ Share(k, "attach") = {"attach"}
      /\ \A i \in 1 .. Len(c.put) : Releasable(k, c.put[i])
      /\ Share(k, p) = {"attach"} /\ Lent(k, p) = {}
  <2>1. \A i \in 1 .. 2 : i = 1 \/ i = 2
    OBVIOUS
  <2>2. \A i \in 1 .. 1 : i = 1
    OBVIOUS
  <2> QED
    BY <1>1, <1>2, <2>1, <2>2, Lemma_AttachThings DEF p
<1>5. TwoTake(k, c, 0, {}, 1, {"attach"})
  BY <1>2, <1>4 DEF TwoTake, Refs
<1>6. \A i \in 1 .. Len(c.put) : DropKeeps(k, p, c, i)
  BY <1>4, <1>5, Lemma_Drops
<1>7. Owed(k, c, 1) = {"attach"} /\ Owed(k, c, 2) = {}
  BY <1>2, <1>5, Lemma_Owed
<1>8. /\ Qdmabuf!U!Place(c.put, "return") = 2
      /\ Qdmabuf!U!Place(c.put, "attach") = 1
  <2>1. \A i \in DOMAIN c.put : c.put[i] # "return"
    BY <1>2
  <2>2. Qdmabuf!U!Place(c.put, "return") = Len(c.put) + 1
    BY <2>1, Lemma_QNoPlace
  <2>3. \A i, j \in 1 .. 1 : c.put[i] = c.put[j] => i = j
    BY <1>2
  <2>4. \A i \in 1 .. 1 : Qdmabuf!U!Place(c.put, c.put[i]) = i
    BY <1>2, <2>3, Lemma_QPlace
  <2> QED
    BY <1>2, <2>2, <2>4
<1>9. Takes(k, p, c, 1, "attach")
  <2>1. \A i \in 1 .. 2 : i = 1 \/ i = 2
    OBVIOUS
  <2>2. \A i \in 1 .. 2 :
          /\ c.get[i].label # "continue" /\ ~c.get[i].quiet
          /\ Owed(k, c, Qdmabuf!U!Place(c.put, c.get[i].label))
               = Lent(k, p) \cup (IF 1 < i THEN {"attach"} ELSE {})
    BY <1>1, <1>4, <1>7, <1>8, <2>1
  <2> QED
    BY <1>1, <1>3, <1>4, <1>6, <2>2 DEF Takes, Refs
<1> QED
  BY <1>1, <1>3, <1>9, Lemma_Takes DEF c, p

\* The ioctl that describes a buffer: it attaches to it and maps it meanwhile.
LEMMA Lemma_infoBody ==
  LET c == Qdmabuf!Code["qdmabuf_ioctl_info"]
      l == <<"exp_vmalloc_attach", "exp_dma_sg_attach",
             "exp_dma_contig_attach">>
  IN
  /\ Len(c.get) = 6 /\ DOMAIN c.get = 1 .. 6 /\ c.get # << >>
  /\ \A j \in 1 .. 3 :
       /\ c.get[j].what = l[j] /\ c.get[j].label = "dma_buf_put"
       /\ ~c.get[j].quiet /\ ~c.get[j].drop
  /\ \A j \in 4 .. 6 :
       /\ c.get[j].what \in {"exp_vmalloc_map_from", "exp_dma_sg_map_from",
                             "exp_dma_contig_map_from"}
       /\ c.get[j].label = "exp_vmalloc_detach"
       /\ ~c.get[j].quiet /\ ~c.get[j].drop
  /\ Joined(c.put, Qdmabuf!Detach, <<"dma_buf_put">>)
  /\ c.through /\ c.when = "always"
<1> DEFINE c == Qdmabuf!Code["qdmabuf_ioctl_info"]
           l == <<"exp_vmalloc_attach", "exp_dma_sg_attach",
                  "exp_dma_contig_attach">>
           x == Qdmabuf!Attach("dma_buf_put")
           y == Qdmabuf!MapFrom("exp_vmalloc_detach")
           u == c.get
           S == {x[1], x[2], x[3], y[1], y[2], y[3]}
<1>1. /\ Joined(u, x, y)
      /\ Joined(c.put, Qdmabuf!Detach, <<"dma_buf_put">>)
      /\ c.through /\ c.when = "always"
  BY DEF Joined, Qdmabuf!Code, Qdmabuf!qdmabuf_ioctl_info, Qdmabuf!Script,
         Qdmabuf!Through
<1>2. x \in Seq(S) /\ y \in Seq(S)
  BY DEF Qdmabuf!Attach, Qdmabuf!MapFrom
<1>3. Len(x) = 3 /\ Len(y) = 3
  BY DEF Qdmabuf!Attach, Qdmabuf!MapFrom
<1>4. /\ \A j \in 1 .. 3 :
           /\ x[j].what = l[j] /\ x[j].label = "dma_buf_put"
           /\ ~x[j].quiet /\ ~x[j].drop
      /\ \A j \in 1 .. 3 :
           /\ y[j].what \in {"exp_vmalloc_map_from", "exp_dma_sg_map_from",
                             "exp_dma_contig_map_from"}
           /\ y[j].label = "exp_vmalloc_detach"
           /\ ~y[j].quiet /\ ~y[j].drop
  BY DEF Qdmabuf!Attach, Qdmabuf!MapFrom, Qdmabuf!On, Qdmabuf!Step
<1> HIDE DEF c, x, y, u, S, l
<1>5. u \in Seq(S) /\ Len(u) = Len(x) + Len(y)
  BY <1>1, <1>2, ListJoin
<1>6. \A i \in 1 .. Len(x) : u[i] = x[i]
  BY <1>1, <1>2, ListJoin
<1>7. \A i \in 1 .. Len(y) : u[Len(x) + i] = y[i]
  BY <1>1, <1>2, ListJoin
<1>8. Len(u) = 6 /\ DOMAIN u = 1 .. 6 /\ u # << >>
  <2>1. Len(u) = 6
    BY <1>3, <1>5
  <2>2. DOMAIN u = 1 .. Len(u)
    BY <1>5, ListEntries
  <2> QED
    BY <2>1, <2>2, ListEmpty
<1>9. \A j \in 1 .. 3 : u[j] = x[j]
  BY <1>3, <1>6
<1>10. ASSUME NEW j \in 4 .. 6 PROVE u[j] = y[j - 3] /\ j - 3 \in 1 .. 3
  <2>1. j - 3 \in 1 .. Len(y) /\ Len(x) + (j - 3) = j /\ j - 3 \in 1 .. 3
    BY <1>3
  <2> QED
    BY <1>7, <2>1
<1>11. \A j \in 1 .. 3 :
         /\ u[j].what = l[j] /\ u[j].label = "dma_buf_put"
         /\ ~u[j].quiet /\ ~u[j].drop
  BY <1>4, <1>9
<1>12. \A j \in 4 .. 6 :
         /\ u[j].what \in {"exp_vmalloc_map_from", "exp_dma_sg_map_from",
                           "exp_dma_contig_map_from"}
         /\ u[j].label = "exp_vmalloc_detach" /\ ~u[j].quiet /\ ~u[j].drop
  BY <1>4, <1>10
<1> QED
  BY <1>1, <1>8, <1>11, <1>12 DEF c, u, l

\* The ioctl puts the dma-buf that it looked up and what it got, on every
\* way out.
LEMMA Lemma_qdmabuf_ioctl_info ==
  ASSUME NEW k \in Qdmabuf!Kinds
  PROVE  LET c == Qdmabuf!Code["qdmabuf_ioctl_info"] IN
         Shaped(c) /\ c.through /\ Keeps(k, "qdmabuf_ioctl_info")
<1> DEFINE p == "qdmabuf_ioctl_info"
           c == Qdmabuf!Code[p]
           m == Turn[k]
           l == <<"exp_vmalloc_attach", "exp_dma_sg_attach",
                  "exp_dma_contig_attach">>
<1>1. /\ Len(c.get) = 6 /\ DOMAIN c.get = 1 .. 6 /\ c.get # << >>
      /\ \A j \in 1 .. 3 :
           /\ c.get[j].what = l[j] /\ c.get[j].label = "dma_buf_put"
           /\ ~c.get[j].quiet /\ ~c.get[j].drop
      /\ \A j \in 4 .. 6 :
           /\ c.get[j].what \in {"exp_vmalloc_map_from", "exp_dma_sg_map_from",
                                 "exp_dma_contig_map_from"}
           /\ c.get[j].label = "exp_vmalloc_detach"
           /\ ~c.get[j].quiet /\ ~c.get[j].drop
      /\ Joined(c.put, Qdmabuf!Detach, <<"dma_buf_put">>)
      /\ c.through /\ c.when = "always"
  BY Lemma_infoBody
<1> HIDE DEF c
<1>2. /\ m \in 1 .. 3 /\ l[m] = AttachOf[k]
      /\ \A j \in 1 .. 3 : /\ l[j] \in Foreign(k) <=> j # m
                           /\ Share(k, l[j]) = IF j = m THEN {"attach"} ELSE {}
  BY Lemma_OfKind
<1>3. \A j \in 1 .. 3 : l[j] \notin Stock \cup Refs
  BY DEF Stock, Refs
<1> HIDE DEF m, l
<1>4. /\ Len(c.put) = 4 /\ DOMAIN c.put = 1 .. 4
      /\ TwoTake(k, c, m, {"attach"}, 4, {"dmabuf"})
      /\ \A i \in 1 .. Len(c.put) : Releasable(k, c.put[i])
      /\ Qdmabuf!U!Place(c.put, "exp_vmalloc_detach") = 1
      /\ Qdmabuf!U!Place(c.put, "dma_buf_put") = 4
  BY <1>1, Lemma_Detach DEF m
<1>5. Shaped(c)
  BY <1>1, <1>4 DEF Shaped
<1>6. /\ Share(k, p) = {"dmabuf", "attach"} /\ Lent(k, p) = {"dmabuf"}
      /\ Lent(k, l[m]) = {}
  BY <1>2, Lemma_Shares, Lemma_Lent DEF AppCalls
<1>7. \A i \in 1 .. Len(c.put) : DropKeeps(k, p, c, i)
  BY <1>4, <1>6, Lemma_Drops
<1>8. /\ Owed(k, c, 1) = {"dmabuf", "attach"} /\ Owed(k, c, 4) = {"dmabuf"}
  <2>1. \A i \in 1 .. Len(c.put) + 1 :
          Owed(k, c, i) = (IF i <= m THEN {"attach"} ELSE {}) \cup
                          (IF i <= 4 THEN {"dmabuf"} ELSE {})
    BY <1>4, Lemma_Owed
  <2>2. 1 \in 1 .. Len(c.put) + 1 /\ 4 \in 1 .. Len(c.put) + 1
    BY <1>4
  <2>3. 1 <= m /\ ~(4 <= m)
    BY <1>2
  <2> QED
    BY <2>1, <2>2, <2>3
<1>9. /\ \A j \in 4 .. 6 : /\ c.get[j].what \in Idlers
                           /\ Share(k, c.get[j].what) = {}
                           /\ Obtainable(k, c.get[j])
      /\ \A j \in 1 .. 3 : /\ Share(k, c.get[j].what)
                                = IF j = m THEN {"attach"} ELSE {}
                           /\ Obtainable(k, c.get[j])
  <2>1. {"exp_vmalloc_map_from", "exp_dma_sg_map_from",
         "exp_dma_contig_map_from"} \subseteq Idlers
    BY DEF Idlers
  <2>2. Idlers \cap Watched = {}
    BY DEF Idlers, Watched, Refs, Stock
  <2>3. \A w \in Idlers : Share(k, w) = {} /\ Lent(k, w) = {}
    BY Lemma_Shares, Lemma_Lent
  <2>4. ASSUME NEW j \in 4 .. 6
        PROVE  /\ c.get[j].what \in Idlers /\ Share(k, c.get[j].what) = {}
               /\ Obtainable(k, c.get[j])
    <3>1. c.get[j].what \in Idlers
      BY <1>1, <2>1
    <3> QED
      BY <2>2, <2>3, <3>1 DEF Obtainable, Watched, Refs
  <2>5. ASSUME NEW j \in 1 .. 3
        PROVE  /\ Share(k, c.get[j].what) = IF j = m THEN {"attach"} ELSE {}
               /\ Obtainable(k, c.get[j])
    <3>1. l[j] \notin Foreign(k) => l[j] \in Called(k) /\ Lent(k, l[j]) = {}
      BY <1>2, <1>6 DEF Called
    <3>2. c.get[j].what = l[j] /\ ~c.get[j].drop
      BY <1>1
    <3> QED
      BY <1>2, <1>3, <3>1, <3>2 DEF Obtainable, Refs
  <2> QED
    BY <2>4, <2>5
<1>10. \A i \in 1 .. 6 + 1 : Gained(k, c, i) = IF m < i THEN {"attach"} ELSE {}
  <2>1. OneGives(k, c, m, {"attach"})
    <3>1. \A j \in 1 .. 6 : j \in 1 .. 3 \/ (j \in 4 .. 6 /\ j # m)
      BY <1>2
    <3>2. \A j \in 1 .. 6 : Share(k, c.get[j].what)
                              = IF j = m THEN {"attach"} ELSE {}
      BY <1>9, <3>1
    <3> QED
      BY <1>1, <1>2, <3>2 DEF OneGives, Refs
  <2>2. \A i \in 1 .. Len(c.get) + 1 :
          Gained(k, c, i) = IF 1 <= m /\ m < i THEN {"attach"} ELSE {}
    BY <2>1, Lemma_Gained
  <2> QED
    BY <1>1, <1>2, <2>2
<1>11. ASSUME NEW i \in 1 .. 3 PROVE StepKeeps(k, p, c, i)
  <2> DEFINE s == c.get[i]
             b == Lent(k, p) \cup Gained(k, c, i)
  <2>1. /\ s.what = l[i] /\ s.label = "dma_buf_put" /\ ~s.quiet /\ ~s.drop
        /\ Obtainable(k, s)
        /\ Share(k, s.what) = IF i = m THEN {"attach"} ELSE {}
    BY <1>1, <1>9
  <2>2. b = IF m < i THEN {"dmabuf", "attach"} ELSE {"dmabuf"}
    <3>1. i \in 1 .. 6 + 1
      OBVIOUS
    <3>2. Gained(k, c, i) = IF m < i THEN {"attach"} ELSE {}
      BY <1>10, <3>1
    <3> QED
      BY <1>6, <3>2
  <2>3. s.what \notin Foreign(k) => i = m
    BY <1>2, <2>1
  <2> HIDE DEF b, s
  <2>4. Share(k, s.what) \subseteq Share(k, p) \ b
    BY <1>2, <1>6, <2>1, <2>2
  <2>5. s.what \notin Foreign(k) =>
          Owed(k, c, Qdmabuf!U!Place(c.put, s.label)) = b
    BY <1>2, <1>4, <1>8, <2>1, <2>2, <2>3
  <2> QED
    BY <2>1, <2>4, <2>5 DEF StepKeeps, s, b
<1>12. ASSUME NEW i \in 4 .. 6 PROVE StepKeeps(k, p, c, i)
  <2> DEFINE s == c.get[i]
             b == Lent(k, p) \cup Gained(k, c, i)
  <2>1. /\ s.label = "exp_vmalloc_detach" /\ ~s.quiet /\ ~s.drop
        /\ Obtainable(k, s) /\ Share(k, s.what) = {}
    BY <1>1, <1>9
  <2>2. b = {"dmabuf", "attach"}
    <3>1. i \in 1 .. 6 + 1 /\ m < i
      BY <1>2
    <3>2. Gained(k, c, i) = {"attach"}
      BY <1>10, <3>1
    <3> QED
      BY <1>6, <3>2
  <2> HIDE DEF b, s
  <2>3. Owed(k, c, Qdmabuf!U!Place(c.put, s.label)) = b
    BY <1>4, <1>8, <2>1, <2>2
  <2> QED
    BY <2>1, <2>3 DEF StepKeeps, s, b
<1>13. \A i \in 1 .. Len(c.get) : StepKeeps(k, p, c, i)
  <2>1. \A i \in 1 .. Len(c.get) : i \in 1 .. 3 \/ i \in 4 .. 6
    BY <1>1
  <2> QED
    BY <1>11, <1>12, <2>1
<1>14. Lent(k, p) \cup Gained(k, c, Len(c.get) + 1) = Share(k, p)
  <2>1. Gained(k, c, 6 + 1) = {"attach"}
    BY <1>2, <1>10
  <2> QED
    BY <1>1, <1>6, <2>1
<1>15. Keeps(k, p)
  BY <1>6, <1>7, <1>8, <1>13, <1>14 DEF Keeps, c
<1> QED
  BY <1>1, <1>5, <1>15 DEF c

\* Those that have to do with none keep account of them too.
LEMMA Lemma_IdlersKeep ==
  ASSUME NEW k \in Qdmabuf!Kinds, NEW p \in Idlers
  PROVE  Keeps(k, p)
<1> DEFINE c == Qdmabuf!Code[p]
<1>1. /\ Shaped(c) /\ ~c.through
      /\ \A i \in DOMAIN c.get : c.get[i].what \notin Watched \cup Others
      /\ \A i \in DOMAIN c.put : c.put[i] \notin Watched \cup Others
  BY Lemma_Idlers DEF Idle0
<1>2. Share(k, p) = {} /\ Lent(k, p) = {}
  BY Lemma_Shares, Lemma_Lent
<1> HIDE DEF c
<1>3. /\ DOMAIN c.get = 1 .. Len(c.get) /\ Len(c.get) \in Nat
      /\ DOMAIN c.put = 1 .. Len(c.put) /\ Len(c.put) \in Nat
  BY <1>1 DEF Shaped
<1>4. Callers \cup Called(k) \cup Counters(k) \subseteq Others
  BY DEF Callers, AppCalls, OtherCalls, Called, Counters, Others, Putters,
         Qdmabuf!Kinds, AttachOf, DetachOf, MmapOf, PutOf
<1>5. ASSUME NEW w, w \notin Watched \cup Others
      PROVE  /\ Share(k, w) = {} /\ Releasable(k, w)
             /\ \A s : s.what = w => Obtainable(k, s)
  <2>1. Share(k, w) = {}
    BY <1>4, <1>5, Lemma_Shares DEF Watched
  <2>2. w \in DOMAIN Qdmabuf!Code => w \in Idlers /\ Lent(k, w) = {}
    BY <1>5, Lemma_Functions, Lemma_Lent
  <2>3. w \notin Stock \cup Refs /\ w # "dmabuf" /\ w # "refcount"
    BY <1>5 DEF Watched, Refs
  <2> QED
    BY <2>1, <2>2, <2>3 DEF Releasable, Obtainable
<1>6. \A i : Gained(k, c, i) = {} \/ i - 1 > Len(c.get) \/ i \notin Nat
  <2> SUFFICES ASSUME NEW i \in Nat, ~(i - 1 > Len(c.get))
               PROVE  Gained(k, c, i) = {}
    OBVIOUS
  <2>1. \A j \in 1 .. i - 1 : j \in DOMAIN c.get
    BY <1>3
  <2>2. \A j \in 1 .. i - 1 : Share(k, c.get[j].what) = {}
    BY <1>1, <1>5, <2>1
  <2> QED
    BY <2>2 DEF Gained
<1>7. \A i \in Nat \ {0} : Owed(k, c, i) = {}
  <2> SUFFICES ASSUME NEW i \in Nat \ {0}
               PROVE  Owed(k, c, i) = {}
    OBVIOUS
  <2>1. \A j \in i .. Len(c.put) : j \in DOMAIN c.put
    BY <1>3
  <2>2. \A j \in i .. Len(c.put) : Share(k, c.put[j]) = {}
    BY <1>1, <1>5, <2>1
  <2> QED
    BY <2>2 DEF Owed
<1>8. ASSUME NEW i \in 1 .. Len(c.get) PROVE StepKeeps(k, p, c, i)
  <2>1. c.get[i].what \notin Watched \cup Others
    BY <1>1, <1>3
  <2>2. Share(k, c.get[i].what) = {} /\ Obtainable(k, c.get[i])
    BY <1>5, <2>1
  <2>3. Gained(k, c, i) = {}
    BY <1>3, <1>6
  <2>4. Qdmabuf!U!Place(c.put, c.get[i].label) \in Nat \ {0}
    BY <1>3 DEF Qdmabuf!U!Place
  <2>5. Owed(k, c, Qdmabuf!U!Place(c.put, c.get[i].label)) = {}
    BY <1>7, <2>4
  <2> QED
    BY <1>2, <2>2, <2>3, <2>5 DEF StepKeeps
<1>9. ASSUME NEW i \in 1 .. Len(c.put) PROVE DropKeeps(k, p, c, i)
  <2>1. c.put[i] \notin Watched \cup Others
    BY <1>1, <1>3
  <2> QED
    BY <1>5, <2>1 DEF DropKeeps
<1>10. Gained(k, c, Len(c.get) + 1) = {} /\ Owed(k, c, 1) = {}
  BY <1>3, <1>6, <1>7
<1> QED
  BY <1>2, <1>8, <1>9, <1>10 DEF Keeps, c

\* All of them.
Tally(k) == Idlers \cup Callers \cup Called(k)

\* Every function that deals in references, or in none, keeps its balance.
LEMMA Lemma_Keeps ==
  ASSUME NEW k \in Qdmabuf!Kinds, NEW p \in Tally(k)
  PROVE  /\ Keeps(k, p) /\ Shaped(Qdmabuf!Code[p])
         /\ Qdmabuf!Code[p].through => p = "qdmabuf_ioctl_info"
<1>1. CASE p \in Idlers
  BY <1>1, Lemma_IdlersKeep, Lemma_Idlers DEF Idle0
<1>2. CASE p \in {"import", "unimport", "mmap", "fork", "munmap",
                 "dmabuf_exp_vm_open", "dmabuf_exp_vm_close"}
  BY <1>2, Lemma_import, Lemma_unimport, Lemma_mmap, Lemma_fork, Lemma_munmap,
     Lemma_dmabuf_exp_vm_open, Lemma_dmabuf_exp_vm_close
<1>3. CASE p = "qdmabuf_ioctl_info"
  BY <1>3, Lemma_qdmabuf_ioctl_info
<1>4. CASE p \in {AttachOf[k], DetachOf[k], MmapOf[k]}
  BY <1>4, Lemma_exp_vmalloc_attach, Lemma_exp_dma_attach, Lemma_detach,
     Lemma_kind_mmap
<1> QED
  BY <1>1, <1>2, <1>3, <1>4 DEF Tally, Callers, AppCalls, OtherCalls, Called

-----------------------------------------------------------------------------
(* The functions that put the last reference, and those that make a buffer.*)

\* A function that releases what an allocation or the last reference leaves.
Sheds(c) ==
  /\ Shaped(c) /\ ~c.through
  /\ \A i \in 1 .. Len(c.put) :
       c.put[i] \in Putters \cup (Qdmabuf!Resources \ {"fd", "attach"})

\* Whatever runs for the last reference sheds, and acquires nothing.
LEMMA Lemma_Putters ==
  ASSUME NEW p \in Putters
  PROVE  Sheds(Qdmabuf!Code[p]) /\ Qdmabuf!Code[p].get = << >>
<1> USE DEF Qdmabuf!Code, Shaped, Qdmabuf!Script, Qdmabuf!Releases, Putters,
            Sheds, Qdmabuf!Resources, Qdmabuf!Memory
<1>1. Sheds(Qdmabuf!Code["dma_buf_put"])
  BY DEF Qdmabuf!dma_buf_put
<1>2. /\ Sheds(Qdmabuf!Code["exp_vmalloc_dma_buf_release"])
      /\ Sheds(Qdmabuf!Code["exp_dma_sg_dma_buf_release"])
      /\ Sheds(Qdmabuf!Code["exp_dma_contig_dma_buf_release"])
  BY DEF Qdmabuf!exp_vmalloc_dma_buf_release,
         Qdmabuf!exp_dma_sg_dma_buf_release,
         Qdmabuf!exp_dma_contig_dma_buf_release
<1>3. Sheds(Qdmabuf!Code["exp_vmalloc_buffer_put"])
  BY DEF Qdmabuf!exp_vmalloc_buffer_put
<1>4. Sheds(Qdmabuf!Code["exp_dma_sg_buffer_put"])
  BY DEF Qdmabuf!exp_dma_sg_buffer_put
<1>5. Sheds(Qdmabuf!Code["exp_dma_contig_buffer_put"])
  BY DEF Qdmabuf!exp_dma_contig_buffer_put
<1> HIDE DEF Qdmabuf!Code, Shaped, Qdmabuf!Script, Qdmabuf!Releases, Sheds,
             Qdmabuf!Resources, Qdmabuf!Memory
<1> QED
  BY <1>1, <1>2, <1>3, <1>4, <1>5, Lemma_Bodies

\* Which references they count.
LEMMA Lemma_Counters ==
  ASSUME NEW k \in Qdmabuf!Kinds
  PROVE  /\ Qdmabuf!Code["dma_buf_put"].put[1] = "dmabuf"
         /\ Qdmabuf!Code[PutOf[k]].put[1] = "refcount"
         /\ Counters(k) \subseteq Putters
         /\ \A p \in Counters(k) : Len(Qdmabuf!Code[p].put) >= 1
<1> USE DEF Qdmabuf!Code, Qdmabuf!Script, Qdmabuf!Releases
<1>1. /\ Qdmabuf!Code["dma_buf_put"].put[1] = "dmabuf"
      /\ Len(Qdmabuf!Code["dma_buf_put"].put) = 4
  BY DEF Qdmabuf!dma_buf_put
<1>2. /\ Qdmabuf!Code[PutOf[k]].put[1] = "refcount"
      /\ Len(Qdmabuf!Code[PutOf[k]].put) >= 1
  <2> USE DEF PutOf
  <2>1. CASE k = "vmalloc"
    BY <2>1 DEF Qdmabuf!exp_vmalloc_buffer_put
  <2>2. CASE k = "dma_sg"
    BY <2>2 DEF Qdmabuf!exp_dma_sg_buffer_put
  <2>3. CASE k = "dma_contig"
    BY <2>3 DEF Qdmabuf!exp_dma_contig_buffer_put
  <2> QED
    BY <2>1, <2>2, <2>3 DEF Qdmabuf!Kinds
<1>3. Counters(k) \subseteq Putters
  BY DEF Counters, PutOf, Putters, Qdmabuf!Kinds
<1> HIDE DEF Qdmabuf!Code, Qdmabuf!Script, Qdmabuf!Releases
<1> QED
  BY <1>1, <1>2, <1>3 DEF Counters

\* The functions that make a buffer: what they release when that fails.
LEMMA Lemma_Makers ==
  ASSUME NEW p \in Makers
  PROVE  Sheds(Qdmabuf!Code[p])
<1> USE DEF Qdmabuf!Code, Shaped, Qdmabuf!Script, Qdmabuf!On, Qdmabuf!Step,
            Qdmabuf!Regardless, Qdmabuf!Forgetful, Putters, Sheds,
            Qdmabuf!Resources, Qdmabuf!Memory
<1>1. Sheds(Qdmabuf!Code["qdmabuf_ioctl_alloc"])
  BY DEF Qdmabuf!qdmabuf_ioctl_alloc
<1>2. Sheds(Qdmabuf!Code["qdmabuf_dmabuf_alloc_vmalloc"])
  BY DEF Qdmabuf!qdmabuf_dmabuf_alloc_vmalloc
<1>3. Sheds(Qdmabuf!Code["qdmabuf_dmabuf_alloc_dma_sg"])
  BY DEF Qdmabuf!qdmabuf_dmabuf_alloc_dma_sg
<1>4. Sheds(Qdmabuf!Code["qdmabuf_dmabuf_alloc_dma_contig"])
  BY DEF Qdmabuf!qdmabuf_dmabuf_alloc_dma_contig
<1>5. Sheds(Qdmabuf!Code["exp_dma_sg_alloc_compacted"])
  BY DEF Qdmabuf!exp_dma_sg_alloc_compacted
<1> HIDE DEF Qdmabuf!Code, Shaped, Sheds, Qdmabuf!Script
<1> QED
  BY <1>1, <1>2, <1>3, <1>4, <1>5 DEF Makers

\* The ioctl calls the one that makes a buffer of its kind.
AllocAt == [vmalloc |-> 2, dma_sg |-> 3, dma_contig |-> 4]

\* That call is one of five steps, and nothing else there is of a buffer.
LEMMA Lemma_ioctl_alloc ==
  ASSUME NEW k \in Qdmabuf!Kinds
  PROVE  LET c == Qdmabuf!Code["qdmabuf_ioctl_alloc"] IN
         /\ AllocAt[k] \in 2 .. 4 /\ Len(c.get) = 5
         /\ c.put = << >>
         /\ c.get[AllocAt[k]].what = AllocOf[k]
         /\ \A i \in 1 .. 5 :
              /\ c.get[i].label = "return" /\ ~c.get[i].drop
              /\ i # AllocAt[k] =>
                   c.get[i].what \in {"copy_in", "copy_out"} \cup Foreign(k)
<1> USE DEF Qdmabuf!Code, Qdmabuf!Script, Qdmabuf!On, Qdmabuf!Step,
            Qdmabuf!qdmabuf_ioctl_alloc, AllocAt, AllocOf, Foreign, Qdmabuf!Of,
            Qdmabuf!Kinds
<1>1. CASE k = "vmalloc"
  BY <1>1
<1>2. CASE k = "dma_sg"
  BY <1>2
<1>3. CASE k = "dma_contig"
  BY <1>3
<1> QED
  BY <1>1, <1>2, <1>3

\* What a buffer consists of.
Whole(k) ==
  {"dmabuf", "refcount", "buf"}
    \cup (IF k = "dma_sg" THEN {"page1", "page2"} ELSE {"vaddr"})
    \cup (IF k = "vmalloc" THEN {} ELSE {"dev_ref"})

\* A function that makes one: only its last step gives the descriptor, all the
\* rest comes before, and only the reference count is no reason to give up.
Fill(k, s, last) ==
  /\ ~s.drop /\ (s.label = "continue" => s.what = "refcount")
  /\ s.what \in Qdmabuf!Resources \ {"attach"}
     \/ (s.what = "exp_dma_sg_alloc_compacted" /\ k = "dma_sg")
  /\ (s.what = "fd") <=> last
Yields(s, r) ==
  \/ s.what = r
  \/ s.what = "exp_dma_sg_alloc_compacted" /\ r \in {"page1", "page2"}
Fills(k, c) ==
  /\ Len(c.get) \in Nat \ {0} /\ c.get # << >> /\ ~c.through
  /\ \A i \in 1 .. Len(c.get) : Fill(k, c.get[i], i = Len(c.get))
  /\ \A r \in Whole(k) :
       \E i \in 1 .. Len(c.get) - 1 : Yields(c.get[i], r)

\* The function that makes a buffer of a kind acquires all of its parts.
LEMMA Lemma_Fills ==
  ASSUME NEW k \in Qdmabuf!Kinds
  PROVE  Fills(k, Qdmabuf!Code[AllocOf[k]])
<1> DEFINE c == Qdmabuf!Code[AllocOf[k]]
<1>1. CASE k = "vmalloc"
  <2>1. /\ Len(c.get) = 5 /\ c.get # << >> /\ ~c.through
        /\ c.get[1] = Qdmabuf!Step("buf", "return", FALSE, FALSE)
        /\ c.get[2] = Qdmabuf!Step("vaddr", "buf", FALSE, FALSE)
        /\ c.get[3] = Qdmabuf!Step("refcount", "continue", TRUE, FALSE)
        /\ c.get[4] = Qdmabuf!Step("dmabuf", "vaddr", FALSE, FALSE)
        /\ c.get[5] = Qdmabuf!Step("fd", "dma_buf_put", FALSE, FALSE)
    <3>1. c = Qdmabuf!qdmabuf_dmabuf_alloc_vmalloc
      BY <1>1 DEF AllocOf, Qdmabuf!Code
    <3> HIDE DEF c
    <3> QED
      BY <3>1 DEF Qdmabuf!qdmabuf_dmabuf_alloc_vmalloc, Qdmabuf!Script,
         Qdmabuf!On, Qdmabuf!Regardless
  <2> HIDE DEF c
  <2>2. \A i \in 1 .. 5 : i = 1 \/ i = 2 \/ i = 3 \/ i = 4 \/ i = 5
    OBVIOUS
  <2>3. \A i \in 1 .. 5 : Fill(k, c.get[i], i = 5)
    BY <2>1, <2>2 DEF Fill, Qdmabuf!Step, Qdmabuf!Resources, Qdmabuf!Memory
  <2>4. /\ Yields(c.get[1], "buf") /\ Yields(c.get[2], "vaddr")
        /\ Yields(c.get[3], "refcount") /\ Yields(c.get[4], "dmabuf")
    BY <2>1 DEF Yields, Qdmabuf!Step
  <2>5. Whole(k) = {"dmabuf", "refcount", "buf", "vaddr"}
    BY <1>1 DEF Whole
  <2>6. \A r \in Whole(k) : \E i \in 1 .. 4 : Yields(c.get[i], r)
    BY <2>4, <2>5
  <2>7. Fills(k, c)
    BY <2>1, <2>3, <2>6 DEF Fills
  <2> QED
    BY <2>7 DEF c
<1>2. CASE k = "dma_sg"
  <2>1. /\ Len(c.get) = 10 /\ c.get # << >> /\ ~c.through
        /\ c.get[1] = Qdmabuf!Step("buf", "return", FALSE, FALSE)
        /\ c.get[2] = Qdmabuf!Step("dev_ref", "buf", FALSE, FALSE)
        /\ c.get[3] = Qdmabuf!Step("array", "dev_ref", FALSE, FALSE)
        /\ c.get[4] = Qdmabuf!Step("exp_dma_sg_alloc_compacted", "array",
                                   FALSE, FALSE)
        /\ c.get[5] = Qdmabuf!Step("table", "page2", FALSE, FALSE)
        /\ c.get[6] = Qdmabuf!Step("mapping", "table", FALSE, FALSE)
        /\ c.get[7] = Qdmabuf!Step("mapping_old", "table", TRUE, FALSE)
        /\ c.get[8] = Qdmabuf!Step("refcount", "continue", TRUE, FALSE)
        /\ c.get[9] = Qdmabuf!Step("dmabuf", "table", FALSE, FALSE)
        /\ c.get[10] = Qdmabuf!Step("fd", "dma_buf_put", FALSE, FALSE)
    <3>1. c = Qdmabuf!qdmabuf_dmabuf_alloc_dma_sg
      BY <1>2 DEF AllocOf, Qdmabuf!Code
    <3> HIDE DEF c
    <3> QED
      BY <3>1 DEF Qdmabuf!qdmabuf_dmabuf_alloc_dma_sg, Qdmabuf!Script,
         Qdmabuf!On, Qdmabuf!Regardless, Qdmabuf!Forgetful
  <2> HIDE DEF c
  <2>2. \A i \in 1 .. 10 : i = 1 \/ i = 2 \/ i = 3 \/ i = 4 \/ i = 5 \/ i = 6
                           \/ i = 7 \/ i = 8 \/ i = 9 \/ i = 10
    OBVIOUS
  <2>3. \A i \in 1 .. 10 : Fill(k, c.get[i], i = 10)
    BY <1>2, <2>1, <2>2
    DEF Fill, Qdmabuf!Step, Qdmabuf!Resources, Qdmabuf!Memory
  <2>4. /\ Yields(c.get[1], "buf") /\ Yields(c.get[2], "dev_ref")
        /\ Yields(c.get[4], "page1") /\ Yields(c.get[4], "page2")
        /\ Yields(c.get[8], "refcount") /\ Yields(c.get[9], "dmabuf")
    BY <2>1 DEF Yields, Qdmabuf!Step
  <2>5. Whole(k) = {"dmabuf", "refcount", "buf", "page1", "page2", "dev_ref"}
    BY <1>2 DEF Whole
  <2>6. \A r \in Whole(k) : \E i \in 1 .. 9 : Yields(c.get[i], r)
    BY <2>4, <2>5
  <2>7. Fills(k, c)
    BY <2>1, <2>3, <2>6 DEF Fills
  <2> QED
    BY <2>7 DEF c
<1>3. CASE k = "dma_contig"
  <2>1. /\ Len(c.get) = 8 /\ c.get # << >> /\ ~c.through
        /\ c.get[1] = Qdmabuf!Step("buf", "return", FALSE, FALSE)
        /\ c.get[2] = Qdmabuf!Step("dev_ref", "buf", FALSE, FALSE)
        /\ c.get[3] = Qdmabuf!Step("refcount", "continue", TRUE, FALSE)
        /\ c.get[4] = Qdmabuf!Step("vaddr", "dev_ref", FALSE, FALSE)
        /\ c.get[5] = Qdmabuf!Step("sgt_base", "vaddr", FALSE, FALSE)
        /\ c.get[6] = Qdmabuf!Step("sgtable", "sgt_base", FALSE, FALSE)
        /\ c.get[7] = Qdmabuf!Step("dmabuf", "sgtable", FALSE, FALSE)
        /\ c.get[8] = Qdmabuf!Step("fd", "dma_buf_put", FALSE, FALSE)
    <3>1. c = Qdmabuf!qdmabuf_dmabuf_alloc_dma_contig
      BY <1>3 DEF AllocOf, Qdmabuf!Code
    <3> HIDE DEF c
    <3> QED
      BY <3>1 DEF Qdmabuf!qdmabuf_dmabuf_alloc_dma_contig, Qdmabuf!Script,
         Qdmabuf!On, Qdmabuf!Regardless
  <2> HIDE DEF c
  <2>2. \A i \in 1 .. 8 : i = 1 \/ i = 2 \/ i = 3 \/ i = 4 \/ i = 5 \/ i = 6
                          \/ i = 7 \/ i = 8
    OBVIOUS
  <2>3. \A i \in 1 .. 8 : Fill(k, c.get[i], i = 8)
    BY <2>1, <2>2 DEF Fill, Qdmabuf!Step, Qdmabuf!Resources, Qdmabuf!Memory
  <2>4. /\ Yields(c.get[1], "buf") /\ Yields(c.get[2], "dev_ref")
        /\ Yields(c.get[3], "refcount") /\ Yields(c.get[4], "vaddr")
        /\ Yields(c.get[7], "dmabuf")
    BY <2>1 DEF Yields, Qdmabuf!Step
  <2>5. Whole(k) = {"dmabuf", "refcount", "buf", "vaddr", "dev_ref"}
    BY <1>3 DEF Whole
  <2>6. \A r \in Whole(k) : \E i \in 1 .. 7 : Yields(c.get[i], r)
    BY <2>4, <2>5
  <2>7. Fills(k, c)
    BY <2>1, <2>3, <2>6 DEF Fills
  <2> QED
    BY <2>7 DEF c
<1> QED
  BY <1>1, <1>2, <1>3 DEF Qdmabuf!Kinds

\* The pages of a scattered buffer come from one function, both or none.
LEMMA Lemma_compacted ==
  LET c == Qdmabuf!Code["exp_dma_sg_alloc_compacted"] IN
  /\ Len(c.get) = 2 /\ c.get # << >>
  /\ c.get[1].what = "page1" /\ c.get[2].what = "page2"
  /\ \A i \in 1 .. 2 : /\ ~c.get[i].drop /\ ~c.get[i].quiet
                       /\ c.get[i].label # "continue"
  /\ c.put = <<"page1">>
BY DEF Qdmabuf!Code, Qdmabuf!Script, Qdmabuf!On, Qdmabuf!Step,
       Qdmabuf!exp_dma_sg_alloc_compacted

\* Every script has this shape.
LEMMA Lemma_Shaped ==
  ASSUME NEW p \in DOMAIN Qdmabuf!Code
  PROVE  /\ Shaped(Qdmabuf!Code[p])
         /\ Qdmabuf!Code[p].through => p = "qdmabuf_ioctl_info"
<1> DEFINE P == {q \in DOMAIN Qdmabuf!Code :
                   /\ Shaped(Qdmabuf!Code[q])
                   /\ Qdmabuf!Code[q].through => q = "qdmabuf_ioctl_info"}
<1>0. DOMAIN Qdmabuf!Code = Idlers \cup Others
  BY Lemma_Functions
<1>1. ASSUME NEW k \in Qdmabuf!Kinds PROVE Tally(k) \subseteq P
  <2>1. Tally(k) \subseteq Idlers \cup Others
    BY DEF Tally, Callers, AppCalls, OtherCalls, Called, Others, Qdmabuf!Kinds,
       AttachOf, DetachOf, MmapOf
  <2>2. ASSUME NEW q \in Tally(k)
        PROVE  /\ Shaped(Qdmabuf!Code[q])
               /\ Qdmabuf!Code[q].through => q = "qdmabuf_ioctl_info"
    BY Lemma_Keeps
  <2> QED
    BY <1>0, <2>1, <2>2
<1>2. Putters \cup Makers \subseteq P
  <2>1. Putters \cup Makers \subseteq DOMAIN Qdmabuf!Code
    BY <1>0 DEF Others
  <2>2. \A q \in Putters \cup Makers :
          Shaped(Qdmabuf!Code[q]) /\ ~Qdmabuf!Code[q].through
    BY Lemma_Putters, Lemma_Makers DEF Sheds
  <2> QED
    BY <2>1, <2>2
<1> HIDE DEF P
<1>3. "vmalloc" \in Qdmabuf!Kinds /\ "dma_sg" \in Qdmabuf!Kinds
      /\ "dma_contig" \in Qdmabuf!Kinds
  BY DEF Qdmabuf!Kinds
<1>4. Idlers \cup Others \subseteq
        Tally("vmalloc") \cup Tally("dma_sg") \cup Tally("dma_contig")
          \cup Putters \cup Makers
  BY DEF Tally, Callers, AppCalls, OtherCalls, Called, Others, AttachOf,
         DetachOf, MmapOf
<1>5. p \in P
  BY <1>0, <1>1, <1>2, <1>3, <1>4
<1> QED
  BY <1>5 DEF P

-----------------------------------------------------------------------------
(* The invariant: what a stack of calls accounts for, and the counts.      *)

\* The calls on the stacks, and what the function of a frame is at, if it is
\* not at its end.
QFrames == [proc : DOMAIN Qdmabuf!Code, result : {"ok", "err"},
            phase : {"get", "put"}, at : Nat \ {0}]
At(f) ==
  LET c == Qdmabuf!Code[f.proc] IN
  IF f.phase = "get" THEN c.get[f.at].what ELSE c.put[f.at]
Busy(f) == f.at <= Len(Qdmabuf!Code[f.proc][f.phase])

\* The types; what the machine lacks are the functions of the other kinds and
\* one of the two ways to map pages.
QTyped ==
  /\ stack \in [Qdmabuf!Tasks -> Seq(QFrames)]
  /\ held \in [Qdmabuf!Resources -> Nat]
  /\ kind \in Qdmabuf!Kinds /\ vmas \in Nat
  /\ Foreign(kind) \subseteq absent
  /\ absent \subseteq Foreign(kind) \cup {"mapping", "mapping_old"}

\* A call that keeps account: what it has to do with references, and what its
\* function has got so far or, once it releases, has yet to release.
Entry(k, f) ==
  LET c == Qdmabuf!Code[f.proc] IN
  /\ f.proc \in Tally(k) \cup Counters(k)
  /\ f.phase = "get" =>
       c.get # << >> /\ f.result = "ok" /\ f.at <= Len(c.get) + 1
  /\ f.phase = "put" /\ c.get # << >> /\ ~c.through =>
       f.result = "err" \/ f.proc \in Idlers
  /\ f.proc = "dmabuf_exp_vm_open" => f.phase = "get"
  /\ f.proc \in Counters(k) => f.at \in {1, Len(c.put) + 1}
Assets(k, f) ==
  LET c == Qdmabuf!Code[f.proc] IN
  IF f.proc \in Counters(k) THEN (IF f.at = 1 THEN Share(k, f.proc) ELSE {})
  ELSE IF f.phase = "get" THEN Lent(k, f.proc) \cup Gained(k, c, f.at)
  ELSE Owed(k, c, f.at)

\* A stack of such calls, each made by the one below it; what it owns.
Ledger(k, s) ==
  /\ \A i \in 1 .. Len(s) : Entry(k, s[i]) /\ s[i].proc \notin Foreign(k)
  /\ \A i \in 2 .. Len(s) :
       Busy(s[i]) /\ At(s[i]) = s[i - 1].proc /\ s[i].proc \notin Counters(k)
  /\ \A i \in 1 .. Len(s) - 1 : s[i].proc \notin Callers
  /\ \A i, j \in 1 .. Len(s) :
       i <= j => Share(k, s[i].proc) \subseteq Share(k, s[j].proc)
Claim(k, s, i) ==
  IF i = 1 THEN Assets(k, s[1])
  ELSE Assets(k, s[i]) \ Share(k, s[i - 1].proc)
Claims(k, s) == {x \in Refs : \E i \in 1 .. Len(s) : x \in Claim(k, s, i)}

\* A call that will do a buffer nobody uses no harm: it has to do with no
\* references, or only releases what the last reference or a failed allocation
\* leaves, or has but to put the dma-buf, or has allocated.
Dull(k, f) ==
  \/ f.proc \in Idlers
  \/ f.phase = "put" /\ f.proc \in Putters \cup Makers
  \/ /\ f.phase = "put" /\ f.proc \in Callers
     /\ f.at >= Len(Qdmabuf!Code[f.proc].put)
     /\ f.proc \in {"mmap", "fork"} => f.result = "err"
  \/ f.proc = "qdmabuf_ioctl_alloc" /\ f.at > AllocAt[k]
Harmless(k, s) == \A i \in 1 .. Len(s) : Dull(k, s[i])

\* An allocation: the ioctl, the function it calls, and what that has got.
InAlloc(k, f) ==
  f.proc = "qdmabuf_ioctl_alloc" /\ f.phase = "get" /\ f.at = AllocAt[k]
Gave(h, c, i) ==
  \A j \in 1 .. i - 1 :
    /\ c.get[j].what \in Watched => h[c.get[j].what] >= 1
    /\ c.get[j].what = "exp_dma_sg_alloc_compacted" =>
         h["page1"] >= 1 /\ h["page2"] >= 1
Filling(h, f) ==
  LET c == Qdmabuf!Code[f.proc] IN
  /\ f.phase = "get" /\ f.result = "ok" /\ f.at <= Len(c.get) + 1
  /\ Gave(h, c, f.at)

\* It is about to begin; it is in the function of its kind, or in the one that
\* allocates the pages; it failed.
Starting(k, s) ==
  /\ Len(s) = 1 /\ s[1].proc = "qdmabuf_ioctl_alloc" /\ s[1].phase = "get"
  /\ s[1].at <= AllocAt[k]
Allocating(k, s, h) ==
  /\ Len(s) = 2 /\ InAlloc(k, s[2]) /\ s[1].proc = AllocOf[k]
  /\ Filling(h, s[1]) /\ Busy(s[1])
Compacting(k, s, h) ==
  /\ Len(s) = 3 /\ InAlloc(k, s[3]) /\ k = "dma_sg"
  /\ s[2].proc = AllocOf[k] /\ s[2].phase = "get" /\ Busy(s[2])
  /\ At(s[2]) = s[1].proc /\ s[1].proc = "exp_dma_sg_alloc_compacted"
  /\ \/ Filling(h, s[2]) /\ Filling(h, s[1])
     \/ s[1].phase = "put" /\ s[1].result = "err"
Failing(k, s) ==
  /\ Len(s) >= 2 /\ InAlloc(k, s[Len(s)])
  /\ \A i \in 1 .. Len(s) - 1 : Dull(k, s[i])
Making(k, s, h) ==
  \/ Starting(k, s) \/ Allocating(k, s, h) \/ Compacting(k, s, h)
  \/ Failing(k, s)

\* It is done, and about to return to the ioctl or to the process.
Made(k, s) ==
  /\ Len(s) = 2 /\ InAlloc(k, s[2])
  /\ s[1].proc = AllocOf[k] /\ s[1].phase = "get" /\ s[1].result = "ok"
  /\ ~Busy(s[1])
Ready(k, s) ==
  Len(s) = 1 /\ s[1].proc = "qdmabuf_ioctl_alloc" /\ Dull(k, s[1])

\* Nobody uses the buffer, if there is one.
Nobody(k, a, o, h, v) ==
  /\ h["fd"] = 0 /\ h["attach"] = 0 /\ v = 0 /\ Harmless(k, o)
  /\ Harmless(k, a) \/ Made(k, a) \/ (Making(k, a, h) /\ o = << >>)

\* There is a buffer: the tasks own the references in X and Y, each one with
\* the dma-buf or harmless; the dma-buf counts these, the descriptors, the maps
\* and the attachments that last, the buffer those, the maps and the dma-buf.
Account(k, s, X) ==
  /\ Ledger(k, s) /\ X = Claims(k, s)
  /\ "dmabuf" \in X \/ (X = {} /\ Harmless(k, s))
One(b) == IF b THEN 1 ELSE 0
Balance(h, v, X, Y) ==
  /\ h["attach"] >= One("attach" \in X) /\ "attach" \notin Y
  /\ h["dmabuf"] >= h["fd"] + v + (h["attach"] - One("attach" \in X))
                      + One("dmabuf" \in X) + One("dmabuf" \in Y)
  /\ h["refcount"] >= 1 + v + One("refcount" \in X) + One("refcount" \in Y)
InStock(k, h) == \A r \in Whole(k) \ Refs : h[r] >= 1
Users(k, a, o, h, v, X, Y) ==
  /\ Account(k, a, X) \/ ((Made(k, a) \/ Ready(k, a)) /\ X = {})
  /\ Account(k, o, Y)
  /\ \A i \in 1 .. Len(o) : "attach" \notin Share(k, o[i].proc)
  /\ Balance(h, v, X, Y) /\ InStock(k, h)

\* Nobody uses the buffer, or those who do own their references.
Used(k, a, o, h, v) ==
  \/ Nobody(k, a, o, h, v)
  \/ \E X, Y \in SUBSET Refs : Users(k, a, o, h, v, X, Y)

\* The inductive invariant; nothing that the driver core calls has to do with
\* references.
Calm(s) == \A i \in 1 .. Len(s) : s[i].proc \in Idlers
BufferInv ==
  /\ QTyped /\ Calm(stack["admin"])
  /\ Used(kind, stack["app"], stack["other"], held, vmas)

-----------------------------------------------------------------------------
(* A step of a task, as far as the references see it.                      *)

\* What a frame becomes is a frame of the same function.
LEMMA Lemma_QFrames ==
  /\ \A p \in DOMAIN Qdmabuf!Code :
       LET f == Qdmabuf!U!Frame(p)
           c == Qdmabuf!Code[p] IN
       /\ f \in QFrames /\ f.proc = p /\ f.result = "ok" /\ f.at = 1
       /\ f.phase = IF c.get = << >> THEN "put" ELSE "get"
  /\ \A f \in QFrames :
       LET c == Qdmabuf!Code[f.proc] IN
       /\ Qdmabuf!U!Onward(f) \in QFrames
       /\ Qdmabuf!U!Onward(f) = [f EXCEPT !.at = @ + 1]
       /\ Qdmabuf!U!Cleanup(f) \in QFrames
       /\ Qdmabuf!U!Cleanup(f).proc = f.proc
       /\ \A n \in Nat \ {0} : [f EXCEPT !.at = n] \in QFrames
       /\ [f EXCEPT !.phase = "put", !.at = 1] \in QFrames
<1>1. ASSUME NEW p \in DOMAIN Qdmabuf!Code
      PROVE  LET f == Qdmabuf!U!Frame(p)
                 c == Qdmabuf!Code[p] IN
             /\ f \in QFrames /\ f.proc = p /\ f.result = "ok" /\ f.at = 1
             /\ f.phase = IF c.get = << >> THEN "put" ELSE "get"
  <2>1. Qdmabuf!Code[p].when = "always"
    BY Lemma_Shaped DEF Shaped
  <2> QED
    BY <2>1 DEF Qdmabuf!U!Frame, QFrames
<1>2. ASSUME NEW f \in QFrames
      PROVE  /\ Qdmabuf!U!Onward(f) \in QFrames
             /\ Qdmabuf!U!Onward(f) = [f EXCEPT !.at = @ + 1]
             /\ \A n \in Nat \ {0} : [f EXCEPT !.at = n] \in QFrames
             /\ [f EXCEPT !.phase = "put", !.at = 1] \in QFrames
  <2>1. \A n \in Nat \ {0} : [f EXCEPT !.at = n] \in QFrames
    BY DEF QFrames
  <2>2. [f EXCEPT !.phase = "put", !.at = 1] \in QFrames
    <3> DEFINE e == [f EXCEPT !.phase = "put"]
               g == [e EXCEPT !.at = 1]
    <3>1. e \in QFrames
      BY DEF QFrames
    <3> HIDE DEF e
    <3>2. g \in QFrames
      BY <3>1 DEF QFrames
    <3>3. g = [f EXCEPT !.phase = "put", !.at = 1]
      BY DEF e
    <3> QED
      BY <3>2, <3>3
  <2>3. f.at + 1 \in Nat \ {0}
    BY DEF QFrames
  <2> QED
    BY <2>1, <2>2, <2>3 DEF Qdmabuf!U!Onward
<1>3. ASSUME NEW f \in QFrames
      PROVE  /\ Qdmabuf!U!Cleanup(f) \in QFrames
             /\ Qdmabuf!U!Cleanup(f).proc = f.proc
  <2> DEFINE c == Qdmabuf!Code[f.proc]
             l == Qdmabuf!U!Place(c.put, c.get[f.at].label)
  <2>1. Len(c.put) \in Nat /\ DOMAIN c.put = 1 .. Len(c.put)
    BY Lemma_Shaped DEF QFrames, Shaped
  <2>2. l \in Nat \ {0}
    BY <2>1 DEF Qdmabuf!U!Place
  <2> HIDE DEF l
  <2>3. Qdmabuf!U!Cleanup(f) = [f EXCEPT !.at = @ + 1]
        \/ \E x \in {"ok", "err"} :
             Qdmabuf!U!Cleanup(f)
               = [f EXCEPT !.phase = "put", !.at = l, !.result = x]
    BY DEF Qdmabuf!U!Cleanup, l
  <2>4. ASSUME NEW x \in {"ok", "err"}
        PROVE  LET g == [f EXCEPT !.phase = "put", !.at = l, !.result = x] IN
               g \in QFrames /\ g.proc = f.proc
    BY <2>2 DEF QFrames
  <2>5. [f EXCEPT !.at = @ + 1] \in QFrames
        /\ [f EXCEPT !.at = @ + 1].proc = f.proc
    BY DEF QFrames
  <2> QED
    BY <2>3, <2>4, <2>5
<1> QED
  BY <1>1, <1>2, <1>3

\* No function is a resource; what counts is in none of the special sets.
LEMMA Lemma_WatchedAre ==
  /\ Watched \subseteq Qdmabuf!Resources
  /\ Qdmabuf!Resources \cap DOMAIN Qdmabuf!Code = {}
  /\ {"mapping", "mapping_old"} \subseteq Qdmabuf!Resources
  /\ Watched \cap (Qdmabuf!Dirs \cup {"mapping", "mapping_old"}) = {}
  /\ Watched \cap {"page", "remap", "copy_in", "copy_out"} = {}
  /\ \A k \in Qdmabuf!Kinds : Foreign(k) \cap Qdmabuf!Resources = {}
<1> USE DEF Watched, Refs, Stock, Qdmabuf!Resources, Qdmabuf!Memory,
            Qdmabuf!Dirs
<1>1. /\ Watched \subseteq Qdmabuf!Resources
      /\ {"mapping", "mapping_old"} \subseteq Qdmabuf!Resources
      /\ Watched \cap (Qdmabuf!Dirs \cup {"mapping", "mapping_old"}) = {}
      /\ Watched \cap {"page", "remap", "copy_in", "copy_out"} = {}
  OBVIOUS
<1>2. Qdmabuf!Resources \cap DOMAIN Qdmabuf!Code = {}
  BY Lemma_Functions DEF Idlers, Others, Putters, Makers
<1>3. \A k \in Qdmabuf!Kinds : Foreign(k) \cap Qdmabuf!Resources = {}
  BY DEF Foreign, Qdmabuf!Of, Qdmabuf!Kinds
<1> QED
  BY <1>1, <1>2, <1>3

\* The steps of a task of which s is the stack before and u the one after, by
\* what they do to what counts: h before and g after.
QSame(h, g) == \A x \in Watched : g[x] = h[x]
QGets(s, u, h, g) ==
  LET f == s[1] IN
  /\ Busy(f) /\ f.phase = "get" /\ At(f) \in Qdmabuf!Resources
  /\ ~Qdmabuf!Code[f.proc].get[f.at].drop
  /\ TopIs(s, u, Qdmabuf!U!Onward(f))
  /\ \A x \in Watched : g[x] = IF x = At(f) THEN h[x] + 1 ELSE h[x]
QRefuses(s, u, h, g) ==
  LET f == s[1] IN
  /\ Busy(f) /\ f.phase = "get" /\ At(f) \in Qdmabuf!Resources \ {"refcount"}
  /\ TopIs(s, u, Qdmabuf!U!Cleanup(f)) /\ QSame(h, g)
QSkips(k, s, u, h, g) ==
  LET f == s[1] IN
  /\ Busy(f) /\ At(f) \in Foreign(k)
  /\ TopIs(s, u, Qdmabuf!U!Onward(f)) /\ QSame(h, g)
QCalls(k, s, u, h, g) ==
  LET f == s[1] IN
  /\ Busy(f) /\ At(f) \in DOMAIN Qdmabuf!Code \ Foreign(k)
  /\ Pushed(s, u, Qdmabuf!U!Frame(At(f))) /\ QSame(h, g)
Past(f, h) ==
  IF At(f) \in {"refcount", "dmabuf"} /\ h[At(f)] # 1
  THEN Len(Qdmabuf!Code[f.proc][f.phase]) + 1 ELSE f.at + 1
QDrops(s, u, h, g) ==
  LET f == s[1] IN
  /\ Busy(f) /\ At(f) \in Qdmabuf!Resources
  /\ f.phase = "get" => Qdmabuf!Code[f.proc].get[f.at].drop
  /\ TopIs(s, u, [f EXCEPT !.at = Past(f, h)])
  /\ \A x \in Watched :
       g[x] = IF At(f) = "buf" /\ x = "refcount" THEN 0
              ELSE IF x = At(f) /\ h[x] > 0 THEN h[x] - 1 ELSE h[x]
QFalls(s, u, h, g) ==
  LET f == s[1] IN
  /\ ~Busy(f) /\ f.phase = "get" /\ f.proc = "qdmabuf_ioctl_info"
  /\ TopIs(s, u, [f EXCEPT !.phase = "put", !.at = 1]) /\ QSame(h, g)
QLeaves(s, u, h, g) ==
  /\ ~Busy(s[1]) /\ Len(s) = 1 /\ u = << >> /\ QSame(h, g)
  /\ s[1].phase = "get" => ~Qdmabuf!Code[s[1].proc].through
QReturns(s, u, h, g) ==
  LET f == s[1]
      b == s[2] IN
  /\ ~Busy(f) /\ Len(s) >= 2 /\ b \in QFrames /\ QSame(h, g)
  /\ f.phase = "get" => ~Qdmabuf!Code[f.proc].through
  /\ Popped(s, u, IF f.result = "err" /\ b.phase = "get"
                  THEN Qdmabuf!U!Cleanup(b) ELSE Qdmabuf!U!Onward(b))
QSteps(k, s, u, h, g) ==
  \/ QGets(s, u, h, g) \/ QRefuses(s, u, h, g) \/ QSkips(k, s, u, h, g)
  \/ QCalls(k, s, u, h, g) \/ QDrops(s, u, h, g) \/ QFalls(s, u, h, g)
  \/ QLeaves(s, u, h, g) \/ QReturns(s, u, h, g)

\* What the operators of the machine say of the call on top.
LEMMA Lemma_QTop ==
  ASSUME QTyped, NEW t \in Qdmabuf!Tasks, ~Qdmabuf!U!Idle(t)
  PROVE  LET f == stack[t][1]
             c == Qdmabuf!Code[f.proc] IN
         /\ stack[t] # << >> /\ stack[t] \in Seq(QFrames) /\ f \in QFrames
         /\ Len(stack[t]) \in Nat \ {0} /\ Qdmabuf!U!Top(t) = f
         /\ Qdmabuf!U!Ends(t) <=> ~Busy(f)
         /\ Qdmabuf!U!Current(t) = At(f)
         /\ Qdmabuf!U!Falls(t) <=> (f.phase = "get" /\ ~Busy(f) /\ c.through)
         /\ Qdmabuf!U!Drops(t) <=> (f.phase = "get" => c.get[f.at].drop)
<1> DEFINE f == stack[t][1]
<1>1. stack[t] # << >> /\ stack[t] \in Seq(QFrames)
  BY DEF Qdmabuf!U!Idle, QTyped
<1>2. Len(stack[t]) \in Nat \ {0} /\ Qdmabuf!U!Top(t) = f /\ f \in QFrames
  BY <1>1, StackEnd DEF Qdmabuf!U!Top
<1> HIDE DEF f
<1>3. f.phase \in {"get", "put"} /\ f.at \in Nat \ {0}
      /\ f.proc \in DOMAIN Qdmabuf!Code
  BY <1>2 DEF QFrames
<1>4. Qdmabuf!U!Ends(t) <=> ~Busy(f)
  BY <1>2, <1>3, Lemma_Shaped DEF Qdmabuf!U!Ends, Qdmabuf!U!Body, Busy, Shaped
<1>5. Qdmabuf!U!Current(t) = At(f)
  BY <1>2, <1>3 DEF Qdmabuf!U!Current, Qdmabuf!U!Body, At
<1>6. Qdmabuf!U!Falls(t)
        <=> (f.phase = "get" /\ ~Busy(f) /\ Qdmabuf!Code[f.proc].through)
  BY <1>1, <1>2, <1>3, <1>4
  DEF Qdmabuf!U!Falls, Qdmabuf!U!Body, Qdmabuf!U!In, Qdmabuf!U!Idle
<1>7. Qdmabuf!U!Drops(t)
        <=> (f.phase = "get" => Qdmabuf!Code[f.proc].get[f.at].drop)
  BY <1>1, <1>2, <1>3
  DEF Qdmabuf!U!Drops, Qdmabuf!U!Body, Qdmabuf!U!In, Qdmabuf!U!Idle
<1> QED
  BY <1>1, <1>2, <1>4, <1>5, <1>6, <1>7 DEF f

\* Every step of a task is one of these.
LEMMA Lemma_QRun ==
  ASSUME QTyped, NEW t \in Qdmabuf!Tasks, Qdmabuf!U!Run(t)
  PROVE  /\ stack[t] # << >> /\ stack[t] \in Seq(QFrames)
         /\ stack' \in [Qdmabuf!Tasks -> Seq(QFrames)]
         /\ \A u \in Qdmabuf!Tasks \ {t} : stack'[u] = stack[u]
         /\ held' \in [Qdmabuf!Resources -> Nat]
         /\ QSteps(kind, stack[t], stack'[t], held, held')
<1> DEFINE f == stack[t][1]
           s == stack[t]
           Frm == /\ stack' \in [Qdmabuf!Tasks -> Seq(QFrames)]
                  /\ \A u \in Qdmabuf!Tasks \ {t} : stack'[u] = stack[u]
           Stp == QSteps(kind, s, stack'[t], held, held')
           Typ == held' \in [Qdmabuf!Resources -> Nat]
<1>1. ~Qdmabuf!U!Idle(t)
  BY DEF Qdmabuf!U!Run, Qdmabuf!U!Acquire, Qdmabuf!U!Refuse, Qdmabuf!U!Call,
     Qdmabuf!U!Release, Qdmabuf!U!Fall, Qdmabuf!U!Return, Qdmabuf!U!Falls,
     Qdmabuf!U!In
<1>2. /\ s # << >> /\ s \in Seq(QFrames) /\ f \in QFrames
      /\ Len(s) \in Nat \ {0} /\ Qdmabuf!U!Top(t) = f
      /\ Qdmabuf!U!Ends(t) <=> ~Busy(f)
      /\ Qdmabuf!U!Current(t) = At(f)
      /\ Qdmabuf!U!Falls(t) <=> (f.phase = "get" /\ ~Busy(f)
                                 /\ Qdmabuf!Code[f.proc].through)
      /\ Qdmabuf!U!Drops(t)
           <=> (f.phase = "get" => Qdmabuf!Code[f.proc].get[f.at].drop)
  BY <1>1, Lemma_QTop
<1>3. f.phase \in {"get", "put"} /\ f.at \in Nat \ {0}
      /\ f.proc \in DOMAIN Qdmabuf!Code
  BY <1>2 DEF QFrames
<1>4. /\ Qdmabuf!U!Onward(f) \in QFrames
      /\ Qdmabuf!U!Onward(f) = [f EXCEPT !.at = @ + 1]
      /\ Qdmabuf!U!Cleanup(f) \in QFrames
      /\ \A n \in Nat \ {0} : [f EXCEPT !.at = n] \in QFrames
      /\ [f EXCEPT !.phase = "put", !.at = 1] \in QFrames
  BY <1>2, Lemma_QFrames
<1>5. ASSUME NEW x, stack' = [stack EXCEPT ![t] = x], x \in Seq(QFrames)
      PROVE  Frm /\ stack'[t] = x
  BY <1>5 DEF QTyped
<1>6. ASSUME NEW g \in QFrames,
             stack' = [stack EXCEPT ![t] = [s EXCEPT ![1] = g]]
      PROVE  Frm /\ TopIs(s, stack'[t], g)
  BY <1>2, <1>5, <1>6, StackTop
<1>0. held \in [Qdmabuf!Resources -> Nat]
      /\ Watched \subseteq Qdmabuf!Resources
  BY Lemma_WatchedAre DEF QTyped
<1>12. held' = held => QSame(held, held') /\ Typ
  BY <1>0 DEF QSame
<1>14. SUFFICES Frm /\ Typ /\ Stp
  BY <1>2
<1> HIDE DEF f, s, Frm, Stp, Typ
<1>7. CASE Qdmabuf!U!Acquire(t)
  <2> DEFINE r == At(f)
  <2>1. Frm /\ TopIs(s, stack'[t], Qdmabuf!U!Onward(f))
    BY <1>2, <1>4, <1>6, <1>7 DEF Qdmabuf!U!Acquire, s, f
  <2>2. Busy(f) /\ r \in Qdmabuf!Resources /\ f.phase = "get"
        /\ ~Qdmabuf!Code[f.proc].get[f.at].drop
    BY <1>2, <1>3, <1>7 DEF Qdmabuf!U!Acquire
  <2>3. r \in Watched =>
          ~Qdmabuf!U!Skipped(r)
          /\ r \notin {"page", "remap", "copy_in", "copy_out"}
    BY Lemma_WatchedAre DEF Qdmabuf!U!Skipped, QTyped
  <2>4. held' = held \/ held' = [held EXCEPT ![r] = @ + 1]
    BY <1>2, <1>7 DEF Qdmabuf!U!Acquire
  <2>5. r \in Watched => held' = [held EXCEPT ![r] = @ + 1]
    BY <1>2, <1>7, <2>3 DEF Qdmabuf!U!Acquire
  <2> HIDE DEF r
  <2>6. /\ Typ
        /\ \A x \in Watched : held'[x] = IF x = r THEN held[x] + 1 ELSE held[x]
    <3>1. CASE held' = [held EXCEPT ![r] = @ + 1]
      BY <1>0, <2>2, <3>1 DEF Typ
    <3>2. CASE held' = held /\ r \notin Watched
      BY <1>0, <3>2 DEF Typ
    <3> QED
      BY <2>4, <2>5, <3>1, <3>2
  <2>7. QGets(s, stack'[t], held, held')
    BY <2>1, <2>2, <2>6 DEF QGets, r, f, s
  <2> QED
    BY <2>1, <2>6, <2>7 DEF QSteps, Stp
<1>8. CASE Qdmabuf!U!Refuse(t)
  <2>1. Frm /\ TopIs(s, stack'[t], Qdmabuf!U!Cleanup(f)) /\ held' = held
    BY <1>2, <1>4, <1>6, <1>8 DEF Qdmabuf!U!Refuse, s, f
  <2>2. Busy(f) /\ At(f) \in Qdmabuf!Resources /\ f.phase = "get"
        /\ At(f) # "refcount"
    BY <1>2, <1>3, <1>8 DEF Qdmabuf!U!Refuse
  <2>3. QRefuses(s, stack'[t], held, held')
    BY <1>12, <2>1, <2>2 DEF QRefuses, f, s
  <2> QED
    BY <1>12, <2>1, <2>3 DEF QSteps, Stp
<1>9. CASE Qdmabuf!U!Call(t)
  <2> DEFINE r == At(f)
  <2>1. Busy(f) /\ r \in DOMAIN Qdmabuf!Code /\ held' = held
    BY <1>2, <1>9 DEF Qdmabuf!U!Call
  <2>2. CASE r \in absent
    <3>1. stack' = [stack EXCEPT ![t] = <<Qdmabuf!U!Onward(f)>> \o Tail(s)]
      BY <1>2, <1>9, <2>2 DEF Qdmabuf!U!Call, s
    <3>2. <<Qdmabuf!U!Onward(f)>> \o Tail(s) \in Seq(QFrames)
          /\ TopIs(s, <<Qdmabuf!U!Onward(f)>> \o Tail(s), Qdmabuf!U!Onward(f))
      BY <1>2, <1>4, StackTop
    <3>3. Frm /\ TopIs(s, stack'[t], Qdmabuf!U!Onward(f))
      BY <1>5, <3>1, <3>2
    <3>4. r \in Foreign(kind)
      BY <2>1, <2>2, Lemma_WatchedAre DEF QTyped
    <3>5. QSkips(kind, s, stack'[t], held, held')
      BY <1>12, <2>1, <3>3, <3>4 DEF QSkips, f, s
    <3> QED
      BY <1>12, <2>1, <3>3, <3>5 DEF QSteps, Stp
  <2>3. CASE r \notin absent
    <3>1. stack' = [stack EXCEPT ![t] = <<Qdmabuf!U!Frame(r)>> \o s]
      BY <1>2, <1>9, <2>3 DEF Qdmabuf!U!Call, s
    <3>2. <<Qdmabuf!U!Frame(r)>> \o s \in Seq(QFrames)
          /\ Pushed(s, <<Qdmabuf!U!Frame(r)>> \o s, Qdmabuf!U!Frame(r))
      BY <1>2, <2>1, Lemma_QFrames, StackPush
    <3>3. Frm /\ Pushed(s, stack'[t], Qdmabuf!U!Frame(r))
      BY <1>5, <3>1, <3>2
    <3>4. r \notin Foreign(kind)
      BY <2>3 DEF QTyped
    <3>5. QCalls(kind, s, stack'[t], held, held')
      BY <1>12, <2>1, <3>3, <3>4 DEF QCalls, f, s
    <3> QED
      BY <1>12, <2>1, <3>3, <3>5 DEF QSteps, Stp
  <2> QED
    BY <2>2, <2>3
<1>10. CASE Qdmabuf!U!Release(t)
  <2> DEFINE r == At(f)
  <2>1. /\ Busy(f) /\ r \in Qdmabuf!Resources
        /\ f.phase = "get" => Qdmabuf!Code[f.proc].get[f.at].drop
    BY <1>2, <1>10 DEF Qdmabuf!U!Release
  <2>2. stack' = [stack EXCEPT ![t][1].at =
           IF r \in {"refcount", "dmabuf"} /\ held[r] # 1
             THEN Len(Qdmabuf!U!Body(t)[Qdmabuf!U!Top(t).phase]) + 1
               ELSE @ + 1]
    BY <1>2, <1>10 DEF Qdmabuf!U!Release
  <2>3. Qdmabuf!U!Body(t)[Qdmabuf!U!Top(t).phase]
          = Qdmabuf!Code[f.proc][f.phase]
    BY <1>2 DEF Qdmabuf!U!Body
  <2>4. stack' = [stack EXCEPT ![t] = [s EXCEPT ![1] =
                    [f EXCEPT !.at = Past(f, held)]]]
    BY <2>2, <2>3 DEF Past, s, f
  <2>5. Past(f, held) \in Nat \ {0}
    <3>1. Len(Qdmabuf!Code[f.proc][f.phase]) \in Nat
      BY <1>3, Lemma_Shaped DEF Shaped
    <3> QED
      BY <1>3, <3>1 DEF Past
  <2>6. Frm /\ TopIs(s, stack'[t], [f EXCEPT !.at = Past(f, held)])
    BY <1>4, <1>6, <2>4, <2>5
  <2>7. held' = [x \in Qdmabuf!Resources |->
                   IF r = "buf" /\ x = "refcount" THEN 0
                   ELSE IF x # r \/ Qdmabuf!U!Kept(r) \/ held[r] = 0
                     THEN held[x]
                   ELSE held[r] - 1]
    BY <1>2, <1>10 DEF Qdmabuf!U!Release
  <2>8. r \in Watched => ~Qdmabuf!U!Kept(r)
    BY Lemma_WatchedAre DEF Qdmabuf!U!Kept, QTyped
  <2> HIDE DEF r
  <2>9. Typ
    BY <1>0, <2>1, <2>7 DEF Typ
  <2>10. \A x \in Watched :
           held'[x] = IF r = "buf" /\ x = "refcount" THEN 0
                      ELSE IF x = r /\ held[x] > 0 THEN held[x] - 1
                      ELSE held[x]
    BY <1>0, <2>1, <2>7, <2>8
  <2>11. QDrops(s, stack'[t], held, held')
    BY <2>1, <2>6, <2>10 DEF QDrops, r, f, s
  <2> QED
    BY <2>6, <2>9, <2>11 DEF QSteps, Stp
<1>11. CASE Qdmabuf!U!Fall(t)
  <2>1. ~Busy(f) /\ f.phase = "get" /\ f.proc = "qdmabuf_ioctl_info"
        /\ held' = held
    BY <1>2, <1>3, <1>11, Lemma_Shaped DEF Qdmabuf!U!Fall
  <2>2. stack' = [stack EXCEPT ![t] = [s EXCEPT ![1] =
                    [f EXCEPT !.phase = "put", !.at = 1]]]
    BY <1>2, <1>11, <1>0 DEF Qdmabuf!U!Fall, s, f, QTyped
  <2>3. Frm /\ TopIs(s, stack'[t], [f EXCEPT !.phase = "put", !.at = 1])
    BY <1>4, <1>6, <2>2
  <2>4. QFalls(s, stack'[t], held, held')
    BY <1>12, <2>1, <2>3 DEF QFalls, f, s
  <2> QED
    BY <1>12, <2>1, <2>3, <2>4 DEF QSteps, Stp
<1>13. CASE Qdmabuf!U!Return(t)
  <2>1. ~Busy(f) /\ held' = held
        /\ (f.phase = "get" => ~Qdmabuf!Code[f.proc].through)
    BY <1>2, <1>13 DEF Qdmabuf!U!Return
  <2>2. CASE Tail(s) = << >>
    <3>1. stack' = [stack EXCEPT ![t] = << >>] /\ Len(s) = 1
      BY <1>2, <1>13, <2>2, StackEnd DEF Qdmabuf!U!Return, s
    <3>2. Frm /\ stack'[t] = << >>
      BY <1>5, <3>1, ListEmpty
    <3>3. QLeaves(s, stack'[t], held, held')
      BY <1>12, <2>1, <3>1, <3>2 DEF QLeaves, f, s
    <3> QED
      BY <1>12, <2>1, <3>2, <3>3 DEF QSteps, Stp
  <2>3. CASE Tail(s) # << >>
    <3> DEFINE g == s[2]
               x == IF f.result = "err" /\ g.phase = "get"
                    THEN Qdmabuf!U!Cleanup(g) ELSE Qdmabuf!U!Onward(g)
    <3>1. Len(s) >= 2 /\ Tail(s)[1] = g /\ g \in QFrames
      BY <1>2, <2>3, StackPop, StackEnd
    <3>2. x \in QFrames
      BY <3>1, Lemma_QFrames
    <3>3. stack' = [stack EXCEPT ![t] = <<x>> \o Tail(Tail(s))]
      BY <1>2, <1>13, <2>3, <3>1 DEF Qdmabuf!U!Return, s
    <3>4. <<x>> \o Tail(Tail(s)) \in Seq(QFrames)
          /\ Popped(s, <<x>> \o Tail(Tail(s)), x)
      BY <1>2, <2>3, <3>2, StackPop
    <3>5. Frm /\ Popped(s, stack'[t], x)
      BY <1>5, <3>3, <3>4
    <3>6. QReturns(s, stack'[t], held, held')
      BY <1>12, <2>1, <3>1, <3>5 DEF QReturns, f, s
    <3> QED
      BY <1>12, <2>1, <3>5, <3>6 DEF QSteps, Stp
  <2> QED
    BY <2>2, <2>3
<1> QED
  BY <1>7, <1>8, <1>9, <1>10, <1>11, <1>13 DEF Qdmabuf!U!Run

\* Those that are called put the dma-buf, if at all, last.
LEMMA Lemma_LastPut ==
  ASSUME NEW p \in Callers
  PROVE  LET c == Qdmabuf!Code[p] IN
         \/ p = "fork" /\ Len(c.put) = 0
         \/ /\ Len(c.put) \in Nat /\ Len(c.put) >= 1
            /\ c.put[Len(c.put)] = "dma_buf_put"
            /\ \A i \in 1 .. Len(c.put) - 1 : c.put[i] # "dma_buf_put"
<1> DEFINE c == Qdmabuf!Code[p]
<1>1. CASE p = "import"
  <2>1. c.put = <<"dma_buf_put">>
    BY <1>1 DEF Qdmabuf!Code, Qdmabuf!import, Qdmabuf!Script
  <2> HIDE DEF c
  <2>2. Len(c.put) = 1 /\ c.put[1] = "dma_buf_put"
    BY <2>1
  <2>3. \A i \in 1 .. 1 - 1 : FALSE
    OBVIOUS
  <2> QED
    BY <2>2, <2>3 DEF c
<1>2. CASE p = "mmap"
  <2>1. c.put = <<"dma_buf_put">>
    BY <1>2 DEF Qdmabuf!Code, Qdmabuf!mmap, Qdmabuf!Script
  <2> HIDE DEF c
  <2>2. Len(c.put) = 1 /\ c.put[1] = "dma_buf_put"
    BY <2>1
  <2>3. \A i \in 1 .. 1 - 1 : FALSE
    OBVIOUS
  <2> QED
    BY <2>2, <2>3 DEF c
<1>3. CASE p = "munmap"
  <2>1. c.put = <<"dmabuf_exp_vm_close", "dma_buf_put">>
    BY <1>3 DEF Qdmabuf!Code, Qdmabuf!munmap, Qdmabuf!Releases, Qdmabuf!Script
  <2> HIDE DEF c
  <2>2. Len(c.put) = 2 /\ c.put[1] = "dmabuf_exp_vm_close"
        /\ c.put[2] = "dma_buf_put"
    BY <2>1
  <2> QED
    BY <2>2 DEF c
<1>4. CASE p = "fork"
  BY <1>4 DEF Qdmabuf!Code, Qdmabuf!fork, Qdmabuf!Script
<1>5. CASE p \in {"unimport", "qdmabuf_ioctl_info"}
  <2> DEFINE k == "vmalloc"
  <2>1. Joined(c.put, Qdmabuf!Detach, <<"dma_buf_put">>)
    <3>1. CASE p = "unimport"
      BY <3>1 DEF Joined, Qdmabuf!Code, Qdmabuf!unimport, Qdmabuf!Releases,
         Qdmabuf!Script
    <3>2. CASE p = "qdmabuf_ioctl_info"
      BY <3>2, Lemma_infoBody
    <3> QED
      BY <1>5, <3>1, <3>2
  <2>2. k \in Qdmabuf!Kinds
    BY DEF Qdmabuf!Kinds
  <2> HIDE DEF c, k
  <2>3. /\ Len(c.put) = 4 /\ c.put[4] = "dma_buf_put"
        /\ TwoTake(k, c, Turn[k], {"attach"}, 4, {"dmabuf"})
    BY <2>1, <2>2, Lemma_Detach
  <2>4. \A i \in 1 .. 3 : Share(k, c.put[i]) # {"dmabuf"}
    BY <2>3 DEF TwoTake
  <2>5. Share(k, "dma_buf_put") = {"dmabuf"}
    BY <2>2, Lemma_Shares
  <2>6. \A i \in 1 .. Len(c.put) - 1 : c.put[i] # "dma_buf_put"
    BY <2>3, <2>4, <2>5
  <2> QED
    BY <2>3, <2>6 DEF c
<1> QED
  BY <1>1, <1>2, <1>3, <1>4, <1>5 DEF Callers, AppCalls, OtherCalls

-----------------------------------------------------------------------------
(* Calls that touch no reference.                                          *)

\* A call that does no harm does none later, nor does what it calls.
LEMMA Lemma_Dull ==
  ASSUME NEW k \in Qdmabuf!Kinds, NEW f \in QFrames, Dull(k, f)
  PROVE  /\ \A n \in Nat : n >= f.at => Dull(k, [f EXCEPT !.at = n])
         /\ f.phase = "get" => Dull(k, Qdmabuf!U!Cleanup(f))
         /\ Busy(f) /\ At(f) \in DOMAIN Qdmabuf!Code \ Foreign(k) =>
              Dull(k, Qdmabuf!U!Frame(At(f)))
         /\ Busy(f) /\ At(f) \in Qdmabuf!Resources =>
              /\ At(f) \notin {"fd", "attach"}
              /\ f.phase = "get" => At(f) \notin Watched
         /\ f.phase = "get" => f.proc # "qdmabuf_ioctl_info"
         /\ f.proc \in {"mmap", "fork"} => f.result = "err"
<1> DEFINE p == f.proc
           c == Qdmabuf!Code[p]
<1>1. /\ p \in DOMAIN Qdmabuf!Code /\ f.at \in Nat \ {0}
      /\ f.phase \in {"get", "put"} /\ f.result \in {"ok", "err"}
  BY DEF QFrames
<1>2. /\ Len(c.get) \in Nat /\ DOMAIN c.get = 1 .. Len(c.get)
      /\ Len(c.put) \in Nat /\ DOMAIN c.put = 1 .. Len(c.put)
  BY <1>1, Lemma_Shaped DEF Shaped
<1>3. Idlers \cap Others = {}
      /\ Callers \cup Putters \cup Makers \subseteq Others
      /\ DOMAIN Qdmabuf!Code = Idlers \cup Others
      /\ Makers \cap (Callers \cup Putters) = {} /\ Callers \cap Putters = {}
  BY Lemma_Functions
  DEF Others, Callers, AppCalls, OtherCalls, Putters, Makers
<1>4. "qdmabuf_ioctl_alloc" \in Makers /\ "qdmabuf_ioctl_info" \in Callers
      /\ {"mmap", "fork"} \subseteq Callers
  BY DEF Makers, Callers, AppCalls, OtherCalls
<1>5. Qdmabuf!Resources \cap DOMAIN Qdmabuf!Code = {}
      /\ Watched \subseteq Qdmabuf!Resources
  BY Lemma_WatchedAre
<1>6. Busy(f) => IF f.phase = "get" THEN f.at \in DOMAIN c.get
        /\ At(f) = c.get[f.at].what
                                    ELSE f.at \in DOMAIN c.put
                                      /\ At(f) = c.put[f.at]
  BY <1>1, <1>2 DEF Busy, At
<1>7. \A n \in Nat : LET g == [f EXCEPT !.at = n] IN
        g.proc = p /\ g.phase = f.phase /\ g.at = n /\ g.result = f.result
  BY DEF QFrames
<1>8. LET g == Qdmabuf!U!Cleanup(f) IN
        /\ g.proc = p
        /\ g = [f EXCEPT !.at = @ + 1] \/ g.phase = "put"
  <2>1. Qdmabuf!U!Cleanup(f).proc = p
    BY Lemma_QFrames
  <2> QED
    BY <2>1 DEF Qdmabuf!U!Cleanup, QFrames
<1>9. \A q \in Idlers \cup Putters :
        q \in DOMAIN Qdmabuf!Code /\ Dull(k, Qdmabuf!U!Frame(q))
  <2> SUFFICES ASSUME NEW q \in Idlers \cup Putters
               PROVE  q \in DOMAIN Qdmabuf!Code /\ Dull(k, Qdmabuf!U!Frame(q))
    OBVIOUS
  <2>1. q \in DOMAIN Qdmabuf!Code
    BY <1>3
  <2>2. Qdmabuf!U!Frame(q).proc = q
        /\ (q \in Putters => Qdmabuf!U!Frame(q).phase = "put")
    BY <2>1, Lemma_QFrames, Lemma_Putters
  <2> QED
    BY <2>1, <2>2 DEF Dull
<1>10. {"fd", "attach"} \subseteq Watched
  BY DEF Watched, Refs, Stock
<1> HIDE DEF p, c
<1>11. CASE p \in Idlers
  <2>1. /\ \A i \in DOMAIN c.get : c.get[i].what \notin Watched \cup Others
        /\ \A i \in DOMAIN c.put : c.put[i] \notin Watched \cup Others
    BY <1>11, Lemma_Idlers DEF Idle0, c
  <2>2. Busy(f) => At(f) \notin Watched \cup Others
    BY <1>6, <2>1
  <2>3. \A g : g.proc = p => Dull(k, g)
    BY <1>11 DEF Dull
  <2>4. p # "qdmabuf_ioctl_info" /\ p \notin {"mmap", "fork"}
    BY <1>3, <1>4, <1>11
  <2> QED
    BY <1>3, <1>7, <1>8, <1>9, <1>10, <2>2, <2>3, <2>4 DEF p
<1>12. CASE p = "qdmabuf_ioctl_alloc" /\ f.phase = "get" /\ f.at > AllocAt[k]
  <2>1. /\ AllocAt[k] \in 2 .. 4 /\ Len(c.get) = 5
        /\ \A i \in 1 .. 5 : i # AllocAt[k] =>
             c.get[i].what \in {"copy_in", "copy_out"} \cup Foreign(k)
    BY <1>12, Lemma_ioctl_alloc DEF c
  <2>2. Busy(f) => At(f) \in {"copy_in", "copy_out"} \cup Foreign(k)
    BY <1>2, <1>6, <1>12, <2>1
  <2>3. {"copy_in", "copy_out"} \cap Watched = {}
        /\ {"copy_in", "copy_out"} \subseteq Qdmabuf!Resources
        /\ Foreign(k) \cap Qdmabuf!Resources = {}
    BY Lemma_WatchedAre DEF Qdmabuf!Resources
  <2>4. \A g : g.proc = p /\ (g.phase = "put" \/ g.at > AllocAt[k]) =>
                 Dull(k, g)
    BY <1>4, <1>12 DEF Dull
  <2>5. \A n \in Nat : n >= f.at => Dull(k, [f EXCEPT !.at = n])
    <3> SUFFICES ASSUME NEW n \in Nat, n >= f.at
                 PROVE  Dull(k, [f EXCEPT !.at = n])
      OBVIOUS
    <3>1. n > AllocAt[k]
      BY <1>1, <1>12, <2>1
    <3> QED
      BY <1>7, <2>4, <3>1
  <2>6. Dull(k, Qdmabuf!U!Cleanup(f))
    <3>1. f.at + 1 \in Nat /\ f.at + 1 >= f.at
      BY <1>1
    <3> QED
      BY <1>8, <2>4, <2>5, <3>1
  <2>7. p # "qdmabuf_ioctl_info" /\ p \notin {"mmap", "fork"}
    BY <1>12
  <2>8. Busy(f) => At(f) \notin DOMAIN Qdmabuf!Code \ Foreign(k)
                   /\ At(f) \notin Watched
    BY <1>5, <2>2, <2>3
  <2> QED
    BY <1>10, <2>5, <2>6, <2>7, <2>8 DEF p
<1>13. CASE f.phase = "put" /\ p \in Putters \cup Makers
  <2>1. \A i \in 1 .. Len(c.put) :
          c.put[i] \in Putters \cup (Qdmabuf!Resources \ {"fd", "attach"})
    BY <1>13, Lemma_Putters, Lemma_Makers DEF Sheds, c
  <2>2. Busy(f)
          => At(f) \in Putters \cup (Qdmabuf!Resources \ {"fd", "attach"})
    BY <1>2, <1>6, <1>13, <2>1
  <2>3. \A g : g.proc = p /\ g.phase = "put" => Dull(k, g)
    BY <1>13 DEF Dull
  <2>4. p \notin {"mmap", "fork"}
    BY <1>3, <1>4, <1>13
  <2>5. Putters \subseteq DOMAIN Qdmabuf!Code
    BY <1>3
  <2>6. Busy(f) /\ At(f) \in DOMAIN Qdmabuf!Code => At(f) \in Putters
    BY <1>5, <2>2
  <2>7. Busy(f) /\ At(f) \in Qdmabuf!Resources => At(f) \notin {"fd", "attach"}
    BY <1>5, <2>2, <2>5
  <2>8. \A n \in Nat : Dull(k, [f EXCEPT !.at = n])
    BY <1>7, <1>13, <2>3
  <2>9. f.phase # "get"
    BY <1>13
  <2>10. Busy(f) /\ At(f) \in DOMAIN Qdmabuf!Code =>
           Dull(k, Qdmabuf!U!Frame(At(f)))
    BY <1>9, <2>6
  <2> QED
    BY <2>4, <2>7, <2>8, <2>9, <2>10 DEF p
<1>14. CASE /\ f.phase = "put" /\ p \in Callers /\ f.at >= Len(c.put)
            /\ p \in {"mmap", "fork"} => f.result = "err"
  <2>1. Busy(f) => At(f) = "dma_buf_put"
    <3>1. Busy(f) => f.at = Len(c.put) /\ At(f) = c.put[Len(c.put)]
                     /\ Len(c.put) >= 1
      BY <1>1, <1>2, <1>6, <1>14
    <3> QED
      BY <1>14, <3>1, Lemma_LastPut DEF c
  <2>2. "dma_buf_put" \in Putters
    BY DEF Putters
  <2>3. \A n \in Nat : n >= f.at => Dull(k, [f EXCEPT !.at = n])
    <3> SUFFICES ASSUME NEW n \in Nat, n >= f.at
                 PROVE  Dull(k, [f EXCEPT !.at = n])
      OBVIOUS
    <3> DEFINE g == [f EXCEPT !.at = n]
    <3>1. g.proc = p /\ g.phase = f.phase /\ g.at = n /\ g.result = f.result
      BY <1>7
    <3> HIDE DEF g
    <3>2. n >= Len(c.put)
      BY <1>1, <1>2, <1>14
    <3>3. Dull(k, g)
      BY <1>14, <3>1, <3>2 DEF Dull, c
    <3> QED
      BY <3>3 DEF g
  <2>4. "dma_buf_put" \notin Qdmabuf!Resources
    BY <1>3, <1>5, <2>2
  <2> QED
    BY <1>9, <1>14, <2>1, <2>2, <2>3, <2>4 DEF p
<1> QED
  BY <1>1, <1>4, <1>11, <1>12, <1>13, <1>14 DEF Dull, p, c

\* Where a release goes on.
LEMMA Lemma_Past ==
  ASSUME NEW f \in QFrames, Busy(f), NEW h
  PROVE  Past(f, h) \in Nat \ {0} /\ Past(f, h) >= f.at
<1> DEFINE n == Len(Qdmabuf!Code[f.proc][f.phase])
<1>1. n \in Nat /\ f.at \in Nat \ {0}
  BY Lemma_Shaped DEF QFrames, Shaped
<1>2. f.at <= n
  BY DEF Busy
<1>3. Past(f, h) = n + 1 \/ Past(f, h) = f.at + 1
  BY DEF Past
<1> HIDE DEF n
<1> QED
  BY <1>1, <1>2, <1>3

\* Calls that do no harm, above the lowest or all of them, keep doing none, and
\* leave descriptors and attachments alone.
LEMMA Lemma_Harmless ==
  ASSUME NEW k \in Qdmabuf!Kinds, NEW s \in Seq(QFrames), NEW u, NEW h, NEW g,
         QSteps(k, s, u, h, g), NEW n \in {0, 1}, Len(s) - n >= 1,
         \A i \in 1 .. Len(s) - n : Dull(k, s[i]),
         QReturns(s, u, h, g) => Len(s) - n >= 2
  PROVE  /\ Len(u) \in Nat /\ \A i \in 1 .. Len(u) - n : Dull(k, u[i])
         /\ n = 1 => u[Len(u)] = s[Len(s)] /\ Len(u) >= 2
         /\ g["fd"] = h["fd"] /\ g["attach"] = h["attach"]
<1> DEFINE f == s[1]
           F == {x \in QFrames : Dull(k, x)}
<1>1. Len(s) \in Nat /\ s # << >> /\ \A i \in 1 .. Len(s) : s[i] \in QFrames
  <2>1. Len(s) \in Nat /\ Len(s) >= 1
    OBVIOUS
  <2>2. s # << >>
    BY <2>1, ListEmpty
  <2> QED
    BY <2>1, <2>2, StackEnd
<1>2. f \in QFrames /\ Dull(k, f) /\ \A i \in 1 .. Len(s) - n : s[i] \in F
  BY <1>1
<1>3. {"fd", "attach"} \subseteq Watched
  BY DEF Watched, Refs, Stock
<1>4. /\ \A m \in Nat : m >= f.at => Dull(k, [f EXCEPT !.at = m])
      /\ f.phase = "get" => Dull(k, Qdmabuf!U!Cleanup(f))
      /\ Busy(f) /\ At(f) \in DOMAIN Qdmabuf!Code \ Foreign(k) =>
           Dull(k, Qdmabuf!U!Frame(At(f)))
      /\ Busy(f) /\ At(f) \in Qdmabuf!Resources =>
           /\ At(f) \notin {"fd", "attach"}
           /\ f.phase = "get" => At(f) \notin Watched
      /\ f.phase = "get" => f.proc # "qdmabuf_ioctl_info"
  BY <1>2, Lemma_Dull
<1>5. ASSUME NEW b \in QFrames, Dull(k, b)
      PROVE  Qdmabuf!U!Onward(b) \in F
             /\ (b.phase = "get" => Qdmabuf!U!Cleanup(b) \in F)
  <2>1. b.at + 1 \in Nat /\ b.at + 1 >= b.at
    BY DEF QFrames
  <2>2. Dull(k, [b EXCEPT !.at = b.at + 1])
    BY <1>5, <2>1, Lemma_Dull
  <2>3. Dull(k, Qdmabuf!U!Onward(b))
    BY <2>2 DEF Qdmabuf!U!Onward
  <2>4. b.phase = "get" => Dull(k, Qdmabuf!U!Cleanup(b))
    BY <1>5, Lemma_Dull
  <2> QED
    BY <2>3, <2>4, Lemma_QFrames
<1>6. ASSUME NEW x \in F, Len(s) - n >= 1,
             \/ TopIs(s, u, x)
             \/ Pushed(s, u, x)
             \/ Popped(s, u, x) /\ Len(s) - n >= 2
      PROVE  /\ Len(u) \in Nat /\ \A i \in 1 .. Len(u) - n : Dull(k, u[i])
             /\ n = 1 => u[Len(u)] = s[Len(s)] /\ Len(u) >= 2
  <2>1. /\ \A i \in 1 .. Len(u) - n : u[i] \in F
        /\ n = 1 => u[Len(u)] = s[Len(s)]
        /\ Len(u) \in Nat /\ Len(u) - n >= 1
    <3> HIDE DEF F
    <3> QED
      BY <1>1, <1>2, <1>6, StackAll
  <2> QED
    BY <2>1
<1>7. Busy(f) => f.at <= Past(f, h) /\ Past(f, h) \in Nat \ {0}
                 /\ [f EXCEPT !.at = Past(f, h)] \in F
  <2> SUFFICES ASSUME Busy(f)
               PROVE  f.at <= Past(f, h) /\ Past(f, h) \in Nat \ {0}
                      /\ [f EXCEPT !.at = Past(f, h)] \in F
    OBVIOUS
  <2>1. f.at <= Past(f, h) /\ Past(f, h) \in Nat \ {0}
    BY <1>2, Lemma_Past DEF QFrames
  <2>2. [f EXCEPT !.at = Past(f, h)] \in QFrames
    BY <1>2, <2>1, Lemma_QFrames
  <2> QED
    BY <1>4, <2>1, <2>2
<1>8. QSame(h, g) => g["fd"] = h["fd"] /\ g["attach"] = h["attach"]
  BY <1>3 DEF QSame
<1>9. Busy(f) /\ At(f) \in DOMAIN Qdmabuf!Code \ Foreign(k) =>
        Qdmabuf!U!Frame(At(f)) \in F
  BY <1>4, Lemma_QFrames
<1> HIDE DEF F
<1>11. CASE QGets(s, u, h, g)
  <2>1. g["fd"] = h["fd"] /\ g["attach"] = h["attach"]
    BY <1>3, <1>4, <1>11 DEF QGets
  <2> QED
    BY <1>2, <1>5, <1>6, <1>11, <2>1 DEF QGets
<1>12. CASE QRefuses(s, u, h, g)
  BY <1>2, <1>5, <1>6, <1>8, <1>12 DEF QRefuses
<1>13. CASE QSkips(k, s, u, h, g)
  BY <1>2, <1>5, <1>6, <1>8, <1>13 DEF QSkips
<1>14. CASE QCalls(k, s, u, h, g)
  BY <1>6, <1>8, <1>9, <1>14 DEF QCalls
<1>15. CASE QDrops(s, u, h, g)
  <2>1. g["fd"] = h["fd"] /\ g["attach"] = h["attach"]
    BY <1>3, <1>4, <1>15 DEF QDrops
  <2> QED
    BY <1>6, <1>7, <1>15, <2>1 DEF QDrops
<1>16. CASE QFalls(s, u, h, g)
  BY <1>4, <1>16 DEF QFalls
<1>17. CASE QLeaves(s, u, h, g)
  <2>1. n = 0 /\ Len(u) = 0
    BY <1>17, ListEmpty DEF QLeaves
  <2> QED
    BY <1>8, <1>17, <2>1 DEF QLeaves
<1>18. CASE QReturns(s, u, h, g)
  <2> DEFINE b == s[2]
  <2>1. Len(s) - n >= 2 /\ b \in QFrames /\ QSame(h, g)
    BY <1>18 DEF QReturns
  <2>2. 2 \in 1 .. Len(s) - n
    BY <1>1, <2>1
  <2>3. Dull(k, b)
    BY <2>2
  <2>4. Qdmabuf!U!Onward(b) \in F
        /\ (b.phase = "get" => Qdmabuf!U!Cleanup(b) \in F)
    BY <1>5, <2>1, <2>3
  <2> QED
    BY <1>6, <1>8, <1>18, <2>1, <2>4 DEF QReturns
<1> QED
  BY <1>11, <1>12, <1>13, <1>14, <1>15, <1>16, <1>17, <1>18 DEF QSteps

\* The driver core never has to do with what counts.
LEMMA Lemma_Calm ==
  ASSUME NEW k \in Qdmabuf!Kinds, NEW s \in Seq(QFrames), NEW u, NEW h, NEW g,
         QSteps(k, s, u, h, g), s # << >>, Calm(s)
  PROVE  Calm(u) /\ QSame(h, g)
<1> DEFINE f == s[1]
           F == {x \in QFrames : x.proc \in Idlers}
<1>1. Len(s) \in Nat /\ Len(s) >= 1 /\ \A i \in 1 .. Len(s) : s[i] \in QFrames
  BY StackEnd
<1>2. f \in F /\ f.proc \in Idlers /\ \A i \in 1 .. Len(s) : s[i] \in F
  BY <1>1 DEF Calm
<1>4. Busy(f) => At(f) \notin Watched \cup Others
  <2>1. LET c == Qdmabuf!Code[f.proc] IN
        /\ DOMAIN c.get = 1 .. Len(c.get) /\ DOMAIN c.put = 1 .. Len(c.put)
        /\ \A i \in DOMAIN c.get : c.get[i].what \notin Watched \cup Others
        /\ \A i \in DOMAIN c.put : c.put[i] \notin Watched \cup Others
    BY <1>2, Lemma_Idlers DEF Idle0, Shaped
  <2>2. f.at \in Nat \ {0} /\ f.phase \in {"get", "put"}
        /\ \A i \in DOMAIN Qdmabuf!Code[f.proc].get :
             i \in 1 .. Len(Qdmabuf!Code[f.proc].get)
    BY <1>2, <2>1 DEF QFrames
  <2>3. CASE f.phase = "get"
    <3>1. Busy(f) => f.at \in 1 .. Len(Qdmabuf!Code[f.proc].get)
      BY <1>2, <2>2, <2>3, Lemma_Shaped DEF Busy, QFrames, Shaped
    <3> QED
      BY <2>1, <2>3, <3>1 DEF At
  <2>4. CASE f.phase = "put"
    <3>1. Busy(f) => f.at \in 1 .. Len(Qdmabuf!Code[f.proc].put)
      BY <1>2, <2>2, <2>4, Lemma_Shaped DEF Busy, QFrames, Shaped
    <3> QED
      BY <2>1, <2>4, <3>1 DEF At
  <2> QED
    BY <2>2, <2>3, <2>4
<1>5. \A b \in F : Qdmabuf!U!Onward(b) \in F /\ Qdmabuf!U!Cleanup(b) \in F
  <2> SUFFICES ASSUME NEW b \in F
               PROVE  Qdmabuf!U!Onward(b) \in F /\ Qdmabuf!U!Cleanup(b) \in F
    OBVIOUS
  <2>1. /\ Qdmabuf!U!Onward(b) \in QFrames /\ Qdmabuf!U!Cleanup(b) \in QFrames
        /\ Qdmabuf!U!Cleanup(b).proc = b.proc
        /\ Qdmabuf!U!Onward(b) = [b EXCEPT !.at = @ + 1]
    BY Lemma_QFrames
  <2>2. [b EXCEPT !.at = @ + 1].proc = b.proc
    BY DEF QFrames
  <2> QED
    BY <2>1, <2>2
<1>6. ASSUME NEW x \in F,
             TopIs(s, u, x) \/ Pushed(s, u, x)
             \/ (Popped(s, u, x) /\ Len(s) >= 2)
      PROVE  Calm(u)
  <2> HIDE DEF F
  <2>1. \A i \in 1 .. Len(u) - 0 : u[i] \in F
    <3>1. Len(s) - 0 >= 1 /\ \A i \in 1 .. Len(s) - 0 : s[i] \in F
      BY <1>1, <1>2
    <3>2. TopIs(s, u, x) \/ Pushed(s, u, x)
          \/ (Popped(s, u, x) /\ Len(s) - 0 >= 2)
      BY <1>1, <1>6
    <3> QED
      BY <1>1, <3>1, <3>2, StackAll
  <2>2. Len(u) \in Nat
    BY <1>1, <1>6 DEF TopIs, Pushed, Popped
  <2> QED
    BY <2>1, <2>2 DEF Calm, F
<1>7. /\ \A x \in F : [x EXCEPT !.at = Past(x, h)].proc = x.proc
      /\ Busy(f) => [f EXCEPT !.at = Past(f, h)] \in F
  <2>1. \A x \in F : [x EXCEPT !.at = Past(x, h)].proc = x.proc
    BY DEF QFrames
  <2>2. Busy(f) => Past(f, h) \in Nat \ {0}
    BY <1>2, Lemma_Past
  <2>3. Busy(f) => [f EXCEPT !.at = Past(f, h)] \in QFrames
    BY <1>2, <2>2, Lemma_QFrames
  <2> QED
    BY <1>2, <2>1, <2>3
<1>8. Busy(f) /\ At(f) \in DOMAIN Qdmabuf!Code =>
        Qdmabuf!U!Frame(At(f)) \in F
  <2>1. Busy(f) /\ At(f) \in DOMAIN Qdmabuf!Code => At(f) \in Idlers
    BY <1>4, Lemma_Functions
  <2> QED
    BY <2>1, Lemma_QFrames
<1>9. f.proc # "qdmabuf_ioctl_info" /\ "buf" \in Watched
  BY <1>2 DEF Idlers, Watched, Stock
<1> HIDE DEF F
<1>11. CASE QGets(s, u, h, g)
  <2>1. QSame(h, g)
    BY <1>4, <1>11 DEF QGets, QSame
  <2> QED
    BY <1>2, <1>5, <1>6, <1>11, <2>1 DEF QGets
<1>12. CASE QRefuses(s, u, h, g)
  BY <1>2, <1>5, <1>6, <1>12 DEF QRefuses
<1>13. CASE QSkips(k, s, u, h, g)
  BY <1>2, <1>5, <1>6, <1>13 DEF QSkips
<1>14. CASE QCalls(k, s, u, h, g)
  BY <1>6, <1>8, <1>14 DEF QCalls
<1>15. CASE QDrops(s, u, h, g)
  <2>1. QSame(h, g)
    BY <1>4, <1>9, <1>15 DEF QDrops, QSame
  <2> QED
    BY <1>6, <1>7, <1>15, <2>1 DEF QDrops
<1>16. CASE QFalls(s, u, h, g)
  BY <1>9, <1>16 DEF QFalls
<1>17. CASE QLeaves(s, u, h, g)
  BY <1>17, ListEmpty DEF QLeaves, Calm
<1>18. CASE QReturns(s, u, h, g)
  <2>1. 2 \in 1 .. Len(s)
    BY <1>1, <1>18 DEF QReturns
  <2>2. s[2] \in F
    BY <1>2, <2>1
  <2> QED
    BY <1>5, <1>6, <1>18, <2>2 DEF QReturns
<1> QED
  BY <1>11, <1>12, <1>13, <1>14, <1>15, <1>16, <1>17, <1>18 DEF QSteps

\* The functions of the other kinds have no share in the references, and the
\* functions that count are none of those that keep account step by step.
LEMMA Lemma_Foreign ==
  ASSUME NEW k \in Qdmabuf!Kinds
  PROVE  /\ \A w \in Foreign(k) : Share(k, w) = {}
         /\ Tally(k) \cap Counters(k) = {}
         /\ Tally(k) \cap Foreign(k) \subseteq Idlers
         /\ Tally(k) \cup Counters(k) \subseteq DOMAIN Qdmabuf!Code
         /\ Counters(k) \subseteq Putters
         /\ Callers \cap (Idlers \cup Called(k) \cup Counters(k)) = {}
         /\ {"dmabuf_exp_vm_open", "refcount"} \cap Foreign(k) = {}
<1>1. Foreign(k) \cap (Refs \cup Callers \cup Called(k) \cup Counters(k)) = {}
  <2> USE DEF Foreign, Qdmabuf!Of, Refs, Callers, AppCalls, OtherCalls, Called,
              Counters, AttachOf, DetachOf, MmapOf, PutOf, Qdmabuf!Kinds
  <2>1. CASE k = "vmalloc"
    BY <2>1
  <2>2. CASE k = "dma_sg"
    BY <2>2
  <2>3. CASE k = "dma_contig"
    BY <2>3
  <2> QED
    BY <2>1, <2>2, <2>3
<1>2. \A w \in Foreign(k) : Share(k, w) = {}
  BY <1>1, Lemma_Shares
<1>3. Callers \cup Called(k) \cup Counters(k) \subseteq Others
  BY DEF Callers, AppCalls, OtherCalls, Called, Counters, Others, Putters,
         Qdmabuf!Kinds, AttachOf, DetachOf, MmapOf, PutOf
<1>4. Tally(k) \cap Foreign(k) \subseteq Idlers
  BY <1>1 DEF Tally
<1>5. Tally(k) \cap Counters(k) = {}
      /\ Callers \cap (Idlers \cup Called(k) \cup Counters(k)) = {}
  BY <1>3, Lemma_Functions
  DEF Tally, Callers, AppCalls, OtherCalls, Called, Counters, Qdmabuf!Kinds,
      AttachOf, DetachOf, MmapOf, PutOf
<1>6. Tally(k) \cup Counters(k) \subseteq DOMAIN Qdmabuf!Code
  BY <1>3, Lemma_Functions DEF Tally
<1> QED
  BY <1>1, <1>2, <1>4, <1>5, <1>6, Lemma_Counters DEF Called, Refs

-----------------------------------------------------------------------------
(* What one call accounts for, before and after a step.                    *)

\* A step more in the body, and a release less below it.
LEMMA Lemma_GainOne ==
  ASSUME NEW k \in Qdmabuf!Kinds, NEW c, NEW i \in Nat \ {0}
  PROVE  Gained(k, c, i + 1) = Gained(k, c, i) \cup Share(k, c.get[i].what)
<1>1. \A x : Share(k, x) \subseteq Refs
  BY Lemma_Shares
<1>2. 1 .. (i + 1) - 1 = (1 .. i - 1) \cup {i}
  OBVIOUS
<1> QED
  BY <1>1, <1>2 DEF Gained

\* Once it was made, a release is owed no more.
LEMMA Lemma_OweOne ==
  ASSUME NEW k \in Qdmabuf!Kinds, NEW c, Len(c.put) \in Nat,
         NEW i \in 1 .. Len(c.put)
  PROVE  Owed(k, c, i) = Owed(k, c, i + 1) \cup Share(k, c.put[i])
<1>1. \A x : Share(k, x) \subseteq Refs
  BY Lemma_Shares
<1>2. i .. Len(c.put) = ((i + 1) .. Len(c.put)) \cup {i}
  OBVIOUS
<1> QED
  BY <1>1, <1>2 DEF Owed

\* A call in its body.
LEMMA Lemma_EntryGet ==
  ASSUME NEW k \in Qdmabuf!Kinds, NEW f \in QFrames, Entry(k, f),
         f.phase = "get", Busy(f)
  PROVE  LET w == At(f)
             g == Qdmabuf!U!Onward(f)
             e == Qdmabuf!U!Cleanup(f) IN
         /\ f.proc \in Tally(k) /\ Entry(k, g)
         /\ Assets(k, g) = Assets(k, f) \cup Share(k, w)
         /\ Share(k, w) \cap Assets(k, f) = {}
         /\ Share(k, w) \subseteq Share(k, f.proc)
         /\ w \notin Stock \cup {"dmabuf"}
         /\ Qdmabuf!Code[f.proc].get[f.at].drop => w \notin Refs
         /\ w \in DOMAIN Qdmabuf!Code \ Foreign(k) =>
              w \in Idlers \cup Called(k) /\ Lent(k, w) = {}
         /\ w \notin Foreign(k) \cup {"dmabuf_exp_vm_open", "refcount"} =>
              Entry(k, e) /\ Assets(k, e) = Assets(k, f)
<1> DEFINE p == f.proc
           c == Qdmabuf!Code[p]
           i == f.at
           w == At(f)
           g == Qdmabuf!U!Onward(f)
           e == Qdmabuf!U!Cleanup(f)
           l == Qdmabuf!U!Place(c.put, c.get[i].label)
<1>1. /\ p \in DOMAIN Qdmabuf!Code /\ i \in Nat \ {0}
      /\ f.result \in {"ok", "err"}
  BY DEF QFrames
<1>2. c.get # << >> /\ f.result = "ok" /\ p \in Tally(k) \cup Counters(k)
      /\ (p \in Counters(k) => i \in {1, Len(c.put) + 1})
  BY DEF Entry
<1>3. p \in Tally(k) /\ p \notin Counters(k)
  BY <1>2, Lemma_Foreign, Lemma_Putters
<1>4. Keeps(k, p) /\ Shaped(c)
  BY <1>3, Lemma_Keeps
<1>5. /\ Len(c.get) \in Nat /\ DOMAIN c.get = 1 .. Len(c.get)
      /\ Len(c.put) \in Nat /\ DOMAIN c.put = 1 .. Len(c.put)
      /\ i \in 1 .. Len(c.get) /\ w = c.get[i].what
  BY <1>1, <1>4 DEF Shaped, Busy, At
<1>6. StepKeeps(k, p, c, i)
  BY <1>4, <1>5 DEF Keeps
<1>7. g.proc = p /\ g.phase = "get" /\ g.at = i + 1 /\ g.result = "ok"
  BY <1>2 DEF Qdmabuf!U!Onward, QFrames
<1>8. IF c.get[i].label = "continue" THEN e = g
      ELSE e.proc = p /\ e.phase = "put" /\ e.at = l
           /\ e.result = IF c.get[i].quiet THEN "ok" ELSE "err"
  BY DEF Qdmabuf!U!Cleanup, Qdmabuf!U!Onward, QFrames
<1> DEFINE b == Lent(k, p) \cup Gained(k, c, i)
<1>9. /\ Obtainable(k, c.get[i]) /\ Share(k, w) \subseteq Share(k, p) \ b
      /\ w \notin Foreign(k) /\ c.get[i].label # "continue" =>
           /\ Owed(k, c, l) = b \/ w = "dmabuf_exp_vm_open"
           /\ c.get[i].quiet => p \in Idlers
      /\ c.get[i].label = "continue" => Share(k, w) = {} \/ w = "refcount"
  BY <1>5, <1>6 DEF StepKeeps
<1>10. p = "dmabuf_exp_vm_open" => c.get[i].label = "continue"
  <2> SUFFICES ASSUME p = "dmabuf_exp_vm_open"
               PROVE  c.get[i].label = "continue"
    OBVIOUS
  <2>1. Len(c.get) = 1 /\ c.get[1].label = "continue"
    BY DEF Qdmabuf!Code, Qdmabuf!dmabuf_exp_vm_open, Qdmabuf!Script,
       Qdmabuf!Regardless, Qdmabuf!Step
  <2> QED
    BY <1>5, <2>1
<1> HIDE DEF p, c, i, w, g, e, l
<1>11. Assets(k, f) = b
  BY <1>3 DEF Assets, p, c, i
<1>12. Entry(k, g)
  BY <1>2, <1>3, <1>5, <1>7 DEF Entry, c
<1>13. Assets(k, g) = b \cup Share(k, w)
  <2>1. Gained(k, c, i + 1) = Gained(k, c, i) \cup Share(k, w)
    BY <1>1, <1>5, Lemma_GainOne
  <2> QED
    BY <1>3, <1>7, <2>1 DEF Assets, c
<1>14. w \notin Foreign(k) \cup {"dmabuf_exp_vm_open", "refcount"} =>
         Entry(k, e) /\ Assets(k, e) = b
  <2> SUFFICES ASSUME w \notin Foreign(k)
                        \cup {"dmabuf_exp_vm_open", "refcount"}
               PROVE  Entry(k, e) /\ Assets(k, e) = b
    OBVIOUS
  <2>1. CASE c.get[i].label = "continue"
    BY <1>8, <1>9, <1>12, <1>13, <2>1
  <2>2. CASE c.get[i].label # "continue"
    <3>1. /\ e.proc = p /\ e.phase = "put" /\ e.at = l
          /\ e.result = "err" \/ p \in Idlers
          /\ Owed(k, c, l) = b /\ p # "dmabuf_exp_vm_open"
      BY <1>8, <1>9, <1>10, <2>2
    <3>2. Entry(k, e)
      BY <1>3, <3>1 DEF Entry
    <3>3. Assets(k, e) = b
      BY <1>3, <3>1 DEF Assets, c
    <3> QED
      BY <3>2, <3>3
  <2> QED
    BY <2>1, <2>2
<1>15. /\ w \notin Stock \cup {"dmabuf"} /\ (c.get[i].drop => w \notin Refs)
       /\ w \in DOMAIN Qdmabuf!Code \ Foreign(k) =>
            w \in Idlers \cup Called(k) /\ Lent(k, w) = {}
  BY <1>5, <1>9 DEF Obtainable
<1> QED
  BY <1>3, <1>9, <1>11, <1>12, <1>13, <1>14, <1>15 DEF p, c, i, w, g, e

\* One that releases.
LEMMA Lemma_EntryPut ==
  ASSUME NEW k \in Qdmabuf!Kinds, NEW f \in QFrames, Entry(k, f),
         f.phase = "put", Busy(f), f.proc \notin Counters(k)
  PROVE  LET w == At(f)
             g == Qdmabuf!U!Onward(f) IN
         /\ f.proc \in Tally(k) /\ Entry(k, g)
         /\ Assets(k, f) = Assets(k, g) \cup Share(k, w)
         /\ Share(k, w) \cap Assets(k, g) = {}
         /\ Share(k, w) \subseteq Share(k, f.proc)
         /\ w \notin Stock \cup {"dmabuf", "refcount"}
         /\ w \in DOMAIN Qdmabuf!Code \ Foreign(k) =>
              w \in Idlers \cup Called(k) \cup Counters(k)
              /\ Lent(k, w) = Share(k, w)
         /\ w = "dma_buf_put" =>
              /\ f.proc \in Callers /\ Assets(k, g) = {}
              /\ f.at = Len(Qdmabuf!Code[f.proc].put)
<1> DEFINE p == f.proc
           c == Qdmabuf!Code[p]
           i == f.at
           w == At(f)
           g == Qdmabuf!U!Onward(f)
<1>1. /\ p \in DOMAIN Qdmabuf!Code /\ i \in Nat \ {0}
  BY DEF QFrames
<1>2. p \in Tally(k) /\ p \notin Counters(k)
      /\ (c.get # << >> /\ ~c.through => f.result = "err" \/ p \in Idlers)
      /\ p # "dmabuf_exp_vm_open"
  BY DEF Entry
<1>3. Keeps(k, p) /\ Shaped(c)
  BY <1>2, Lemma_Keeps
<1>4. /\ Len(c.put) \in Nat /\ DOMAIN c.put = 1 .. Len(c.put)
      /\ i \in 1 .. Len(c.put) /\ w = c.put[i]
  BY <1>1, <1>3 DEF Shaped, Busy, At
<1>5. DropKeeps(k, p, c, i)
  BY <1>3, <1>4 DEF Keeps
<1>6. g.proc = p /\ g.phase = "put" /\ g.at = i + 1 /\ g.result = f.result
  BY DEF Qdmabuf!U!Onward, QFrames
<1>7. /\ Releasable(k, w) /\ Share(k, w) \cap Owed(k, c, i + 1) = {}
      /\ Share(k, w) \subseteq Share(k, p)
  BY <1>4, <1>5 DEF DropKeeps
<1> HIDE DEF p, c, i, w, g
<1>8. Assets(k, f) = Owed(k, c, i)
  BY <1>2 DEF Assets, p, c, i
<1>9. Assets(k, g) = Owed(k, c, i + 1)
  BY <1>2, <1>6 DEF Assets, c
<1>10. Entry(k, g)
  BY <1>2, <1>6 DEF Entry, c
<1>11. Owed(k, c, i) = Owed(k, c, i + 1) \cup Share(k, w)
  BY <1>4, Lemma_OweOne
<1>12. w = "dma_buf_put" => p \in Callers /\ i = Len(c.put)
         /\ Assets(k, g) = {}
  <2> SUFFICES ASSUME w = "dma_buf_put"
               PROVE  p \in Callers /\ i = Len(c.put) /\ Assets(k, g) = {}
    OBVIOUS
  <2>1. "dmabuf" \in Share(k, p)
    BY <1>7, Lemma_Shares
  <2>2. p \in Callers
    BY <1>2, <2>1, Lemma_Shares DEF Tally, Called
  <2>3. i = Len(c.put)
    BY <1>4, <2>2, Lemma_LastPut DEF c
  <2>4. Owed(k, c, i + 1) = {}
    BY <1>1, <1>4, <2>3, Lemma_OwedEnd
  <2> QED
    BY <1>9, <2>2, <2>3, <2>4
<1> QED
  BY <1>2, <1>7, <1>8, <1>9, <1>10, <1>11, <1>12
  DEF Releasable, p, c, i, w, g

\* One that is at its end.
LEMMA Lemma_EntryEnd ==
  ASSUME NEW k \in Qdmabuf!Kinds, NEW f \in QFrames, Entry(k, f), ~Busy(f)
  PROVE  /\ f.phase = "get" =>
              f.result = "ok" /\ Assets(k, f) = Share(k, f.proc)
         /\ f.phase = "put" =>
              /\ Assets(k, f) = {}
              /\ Qdmabuf!Code[f.proc].get # << >>
                 /\ ~Qdmabuf!Code[f.proc].through =>
                   f.result = "err" \/ f.proc \in Idlers
<1> DEFINE p == f.proc
           c == Qdmabuf!Code[p]
           i == f.at
<1>1. /\ p \in DOMAIN Qdmabuf!Code /\ i \in Nat \ {0}
      /\ f.phase \in {"get", "put"}
  BY DEF QFrames
<1>2. p \in Tally(k) \cup Counters(k) /\ Tally(k) \cap Counters(k) = {}
  BY Lemma_Foreign DEF Entry
<1>3. Shaped(c) /\ Len(c.get) \in Nat /\ Len(c.put) \in Nat
  BY <1>1, Lemma_Shaped DEF Shaped
<1>4. CASE f.phase = "get"
  <2>1. c.get # << >> /\ f.result = "ok" /\ i <= Len(c.get) + 1
    BY <1>4 DEF Entry
  <2>2. p \in Tally(k) /\ p \notin Counters(k)
    BY <1>2, <2>1, Lemma_Foreign, Lemma_Putters
  <2>3. Keeps(k, p)
    BY <2>2, Lemma_Keeps
  <2>4. i = Len(c.get) + 1
    BY <1>1, <1>3, <1>4, <2>1 DEF Busy
  <2>5. Lent(k, p) \cup Gained(k, c, Len(c.get) + 1) = Share(k, p)
    BY <2>1, <2>3 DEF Keeps
  <2> HIDE DEF c, i
  <2>6. Assets(k, f) = Share(k, p)
    BY <1>4, <2>2, <2>4, <2>5 DEF Assets, c, i
  <2> QED
    BY <1>4, <2>1, <2>6
<1>5. CASE f.phase = "put"
  <2>1. i > Len(c.put)
    BY <1>1, <1>3, <1>5 DEF Busy
  <2>2. Owed(k, c, i) = {}
    BY <1>1, <1>3, <2>1, Lemma_OwedEnd
  <2>3. p \in Counters(k) => i # 1
    BY <1>3, <2>1, Lemma_Counters
  <2>4. Assets(k, f) = {}
    BY <1>5, <2>2, <2>3 DEF Assets
  <2> QED
    BY <1>5, <2>4 DEF Entry
<1> QED
  BY <1>1, <1>4, <1>5

\* One that starts.
LEMMA Lemma_EntryStart ==
  ASSUME NEW k \in Qdmabuf!Kinds, NEW p \in Tally(k) \cup Counters(k)
  PROVE  LET f == Qdmabuf!U!Frame(p) IN
         /\ f \in QFrames /\ f.proc = p /\ Entry(k, f)
         /\ Assets(k, f) = Lent(k, p)
<1> DEFINE c == Qdmabuf!Code[p]
           f == Qdmabuf!U!Frame(p)
<1>1. p \in DOMAIN Qdmabuf!Code /\ Tally(k) \cap Counters(k) = {}
  BY Lemma_Foreign
<1>2. /\ f \in QFrames /\ f.proc = p /\ f.result = "ok" /\ f.at = 1
      /\ f.phase = IF c.get = << >> THEN "put" ELSE "get"
  BY <1>1, Lemma_QFrames
<1>3. Len(c.get) \in Nat /\ Len(c.put) \in Nat
  BY <1>1, Lemma_Shaped DEF Shaped
<1>4. p = "dmabuf_exp_vm_open" => c.get # << >>
  <2>1. Len(Qdmabuf!Code["dmabuf_exp_vm_open"].get) # 0
    BY Lemma_Bodies
  <2> QED
    BY <2>1, ListEmpty
<1> HIDE DEF f
<1>5. Entry(k, f)
  BY <1>2, <1>3, <1>4 DEF Entry
<1>6. CASE p \in Counters(k)
  <2>1. Lent(k, p) = Share(k, p)
    BY <1>6, Lemma_Foreign, Lemma_Putters DEF Lent
  <2> QED
    BY <1>2, <1>5, <1>6, <2>1 DEF Assets, f
<1>7. CASE p \in Tally(k) /\ c.get # << >>
  <2>1. Gained(k, c, 1) = {}
    BY DEF Gained
  <2> QED
    BY <1>1, <1>2, <1>5, <1>7, <2>1 DEF Assets, f
<1>8. CASE p \in Tally(k) /\ c.get = << >>
  <2>1. Owed(k, c, 1) = Share(k, p) /\ Lent(k, p) = Share(k, p)
    BY <1>8, Lemma_Keeps DEF Keeps, Lent
  <2> QED
    BY <1>1, <1>2, <1>5, <1>8, <2>1 DEF Assets, f
<1> QED
  BY <1>6, <1>7, <1>8

\* The one that goes on to its labels when all went well.
LEMMA Lemma_EntryFalls ==
  ASSUME NEW k \in Qdmabuf!Kinds, NEW f \in QFrames, Entry(k, f), ~Busy(f),
         f.phase = "get", f.proc = "qdmabuf_ioctl_info"
  PROVE  LET g == [f EXCEPT !.phase = "put", !.at = 1] IN
         g.proc = f.proc /\ Entry(k, g) /\ Assets(k, g) = Assets(k, f)
<1> DEFINE p == f.proc
           c == Qdmabuf!Code[p]
           g == [f EXCEPT !.phase = "put", !.at = 1]
<1>1. g.proc = p /\ g.phase = "put" /\ g.at = 1 /\ g.result = f.result
  BY DEF QFrames
<1>2. p \in Tally(k) /\ p \notin Counters(k) /\ p # "dmabuf_exp_vm_open"
  BY Lemma_Foreign DEF Tally, Callers, AppCalls
<1>3. c.through
  BY Lemma_infoBody
<1>4. Owed(k, c, 1) = Share(k, p)
  BY <1>2, <1>3, Lemma_Keeps DEF Keeps
<1>5. Assets(k, f) = Share(k, p)
  BY Lemma_EntryEnd
<1> HIDE DEF g
<1>6. Entry(k, g)
  BY <1>1, <1>2, <1>3 DEF Entry
<1>7. Assets(k, g) = Share(k, p)
  BY <1>1, <1>2, <1>4 DEF Assets
<1> QED
  BY <1>1, <1>5, <1>6, <1>7 DEF g

\* One that counts.
LEMMA Lemma_EntryCounts ==
  ASSUME NEW k \in Qdmabuf!Kinds, NEW f \in QFrames, Entry(k, f), Busy(f),
         f.proc \in Counters(k)
  PROVE  LET r == IF f.proc = "dma_buf_put" THEN "dmabuf" ELSE "refcount"
             g == [f EXCEPT !.at = Len(Qdmabuf!Code[f.proc].put) + 1] IN
         /\ f.phase = "put" /\ f.at = 1 /\ At(f) = r /\ Share(k, f.proc) = {r}
         /\ Assets(k, f) = {r}
         /\ g.proc = f.proc /\ Entry(k, g) /\ Assets(k, g) = {}
<1> DEFINE p == f.proc
           c == Qdmabuf!Code[p]
           r == IF f.proc = "dma_buf_put" THEN "dmabuf" ELSE "refcount"
           g == [f EXCEPT !.at = Len(c.put) + 1]
<1>1. /\ p \in DOMAIN Qdmabuf!Code /\ f.at \in Nat \ {0}
      /\ f.phase \in {"get", "put"}
  BY DEF QFrames
<1>2. Len(c.get) \in Nat /\ Len(c.put) \in Nat
  BY <1>1, Lemma_Shaped DEF Shaped
<1>3. p \in Putters /\ c.get = << >> /\ Len(c.put) >= 1 /\ c.put[1] = r
      /\ Share(k, p) = {r}
  BY Lemma_Foreign, Lemma_Putters, Lemma_Counters, Lemma_Shares DEF Counters
<1>4. f.phase = "put" /\ f.at \in {1, Len(c.put) + 1}
  BY <1>1, <1>3 DEF Entry
<1>5. f.at = 1
  BY <1>2, <1>4 DEF Busy
<1>6. /\ g.proc = p /\ g.phase = "put" /\ g.at = Len(c.put) + 1
      /\ g.result = f.result
  BY <1>4 DEF QFrames
<1> HIDE DEF g, r
<1>7. At(f) = r
  BY <1>3, <1>4, <1>5 DEF At
<1>8. Assets(k, f) = {r}
  BY <1>3, <1>5 DEF Assets
<1>9. Entry(k, g)
  BY <1>3, <1>6 DEF Entry
<1>10. Assets(k, g) = {}
  BY <1>2, <1>3, <1>6 DEF Assets
<1> QED
  BY <1>3, <1>4, <1>5, <1>6, <1>7, <1>8, <1>9, <1>10 DEF g, r

\* What a call owns is part of what its function has to do with.
LEMMA Lemma_Assets ==
  ASSUME NEW k \in Qdmabuf!Kinds, NEW f \in QFrames, Entry(k, f)
  PROVE  Assets(k, f) \subseteq Share(k, f.proc) /\ Assets(k, f) \subseteq Refs
<1> DEFINE p == f.proc
           c == Qdmabuf!Code[p]
           i == f.at
<1>0. \A w : Share(k, w) \subseteq Refs
  BY Lemma_Shares
<1>1. CASE p \in Counters(k)
  BY <1>0, <1>1 DEF Assets
<1>2. CASE p \notin Counters(k)
  <2>1. p \in Tally(k) /\ i \in Nat \ {0} /\ f.phase \in {"get", "put"}
    BY <1>2 DEF Entry, QFrames
  <2>2. Keeps(k, p) /\ Len(c.get) \in Nat /\ Len(c.put) \in Nat
    BY <2>1, Lemma_Keeps DEF Shaped
  <2>3. CASE f.phase = "get"
    <3>1. c.get # << >> /\ i <= Len(c.get) + 1
      BY <2>3 DEF Entry
    <3>2. Lent(k, p) \cup Gained(k, c, Len(c.get) + 1) = Share(k, p)
      BY <2>2, <3>1 DEF Keeps
    <3>3. Gained(k, c, i) \subseteq Gained(k, c, Len(c.get) + 1)
      <4>1. \A j \in 1 .. i - 1 : j \in 1 .. (Len(c.get) + 1) - 1
        BY <2>1, <2>2, <3>1
      <4> QED
        BY <4>1 DEF Gained
    <3>4. Assets(k, f) = Lent(k, p) \cup Gained(k, c, i)
      BY <1>2, <2>3 DEF Assets
    <3> QED
      BY <1>0, <3>2, <3>3, <3>4
  <2>4. CASE f.phase = "put"
    <3>1. \A j \in i .. Len(c.put) : Share(k, c.put[j]) \subseteq Share(k, p)
      <4>1. \A j \in i .. Len(c.put) : j \in 1 .. Len(c.put)
        BY <2>1, <2>2
      <4> QED
        BY <2>2, <4>1 DEF Keeps, DropKeeps
    <3>2. Assets(k, f) = Owed(k, c, i)
      BY <1>2, <2>4 DEF Assets
    <3> QED
      BY <1>0, <3>1, <3>2 DEF Owed
  <2> QED
    BY <2>1, <2>3, <2>4
<1> QED
  BY <1>1, <1>2

\* What the calls from the n-th on own, and whose shares it has no part in.
Deeper(k, s, n) == {x \in Refs : \E i \in n .. Len(s) : x \in Claim(k, s, i)}

\* A stack owns what its upper call does and what those below it own.
LEMMA Lemma_Deeper ==
  ASSUME NEW k \in Qdmabuf!Kinds, NEW s \in Seq(QFrames), Ledger(k, s),
         s # << >>
  PROVE  /\ Claims(k, s) = Assets(k, s[1]) \cup Deeper(k, s, 2)
         /\ Deeper(k, s, 2) \cap Share(k, s[1].proc) = {}
         /\ Len(s) >= 2 =>
              /\ Deeper(k, s, 2) = (Assets(k, s[2]) \ Share(k, s[1].proc))
                                     \cup Deeper(k, s, 3)
              /\ Deeper(k, s, 3) \cap Share(k, s[2].proc) = {}
<1> DEFINE n == Len(s)
<1>1. n \in Nat /\ n >= 1 /\ \A i \in 1 .. n : s[i] \in QFrames
  BY StackEnd
<1>2. \A i \in 1 .. n : Assets(k, s[i]) \subseteq Refs
  BY <1>1, Lemma_Assets DEF Ledger
<1>3. 1 .. n = {1} \cup (2 .. n) /\ (n >= 2 => 2 .. n = {2} \cup (3 .. n))
  BY <1>1
<1>4. /\ Claim(k, s, 1) = Assets(k, s[1])
      /\ Claim(k, s, 2) = Assets(k, s[2]) \ Share(k, s[1].proc)
  BY DEF Claim
<1>5. ASSUME NEW m \in 1 .. n, NEW i \in (m + 1) .. n
      PROVE  Claim(k, s, i) \cap Share(k, s[m].proc) = {}
  <2>1. i - 1 \in 1 .. n /\ m <= i - 1 /\ i # 1
    BY <1>1
  <2>2. Share(k, s[m].proc) \subseteq Share(k, s[i - 1].proc)
    BY <2>1 DEF Ledger
  <2>3. Claim(k, s, i) = Assets(k, s[i]) \ Share(k, s[i - 1].proc)
    BY <2>1 DEF Claim
  <2> QED
    BY <2>2, <2>3
<1> HIDE DEF n
<1>6. Claims(k, s) = {x \in Refs : \E i \in 1 .. n : x \in Claim(k, s, i)}
      /\ \A m : Deeper(k, s, m)
           = {x \in Refs : \E i \in m .. n : x \in Claim(k, s, i)}
  BY DEF Claims, Deeper, n
<1>7. Claims(k, s) = Claim(k, s, 1) \cup Deeper(k, s, 2)
  <2>1. Claim(k, s, 1) \subseteq Refs /\ 1 \in 1 .. n
    BY <1>1, <1>2, <1>4
  <2> QED
    BY <1>3, <1>6, <2>1
<1>8. Deeper(k, s, 2) \cap Share(k, s[1].proc) = {}
  <2>1. 1 \in 1 .. n /\ \A i \in 2 .. n : i \in (1 + 1) .. n
    BY <1>1
  <2>2. \A i \in 2 .. n : Claim(k, s, i) \cap Share(k, s[1].proc) = {}
    BY <1>5, <2>1
  <2> QED
    BY <1>6, <2>2
<1>9. ASSUME n >= 2
      PROVE  /\ Deeper(k, s, 2) = Claim(k, s, 2) \cup Deeper(k, s, 3)
             /\ Deeper(k, s, 3) \cap Share(k, s[2].proc) = {}
  <2>1. 2 \in 1 .. n /\ \A i \in 3 .. n : i \in (2 + 1) .. n
    BY <1>1, <1>9
  <2>2. \A i \in 3 .. n : Claim(k, s, i) \cap Share(k, s[2].proc) = {}
    BY <1>5, <2>1
  <2>3. Claim(k, s, 2) \subseteq Refs
    BY <1>2, <1>4, <2>1
  <2>4. 2 .. n = {2} \cup (3 .. n)
    BY <1>3, <1>9
  <2>5. Deeper(k, s, 2) = Claim(k, s, 2) \cup Deeper(k, s, 3)
    BY <1>6, <2>3, <2>4
  <2>6. Deeper(k, s, 3) \cap Share(k, s[2].proc) = {}
    BY <1>6, <2>2
  <2> QED
    BY <2>5, <2>6
<1> QED
  BY <1>4, <1>7, <1>8, <1>9 DEF n

-----------------------------------------------------------------------------
(* What a stack of calls accounts for, before and after a step.            *)

\* The calls of u are those of s, or have a smaller share.
Within(k, u, s) ==
  \A i \in 1 .. Len(u) : \E j \in 1 .. Len(s) :
    Share(k, u[i].proc) \subseteq Share(k, s[j].proc)

\* The call on top goes on.
LEMMA Lemma_LedgerTop ==
  ASSUME NEW k \in Qdmabuf!Kinds, NEW s \in Seq(QFrames), Ledger(k, s),
         s # << >>, NEW u, NEW x, TopIs(s, u, x), x.proc = s[1].proc,
         Entry(k, x), Assets(k, x) \subseteq Refs
  PROVE  /\ Ledger(k, u) /\ Within(k, u, s)
         /\ Claims(k, u) = Assets(k, x) \cup Deeper(k, s, 2)
<1> DEFINE n == Len(s)
<1>1. n \in Nat /\ n >= 1
  BY StackEnd
<1>2. Len(u) = n /\ u[1] = x /\ \A i \in 2 .. n : u[i] = s[i]
  BY DEF TopIs
<1>3. \A i \in 1 .. n : i = 1 \/ i \in 2 .. n
  BY <1>1
<1>4. \A i \in 1 .. n : u[i].proc = s[i].proc
  BY <1>2, <1>3
<1>5. \A i \in 2 .. n : i - 1 \in 1 .. n /\ i # 1
  BY <1>1
<1>6. Ledger(k, u)
  <2>1. \A i \in 1 .. n : Entry(k, u[i]) /\ u[i].proc \notin Foreign(k)
    BY <1>2, <1>3, <1>4 DEF Ledger
  <2>2. \A i \in 2 .. n :
          Busy(u[i]) /\ At(u[i]) = u[i - 1].proc
          /\ u[i].proc \notin Counters(k)
    BY <1>2, <1>4, <1>5 DEF Ledger
  <2>3. \A i \in 1 .. n - 1 : u[i].proc \notin Callers
    <3>1. \A i \in 1 .. n - 1 : i \in 1 .. n
      BY <1>1
    <3> QED
      BY <1>4, <3>1 DEF Ledger
  <2>4. \A i, j \in 1 .. n :
          i <= j => Share(k, u[i].proc) \subseteq Share(k, u[j].proc)
    BY <1>4 DEF Ledger
  <2> QED
    BY <1>2, <2>1, <2>2, <2>3, <2>4 DEF Ledger
<1>7. \A i \in 2 .. n : Claim(k, u, i) = Claim(k, s, i)
  BY <1>2, <1>4, <1>5 DEF Claim
<1>8. Claim(k, u, 1) = Assets(k, x)
  BY <1>2 DEF Claim
<1>9. 1 .. n = {1} \cup (2 .. n)
  BY <1>1
<1>10. Within(k, u, s)
  BY <1>2, <1>4 DEF Within
<1> HIDE DEF n
<1>11. Claims(k, u) = {r \in Refs : \E i \in 1 .. n : r \in Claim(k, u, i)}
       /\ Deeper(k, s, 2)
            = {r \in Refs : \E i \in 2 .. n : r \in Claim(k, s, i)}
  BY <1>2 DEF Claims, Deeper, n
<1>12. Claims(k, u) = Assets(k, x) \cup Deeper(k, s, 2)
  BY <1>7, <1>8, <1>9, <1>11
<1> QED
  BY <1>6, <1>10, <1>12

\* It calls a function.
LEMMA Lemma_LedgerPush ==
  ASSUME NEW k \in Qdmabuf!Kinds, NEW s \in Seq(QFrames), Ledger(k, s),
         s # << >>, NEW u, NEW x, Pushed(s, u, x), Entry(k, x),
         Assets(k, x) \subseteq Refs, x.proc \notin Callers \cup Foreign(k),
         Busy(s[1]), At(s[1]) = x.proc, s[1].proc \notin Counters(k),
         Share(k, x.proc) \subseteq Share(k, s[1].proc)
  PROVE  /\ Ledger(k, u) /\ Within(k, u, s)
         /\ Claims(k, u) = Assets(k, x)
              \cup (Assets(k, s[1]) \ Share(k, x.proc))
                             \cup Deeper(k, s, 2)
<1> DEFINE n == Len(s)
<1>1. n \in Nat /\ n >= 1 /\ s[1] \in QFrames
  BY StackEnd
<1>2. Len(u) = n + 1 /\ u[1] = x /\ \A i \in 1 .. n : u[i + 1] = s[i]
  BY DEF Pushed
<1>3. \A i \in 2 .. n + 1 : i - 1 \in 1 .. n /\ u[i] = s[i - 1]
  <2> SUFFICES ASSUME NEW i \in 2 .. n + 1
               PROVE  i - 1 \in 1 .. n /\ u[i] = s[i - 1]
    OBVIOUS
  <2>1. i - 1 \in 1 .. n /\ (i - 1) + 1 = i
    BY <1>1
  <2> QED
    BY <1>2, <2>1
<1>4. \A i \in 1 .. n + 1 : i = 1 \/ i \in 2 .. n + 1
  BY <1>1
<1>5. u[2] = s[1] /\ 1 \in 1 .. n
  BY <1>1, <1>2
<1>6. \A i \in 3 .. n + 1 :
        /\ i \in 2 .. n + 1 /\ i - 1 \in 2 .. n /\ i - 1 \in 2 .. n + 1
        /\ i # 1 /\ i - 1 # 1
  BY <1>1
<1>7. Ledger(k, u)
  <2>1. \A i \in 1 .. n + 1 : Entry(k, u[i]) /\ u[i].proc \notin Foreign(k)
    BY <1>2, <1>3, <1>4 DEF Ledger
  <2>2. \A i \in 2 .. n + 1 :
          Busy(u[i]) /\ At(u[i]) = u[i - 1].proc
          /\ u[i].proc \notin Counters(k)
    <3> SUFFICES ASSUME NEW i \in 2 .. n + 1
                 PROVE  Busy(u[i]) /\ At(u[i]) = u[i - 1].proc
                        /\ u[i].proc \notin Counters(k)
      OBVIOUS
    <3>1. CASE i = 2
      BY <1>2, <1>5, <3>1
    <3>2. CASE i # 2
      <4>1. i \in 3 .. n + 1
        BY <1>1, <3>2
      <4>2. u[i] = s[i - 1] /\ u[i - 1] = s[(i - 1) - 1] /\ i - 1 \in 2 .. n
        BY <1>3, <1>6, <4>1
      <4> QED
        BY <4>2 DEF Ledger
    <3> QED
      BY <3>1, <3>2
  <2>3. \A i \in 1 .. (n + 1) - 1 : u[i].proc \notin Callers
    <3> SUFFICES ASSUME NEW i \in 1 .. (n + 1) - 1
                 PROVE  u[i].proc \notin Callers
      OBVIOUS
    <3>1. CASE i = 1
      BY <1>2, <3>1
    <3>2. CASE i # 1
      <4>1. i \in 2 .. n + 1 /\ i - 1 \in 1 .. n - 1
        BY <1>1, <3>2
      <4> QED
        BY <1>3, <4>1 DEF Ledger
    <3> QED
      BY <3>1, <3>2
  <2>4. \A i, j \in 1 .. n + 1 :
          i <= j => Share(k, u[i].proc) \subseteq Share(k, u[j].proc)
    <3> SUFFICES ASSUME NEW i \in 1 .. n + 1, NEW j \in 1 .. n + 1, i <= j
                 PROVE  Share(k, u[i].proc) \subseteq Share(k, u[j].proc)
      OBVIOUS
    <3>1. CASE j = 1
      BY <1>1, <3>1
    <3>2. CASE j # 1
      <4>1. j \in 2 .. n + 1 /\ j - 1 \in 1 .. n /\ 1 <= j - 1
        BY <1>1, <3>2
      <4>2. u[j] = s[j - 1]
            /\ Share(k, s[1].proc) \subseteq Share(k, s[j - 1].proc)
        BY <1>3, <1>5, <4>1 DEF Ledger
      <4>3. CASE i = 1
        BY <1>2, <4>2, <4>3
      <4>4. CASE i # 1
        <5>1. i \in 2 .. n + 1 /\ i - 1 \in 1 .. n /\ i - 1 <= j - 1
          BY <1>1, <4>1, <4>4
        <5>2. u[i] = s[i - 1]
          BY <1>3, <5>1
        <5> QED
          BY <4>1, <4>2, <5>1, <5>2 DEF Ledger
      <4> QED
        BY <4>3, <4>4
    <3> QED
      BY <3>1, <3>2
  <2> QED
    BY <1>2, <2>1, <2>2, <2>3, <2>4 DEF Ledger
<1>8. \A i \in 3 .. n + 1 : Claim(k, u, i) = Claim(k, s, i - 1)
  <2> SUFFICES ASSUME NEW i \in 3 .. n + 1
               PROVE  Claim(k, u, i) = Claim(k, s, i - 1)
    OBVIOUS
  <2>1. u[i] = s[i - 1] /\ u[i - 1] = s[(i - 1) - 1] /\ i # 1 /\ i - 1 # 1
    BY <1>3, <1>6
  <2> QED
    BY <2>1 DEF Claim
<1>9. Claim(k, u, 1) = Assets(k, x)
      /\ Claim(k, u, 2) = Assets(k, s[1]) \ Share(k, x.proc)
  BY <1>2, <1>5 DEF Claim
<1>10. Assets(k, s[1]) \subseteq Refs
  BY <1>1, <1>5, Lemma_Assets DEF Ledger
<1>11. Within(k, u, s)
  <2> SUFFICES ASSUME NEW i \in 1 .. n + 1
               PROVE  \E j \in 1 .. n :
                        Share(k, u[i].proc) \subseteq Share(k, s[j].proc)
    BY <1>2 DEF Within
  <2>1. CASE i = 1
    BY <1>2, <1>5, <2>1
  <2>2. CASE i # 1
    <3>1. u[i] = s[i - 1] /\ i - 1 \in 1 .. n
      BY <1>3, <1>4, <2>2
    <3> QED
      BY <3>1
  <2> QED
    BY <2>1, <2>2
<1> HIDE DEF n
<1>12. Claims(k, u) = {r \in Refs : \E i \in 1 .. n + 1 : r \in Claim(k, u, i)}
       /\ Deeper(k, s, 2)
            = {r \in Refs : \E i \in 2 .. n : r \in Claim(k, s, i)}
  BY <1>2 DEF Claims, Deeper, n
<1>13. {r \in Refs : \E i \in 3 .. n + 1 : r \in Claim(k, u, i)}
         = Deeper(k, s, 2)
  <2>1. \A i \in 2 .. n : i + 1 \in 3 .. n + 1 /\ (i + 1) - 1 = i
    BY <1>1
  <2>2. \A i \in 2 .. n : Claim(k, u, i + 1) = Claim(k, s, i)
    BY <1>8, <2>1
  <2>3. \A i \in 3 .. n + 1 : i - 1 \in 2 .. n
    BY <1>6
  <2> QED
    BY <1>8, <1>12, <2>1, <2>2, <2>3
<1>14. 1 .. n + 1 = {1, 2} \cup (3 .. n + 1)
  BY <1>1
<1>15. Claims(k, u) = Claim(k, u, 1) \cup Claim(k, u, 2) \cup Deeper(k, s, 2)
  BY <1>9, <1>10, <1>12, <1>13, <1>14
<1> QED
  BY <1>7, <1>9, <1>11, <1>15

\* It returns.
LEMMA Lemma_LedgerPop ==
  ASSUME NEW k \in Qdmabuf!Kinds, NEW s \in Seq(QFrames), Ledger(k, s),
         Len(s) >= 2, NEW u, NEW x, Popped(s, u, x), x.proc = s[2].proc,
         Entry(k, x), Assets(k, x) \subseteq Refs
  PROVE  /\ Ledger(k, u) /\ Within(k, u, s)
         /\ Claims(k, u) = Assets(k, x) \cup Deeper(k, s, 3)
<1> DEFINE n == Len(s)
<1>1. n \in Nat /\ n >= 2
  OBVIOUS
<1>2. Len(u) = n - 1 /\ u[1] = x /\ \A i \in 3 .. n : u[i - 1] = s[i]
  BY DEF Popped
<1>3. \A i \in 2 .. n - 1 : i + 1 \in 3 .. n /\ i + 1 \in 2 .. n
        /\ u[i] = s[i + 1]
  <2> SUFFICES ASSUME NEW i \in 2 .. n - 1
               PROVE  i + 1 \in 3 .. n /\ i + 1 \in 2 .. n /\ u[i] = s[i + 1]
    OBVIOUS
  <2>1. i + 1 \in 3 .. n /\ i + 1 \in 2 .. n /\ (i + 1) - 1 = i
    BY <1>1
  <2> QED
    BY <1>2, <2>1
<1>4. \A i \in 1 .. n - 1 : i + 1 \in 1 .. n /\ u[i].proc = s[i + 1].proc
  <2> SUFFICES ASSUME NEW i \in 1 .. n - 1
               PROVE  i + 1 \in 1 .. n /\ u[i].proc = s[i + 1].proc
    OBVIOUS
  <2>1. i + 1 \in 1 .. n
    BY <1>1
  <2>2. CASE i = 1
    BY <1>2, <2>1, <2>2
  <2>3. CASE i # 1
    <3>1. i \in 2 .. n - 1
      BY <1>1, <2>3
    <3> QED
      BY <1>3, <2>1, <3>1
  <2> QED
    BY <2>2, <2>3
<1>5. \A i \in 1 .. n - 1 : i = 1 \/ i \in 2 .. n - 1
  BY <1>1
<1>6. \A i \in 2 .. n - 1 : i - 1 \in 1 .. n - 1 /\ (i - 1) + 1 = (i + 1) - 1
                            /\ i # 1 /\ i + 1 # 1
  BY <1>1
<1>7. 2 \in 1 .. n
  BY <1>1
<1>8. Ledger(k, u)
  <2>1. \A i \in 1 .. n - 1 : Entry(k, u[i]) /\ u[i].proc \notin Foreign(k)
    <3>1. \A i \in 2 .. n : i \in 1 .. n
      BY <1>1
    <3> QED
      BY <1>2, <1>3, <1>4, <1>5, <1>7, <3>1 DEF Ledger
  <2>2. \A i \in 2 .. n - 1 :
          Busy(u[i]) /\ At(u[i]) = u[i - 1].proc
          /\ u[i].proc \notin Counters(k)
    BY <1>3, <1>4, <1>6 DEF Ledger
  <2>3. \A i \in 1 .. (n - 1) - 1 : u[i].proc \notin Callers
    <3>1. \A i \in 1 .. (n - 1) - 1 : i + 1 \in 1 .. n - 1 /\ i \in 1 .. n - 1
      BY <1>1
    <3> QED
      BY <1>4, <3>1 DEF Ledger
  <2>4. \A i, j \in 1 .. n - 1 :
          i <= j => Share(k, u[i].proc) \subseteq Share(k, u[j].proc)
    <3>1. \A i, j \in 1 .. n - 1 : i <= j => i + 1 <= j + 1
      BY <1>1
    <3> QED
      BY <1>4, <3>1 DEF Ledger
  <2> QED
    BY <1>2, <2>1, <2>2, <2>3, <2>4 DEF Ledger
<1>9. \A i \in 2 .. n - 1 : Claim(k, u, i) = Claim(k, s, i + 1)
  BY <1>3, <1>4, <1>6 DEF Claim
<1>10. Claim(k, u, 1) = Assets(k, x)
  BY <1>2 DEF Claim
<1>11. Within(k, u, s)
  BY <1>2, <1>4 DEF Within
<1> HIDE DEF n
<1>12. Claims(k, u) = {r \in Refs : \E i \in 1 .. n - 1 : r \in Claim(k, u, i)}
       /\ Deeper(k, s, 3)
            = {r \in Refs : \E i \in 3 .. n : r \in Claim(k, s, i)}
  BY <1>2 DEF Claims, Deeper, n
<1>13. {r \in Refs : \E i \in 2 .. n - 1 : r \in Claim(k, u, i)}
         = Deeper(k, s, 3)
  <2>1. \A i \in 3 .. n : i - 1 \in 2 .. n - 1 /\ (i - 1) + 1 = i
    BY <1>1
  <2>2. \A i \in 3 .. n : Claim(k, u, i - 1) = Claim(k, s, i)
    BY <1>9, <2>1
  <2> QED
    BY <1>3, <1>9, <1>12, <2>1, <2>2
<1>14. 1 .. n - 1 = {1} \cup (2 .. n - 1)
  BY <1>1
<1>15. Claims(k, u) = Claim(k, u, 1) \cup Deeper(k, s, 3)
  BY <1>10, <1>12, <1>13, <1>14
<1> QED
  BY <1>8, <1>10, <1>11, <1>15

-----------------------------------------------------------------------------
(* A step moves a reference from the counts to an account or back.         *)

\* What a step does to an account: nothing, a reference that its call owns from
\* then on, one that it no longer owns, perhaps the last; with the dma-buf goes
\* all that is owned; or the task leaves its outermost call.
Lowers(h, g, x) ==
  \A y \in Watched : g[y] = IF y = x /\ h[y] > 0 THEN h[y] - 1 ELSE h[y]
Passes(k, s, u, h, g) ==
  Ledger(k, u) /\ Within(k, u, s) /\ Claims(k, u) = Claims(k, s) /\ QSame(h, g)
Earns(k, s, u, h, g, x) ==
  /\ Ledger(k, u) /\ Within(k, u, s)
  /\ Busy(s[1]) /\ s[1].phase = "get" /\ At(s[1]) = x
  /\ x \in Share(k, s[1].proc) \ Claims(k, s)
  /\ Claims(k, u) = Claims(k, s) \cup {x}
  /\ \A y \in Watched : g[y] = IF y = x THEN h[y] + 1 ELSE h[y]
Pays(k, s, u, x) ==
  Ledger(k, u) /\ Within(k, u, s) /\ Claims(k, u) = Claims(k, s) \ {x}
Clears(k, s, u, h, g) ==
  /\ Claims(k, s) = {"dmabuf"} /\ Harmless(k, u) /\ Lowers(h, g, "dmabuf")
  /\ h["dmabuf"] # 1 => Pays(k, s, u, "dmabuf")
Moves(k, s, u, h, g) ==
  \/ Passes(k, s, u, h, g)
  \/ \E x \in {"attach", "refcount"} : Earns(k, s, u, h, g, x)
  \/ /\ "attach" \in Claims(k, s) /\ Lowers(h, g, "attach")
     /\ Pays(k, s, u, "attach")
  \/ /\ "refcount" \in Claims(k, s) /\ Lowers(h, g, "refcount")
     /\ h["refcount"] # 1 => Pays(k, s, u, "refcount")
  \/ Clears(k, s, u, h, g)
  \/ QLeaves(s, u, h, g) /\ Claims(k, s) = Assets(k, s[1])

\* A resource is a reference or nobody's share.
LEMMA Lemma_Resource ==
  ASSUME NEW k \in Qdmabuf!Kinds
  PROVE  /\ \A w \in Qdmabuf!Resources \ Refs : Share(k, w) = {}
         /\ \A w \in Refs : Share(k, w) = {w}
         /\ Watched = Refs \cup Stock
         /\ {"attach", "refcount", "dmabuf"} = Refs
         /\ Counters(k) \cap Foreign(k) = {}
         /\ "buf" \in Stock
<1>1. Counters(k) \cap Foreign(k) = {}
  <2> USE DEF Foreign, Qdmabuf!Of, Counters, PutOf, Qdmabuf!Kinds
  <2>1. CASE k = "vmalloc"
    BY <2>1
  <2>2. CASE k = "dma_sg"
    BY <2>2
  <2>3. CASE k = "dma_contig"
    BY <2>3
  <2> QED
    BY <2>1, <2>2, <2>3
<1> QED
  BY <1>1, Lemma_Shares, Lemma_Things DEF Watched, Refs, Stock

\* A step of a call in its body.
LEMMA Lemma_MovesGet ==
  ASSUME NEW k \in Qdmabuf!Kinds, NEW s \in Seq(QFrames), s # << >>,
         Ledger(k, s), NEW u, NEW h, NEW g, s[1].phase = "get",
         \/ QGets(s, u, h, g) \/ QRefuses(s, u, h, g) \/ QSkips(k, s, u, h, g)
         \/ QCalls(k, s, u, h, g) \/ QDrops(s, u, h, g) \/ QFalls(s, u, h, g)
  PROVE  Moves(k, s, u, h, g)
<1> DEFINE f == s[1]
           w == At(f)
           a == Qdmabuf!U!Onward(f)
           b == Qdmabuf!U!Cleanup(f)
           D == Deeper(k, s, 2)
<1>1. f \in QFrames /\ Len(s) \in Nat /\ Len(s) >= 1 /\ 1 \in 1 .. Len(s)
  BY StackEnd
<1>2. Entry(k, f) /\ f.proc \notin Foreign(k)
  BY <1>1 DEF Ledger
<1>3. Claims(k, s) = Assets(k, f) \cup D /\ D \cap Share(k, f.proc) = {}
      /\ Assets(k, f) \subseteq Refs
  BY <1>1, <1>2, Lemma_Deeper, Lemma_Assets
<1>4. /\ a \in QFrames /\ a.proc = f.proc /\ b \in QFrames /\ b.proc = f.proc
      /\ a = [f EXCEPT !.at = @ + 1]
      /\ [f EXCEPT !.phase = "put", !.at = 1] \in QFrames
  <2>1. /\ a \in QFrames /\ a = [f EXCEPT !.at = @ + 1]
        /\ b \in QFrames /\ b.proc = f.proc
        /\ [f EXCEPT !.phase = "put", !.at = 1] \in QFrames
    BY <1>1, Lemma_QFrames
  <2>2. [f EXCEPT !.at = @ + 1].proc = f.proc
    BY <1>1 DEF QFrames
  <2> QED
    BY <2>1, <2>2
<1>5. Busy(f) =>
        /\ f.proc \in Tally(k) /\ Entry(k, a)
        /\ Assets(k, a) = Assets(k, f) \cup Share(k, w)
        /\ Share(k, w) \cap Assets(k, f) = {}
        /\ Share(k, w) \subseteq Share(k, f.proc)
        /\ w \notin Stock \cup {"dmabuf"}
        /\ Qdmabuf!Code[f.proc].get[f.at].drop => w \notin Refs
        /\ w \in DOMAIN Qdmabuf!Code \ Foreign(k) =>
             w \in Idlers \cup Called(k) /\ Lent(k, w) = {}
        /\ w \notin Foreign(k) \cup {"dmabuf_exp_vm_open", "refcount"} =>
             Entry(k, b) /\ Assets(k, b) = Assets(k, f)
  BY <1>1, <1>2, Lemma_EntryGet
<1>6. ASSUME NEW x \in QFrames, x.proc = f.proc, Entry(k, x), TopIs(s, u, x)
      PROVE  /\ Ledger(k, u) /\ Within(k, u, s)
             /\ Claims(k, u) = Assets(k, x) \cup D
  <2>1. Assets(k, x) \subseteq Refs
    BY <1>6, Lemma_Assets
  <2> QED
    BY <1>6, <2>1, Lemma_LedgerTop
<1> HIDE DEF f, w, a, b, D
<1>7. /\ \A x \in Qdmabuf!Resources \ Refs : Share(k, x) = {}
      /\ \A x \in Refs : Share(k, x) = {x}
      /\ Watched = Refs \cup Stock /\ {"attach", "refcount", "dmabuf"} = Refs
      /\ "buf" \in Stock
  BY Lemma_Resource
<1>11. CASE QGets(s, u, h, g)
  <2>1. /\ Busy(f) /\ f.phase = "get" /\ w \in Qdmabuf!Resources
        /\ TopIs(s, u, a)
        /\ \A x \in Watched : g[x] = IF x = w THEN h[x] + 1 ELSE h[x]
    BY <1>11 DEF QGets, f, w, a
  <2>2. Ledger(k, u) /\ Within(k, u, s) /\ Claims(k, u) = Assets(k, a) \cup D
    BY <1>4, <1>5, <1>6, <2>1
  <2>3. CASE w \in Refs
    <3>1. w \in {"attach", "refcount"} /\ Share(k, w) = {w}
      BY <1>5, <1>7, <2>1, <2>3
    <3>2. w \in Share(k, f.proc) \ Claims(k, s)
          /\ Claims(k, u) = Claims(k, s) \cup {w}
      BY <1>3, <1>5, <2>1, <2>2, <3>1
    <3>3. Earns(k, s, u, h, g, w)
      BY <2>1, <2>2, <3>2 DEF Earns, f, w
    <3> QED
      BY <3>1, <3>3 DEF Moves
  <2>4. CASE w \notin Refs
    <3>1. Share(k, w) = {} /\ w \notin Watched
      BY <1>5, <1>7, <2>1, <2>4
    <3>2. Claims(k, u) = Claims(k, s)
      BY <1>3, <1>5, <2>1, <2>2, <3>1
    <3>3. QSame(h, g)
      BY <2>1, <3>1 DEF QSame
    <3> QED
      BY <2>2, <3>2, <3>3 DEF Passes, Moves
  <2> QED
    BY <2>3, <2>4
<1>12. CASE QRefuses(s, u, h, g)
  <2>1. /\ Busy(f) /\ w \in Qdmabuf!Resources \ {"refcount"}
        /\ TopIs(s, u, b) /\ QSame(h, g)
    BY <1>12 DEF QRefuses, f, w, b
  <2>2. w \notin Foreign(k) \cup {"dmabuf_exp_vm_open", "refcount"}
    <3>1. "dmabuf_exp_vm_open" \in DOMAIN Qdmabuf!Code
      BY Lemma_Functions DEF Others
    <3> QED
      BY <2>1, <3>1, Lemma_WatchedAre
  <2>3. Entry(k, b) /\ Assets(k, b) = Assets(k, f)
    BY <1>5, <2>1, <2>2
  <2>4. Ledger(k, u) /\ Within(k, u, s) /\ Claims(k, u) = Claims(k, s)
    BY <1>3, <1>4, <1>6, <2>1, <2>3
  <2> QED
    BY <2>1, <2>4 DEF Passes, Moves
<1>13. CASE QSkips(k, s, u, h, g)
  <2>1. Busy(f) /\ w \in Foreign(k) /\ TopIs(s, u, a) /\ QSame(h, g)
    BY <1>13 DEF QSkips, f, w, a
  <2>2. Share(k, w) = {}
    BY <2>1, Lemma_Foreign
  <2>3. Entry(k, a) /\ Assets(k, a) = Assets(k, f)
    BY <1>5, <2>1, <2>2
  <2>4. Ledger(k, u) /\ Within(k, u, s) /\ Claims(k, u) = Claims(k, s)
    BY <1>3, <1>4, <1>6, <2>1, <2>3
  <2> QED
    BY <2>1, <2>4 DEF Passes, Moves
<1>14. CASE QCalls(k, s, u, h, g)
  <2> DEFINE x == Qdmabuf!U!Frame(w)
  <2>1. /\ Busy(f) /\ w \in DOMAIN Qdmabuf!Code \ Foreign(k)
        /\ Pushed(s, u, x) /\ QSame(h, g)
    BY <1>14 DEF QCalls, f, w
  <2>2. w \in Idlers \cup Called(k) /\ Lent(k, w) = {}
    BY <1>5, <2>1
  <2>3. w \in Tally(k) \cup Counters(k) /\ w \notin Callers
    BY <2>2, Lemma_Foreign DEF Tally
  <2>4. x \in QFrames /\ x.proc = w /\ Entry(k, x) /\ Assets(k, x) = {}
    BY <2>2, <2>3, Lemma_EntryStart
  <2>5. f.proc \notin Counters(k)
    BY <1>5, <2>1, Lemma_Foreign
  <2> HIDE DEF x
  <2>6. /\ Ledger(k, u) /\ Within(k, u, s)
        /\ Claims(k, u) = Assets(k, x) \cup (Assets(k, f) \ Share(k, w)) \cup D
    <3>1. Assets(k, x) \subseteq Refs
      BY <2>4
    <3>2. x.proc \notin Callers \cup Foreign(k) /\ At(f) = x.proc
          /\ Share(k, x.proc) \subseteq Share(k, f.proc)
      BY <1>5, <2>1, <2>3, <2>4 DEF w
    <3> QED
      BY <2>1, <2>4, <2>5, <3>1, <3>2, Lemma_LedgerPush DEF f, D
  <2>7. Claims(k, u) = Claims(k, s)
    BY <1>3, <1>5, <2>1, <2>4, <2>6
  <2> QED
    BY <2>1, <2>6, <2>7 DEF Passes, Moves
<1>15. CASE QDrops(s, u, h, g)
  <2>1. /\ Busy(f) /\ w \in Qdmabuf!Resources
        /\ Qdmabuf!Code[f.proc].get[f.at].drop
        /\ TopIs(s, u, [f EXCEPT !.at = Past(f, h)])
        /\ \A x \in Watched :
             g[x] = IF w = "buf" /\ x = "refcount" THEN 0
                    ELSE IF x = w /\ h[x] > 0 THEN h[x] - 1 ELSE h[x]
    BY <1>15 DEF QDrops, f, w
  <2>2. w \notin Watched /\ w \notin Refs /\ Share(k, w) = {} /\ w # "buf"
    BY <1>5, <1>7, <2>1
  <2>3. QSame(h, g)
    BY <2>1, <2>2 DEF QSame
  <2>4. Past(f, h) = f.at + 1
    BY <1>7, <2>2 DEF Past, w
  <2>5. TopIs(s, u, a)
    BY <1>4, <2>1, <2>4
  <2>6. Entry(k, a) /\ Assets(k, a) = Assets(k, f)
    BY <1>5, <2>1, <2>2
  <2>7. Ledger(k, u) /\ Within(k, u, s) /\ Claims(k, u) = Claims(k, s)
    BY <1>3, <1>4, <1>6, <2>5, <2>6
  <2> QED
    BY <2>3, <2>7 DEF Passes, Moves
<1>16. CASE QFalls(s, u, h, g)
  <2> DEFINE x == [f EXCEPT !.phase = "put", !.at = 1]
  <2>1. /\ ~Busy(f) /\ f.phase = "get" /\ f.proc = "qdmabuf_ioctl_info"
        /\ TopIs(s, u, x) /\ QSame(h, g)
    BY <1>16 DEF QFalls, f
  <2>2. x.proc = f.proc /\ Entry(k, x) /\ Assets(k, x) = Assets(k, f)
    BY <1>1, <1>2, <2>1, Lemma_EntryFalls
  <2>3. Ledger(k, u) /\ Within(k, u, s) /\ Claims(k, u) = Claims(k, s)
    BY <1>3, <1>4, <1>6, <2>1, <2>2
  <2> QED
    BY <2>1, <2>3 DEF Passes, Moves
<1> QED
  BY <1>11, <1>12, <1>13, <1>14, <1>15, <1>16

\* A call that puts the dma-buf, at its count, is the only one or was made by
\* one that has nothing else to release.
LEMMA Lemma_Putting ==
  ASSUME NEW k \in Qdmabuf!Kinds, NEW s \in Seq(QFrames), s # << >>,
         Ledger(k, s), s[1].proc = "dma_buf_put", Busy(s[1])
  PROVE  /\ Claims(k, s) = {"dmabuf"} /\ Deeper(k, s, 2) = {}
         /\ \A i \in 2 .. Len(s) : Dull(k, s[i])
<1>1. /\ Len(s) \in Nat /\ Len(s) >= 1
      /\ \A i \in 1 .. Len(s) : s[i] \in QFrames /\ Entry(k, s[i])
  BY StackEnd DEF Ledger
<1>2. Assets(k, s[1]) = {"dmabuf"} /\ Share(k, s[1].proc) = {"dmabuf"}
  <2>1. 1 \in 1 .. Len(s) /\ s[1].proc \in Counters(k)
    BY <1>1 DEF Counters
  <2> QED
    BY <1>1, <2>1, Lemma_EntryCounts
<1>3. Claims(k, s) = Assets(k, s[1]) \cup Deeper(k, s, 2)
  BY Lemma_Deeper
<1>4. CASE Len(s) < 2
  <2>1. \A i \in 2 .. Len(s) : FALSE
    BY <1>1, <1>4
  <2>2. Deeper(k, s, 2) = {}
    BY <2>1 DEF Deeper
  <2> QED
    BY <1>2, <1>3, <2>1, <2>2
<1>5. CASE Len(s) >= 2
  <2> DEFINE b == s[2]
             e == Qdmabuf!U!Onward(b)
             c == Qdmabuf!Code[b.proc]
  <2>1. 2 \in 1 .. Len(s) /\ 2 \in 2 .. Len(s) /\ 2 - 1 = 1
    BY <1>1, <1>5
  <2>2. /\ b \in QFrames /\ Entry(k, b) /\ Busy(b) /\ At(b) = "dma_buf_put"
        /\ b.proc \notin Counters(k) /\ b.phase \in {"get", "put"}
        /\ b.proc \notin Foreign(k)
    BY <1>1, <2>1 DEF Ledger, QFrames
  <2>3. "dma_buf_put" \in DOMAIN Qdmabuf!Code \ Foreign(k)
        /\ "dma_buf_put" \notin Idlers \cup Called(k)
    <3>1. "dma_buf_put" \in Others /\ "dma_buf_put" \in Counters(k)
      BY DEF Others, Putters, Counters
    <3>2. "dma_buf_put" \notin Called(k)
      BY DEF Called, AttachOf, DetachOf, MmapOf, Qdmabuf!Kinds
    <3> QED
      BY <3>1, <3>2, Lemma_Functions, Lemma_Resource
  <2>4. b.phase = "put"
    BY <2>2, <2>3, Lemma_EntryGet
  <2>5. /\ Assets(k, b) = Assets(k, e) \cup {"dmabuf"}
        /\ b.proc \in Callers /\ Assets(k, e) = {} /\ b.at = Len(c.put)
    BY <1>2, <2>2, <2>4, Lemma_EntryPut, Lemma_Shares
  <2>6. Len(s) = 2
    <3>0. Len(s) \in Nat
      BY <1>1
    <3>2. \A m \in Nat : m >= 2 /\ m # 2 => 2 \in 1 .. m - 1
      OBVIOUS
    <3>1. Len(s) # 2 => 2 \in 1 .. Len(s) - 1
      BY <1>5, <3>0, <3>2
    <3> QED
      BY <2>5, <3>1 DEF Ledger
  <2>7. Deeper(k, s, 2) = {}
    <3>1. Deeper(k, s, 2) = (Assets(k, b) \ {"dmabuf"}) \cup Deeper(k, s, 3)
      BY <1>2, <1>5, Lemma_Deeper
    <3>2. Deeper(k, s, 3) = {}
      BY <2>6 DEF Deeper
    <3> QED
      BY <2>5, <3>1, <3>2
  <2>8. b.proc \in {"mmap", "fork"} => b.result = "err"
    <3> SUFFICES ASSUME b.proc \in {"mmap", "fork"}
                 PROVE  b.result = "err"
      OBVIOUS
    <3>1. Len(c.get) # 0
      BY Lemma_Bodies
    <3>2. c.get # << >>
      BY <3>1, ListEmpty
    <3>3. ~c.through
      BY <2>2, Lemma_Shaped DEF QFrames
    <3>4. b.proc \notin Idlers
      BY <2>5, Lemma_Foreign
    <3> QED
      BY <2>2, <2>4, <3>2, <3>3, <3>4 DEF Entry
  <2>9. b.at >= Len(c.put)
    <3>1. b.at \in Nat
      BY <2>2 DEF QFrames
    <3> QED
      BY <2>5, <3>1
  <2>10. Dull(k, b)
    BY <2>4, <2>5, <2>8, <2>9 DEF Dull
  <2>11. \A i \in 2 .. Len(s) : i = 2
    BY <2>6
  <2> QED
    BY <1>2, <1>3, <2>7, <2>10, <2>11
<1> QED
  BY <1>1, <1>4, <1>5

\* A step of a call that releases.
LEMMA Lemma_MovesPut ==
  ASSUME NEW k \in Qdmabuf!Kinds, NEW s \in Seq(QFrames), s # << >>,
         Ledger(k, s), NEW u, NEW h, NEW g, s[1].phase = "put",
         h["dmabuf"] \in Nat, h["refcount"] \in Nat,
         \/ QGets(s, u, h, g) \/ QRefuses(s, u, h, g) \/ QSkips(k, s, u, h, g)
         \/ QCalls(k, s, u, h, g) \/ QDrops(s, u, h, g) \/ QFalls(s, u, h, g)
  PROVE  Moves(k, s, u, h, g)
<1> DEFINE f == s[1]
           w == At(f)
           a == Qdmabuf!U!Onward(f)
           D == Deeper(k, s, 2)
           n == Len(Qdmabuf!Code[f.proc].put)
<1>1. f \in QFrames /\ Len(s) \in Nat /\ Len(s) >= 1 /\ 1 \in 1 .. Len(s)
  BY StackEnd
<1>2. Entry(k, f) /\ f.proc \notin Foreign(k) /\ f.phase = "put"
  BY <1>1 DEF Ledger
<1>3. Claims(k, s) = Assets(k, f) \cup D /\ D \cap Share(k, f.proc) = {}
      /\ Assets(k, f) \subseteq Refs
      /\ Assets(k, f) \subseteq Share(k, f.proc)
  BY <1>1, <1>2, Lemma_Deeper, Lemma_Assets
<1>4. a \in QFrames /\ a.proc = f.proc /\ a = [f EXCEPT !.at = @ + 1]
  <2>1. a \in QFrames /\ a = [f EXCEPT !.at = @ + 1]
    BY <1>1, Lemma_QFrames
  <2>2. [f EXCEPT !.at = @ + 1].proc = f.proc
    BY <1>1 DEF QFrames
  <2> QED
    BY <2>1, <2>2
<1>5. Busy(f) /\ f.proc \notin Counters(k) =>
        /\ f.proc \in Tally(k) /\ Entry(k, a)
        /\ Assets(k, f) = Assets(k, a) \cup Share(k, w)
        /\ Share(k, w) \cap Assets(k, a) = {}
        /\ Share(k, w) \subseteq Share(k, f.proc)
        /\ w \notin Stock \cup {"dmabuf", "refcount"}
        /\ w \in DOMAIN Qdmabuf!Code \ Foreign(k) =>
             w \in Idlers \cup Called(k) \cup Counters(k)
             /\ Lent(k, w) = Share(k, w)
  BY <1>1, <1>2, Lemma_EntryPut
<1>6. ASSUME NEW x \in QFrames, x.proc = f.proc, Entry(k, x), TopIs(s, u, x)
      PROVE  /\ Ledger(k, u) /\ Within(k, u, s)
             /\ Claims(k, u) = Assets(k, x) \cup D
  <2>1. Assets(k, x) \subseteq Refs
    BY <1>6, Lemma_Assets
  <2> QED
    BY <1>6, <2>1, Lemma_LedgerTop
<1>7. /\ \A x \in Qdmabuf!Resources \ Refs : Share(k, x) = {}
      /\ \A x \in Refs : Share(k, x) = {x}
      /\ Watched = Refs \cup Stock /\ {"attach", "refcount", "dmabuf"} = Refs
      /\ "buf" \in Stock
  BY Lemma_Resource
<1>8. Busy(f) /\ f.proc \in Counters(k) =>
        LET r == IF f.proc = "dma_buf_put" THEN "dmabuf" ELSE "refcount"
            x == [f EXCEPT !.at = n + 1] IN
        /\ w = r /\ Share(k, f.proc) = {r} /\ Assets(k, f) = {r}
        /\ x.proc = f.proc /\ Entry(k, x) /\ Assets(k, x) = {} /\ x \in QFrames
  <2> SUFFICES ASSUME Busy(f), f.proc \in Counters(k)
               PROVE  LET r == IF f.proc = "dma_buf_put" THEN "dmabuf"
                               ELSE "refcount"
                          x == [f EXCEPT !.at = n + 1] IN
                      /\ w = r /\ Share(k, f.proc) = {r} /\ Assets(k, f) = {r}
                      /\ x.proc = f.proc /\ Entry(k, x) /\ Assets(k, x) = {}
                      /\ x \in QFrames
    OBVIOUS
  <2>1. n + 1 \in Nat \ {0}
    <3>1. n \in Nat
      BY <1>1, Lemma_Shaped DEF QFrames, Shaped
    <3> QED
      BY <3>1
  <2>2. [f EXCEPT !.at = n + 1] \in QFrames
    BY <1>1, <2>1, Lemma_QFrames
  <2> QED
    BY <1>1, <1>2, <2>2, Lemma_EntryCounts
<1> HIDE DEF f, w, a, D, n
<1>11. CASE QGets(s, u, h, g) \/ QRefuses(s, u, h, g) \/ QFalls(s, u, h, g)
  BY <1>11, <1>2 DEF QGets, QRefuses, QFalls, f
<1>13. CASE QSkips(k, s, u, h, g)
  <2>1. Busy(f) /\ w \in Foreign(k) /\ TopIs(s, u, a) /\ QSame(h, g)
    BY <1>13 DEF QSkips, f, w, a
  <2>2. Share(k, w) = {} /\ w \notin Qdmabuf!Resources
    BY <2>1, Lemma_Foreign, Lemma_WatchedAre
  <2>3. f.proc \notin Counters(k)
    <3>1. {"dmabuf", "refcount"} \subseteq Qdmabuf!Resources
      BY <1>7, Lemma_WatchedAre
    <3> QED
      BY <1>8, <2>1, <2>2, <3>1
  <2>4. Entry(k, a) /\ Assets(k, a) = Assets(k, f)
    BY <1>5, <2>1, <2>2, <2>3
  <2>5. Ledger(k, u) /\ Within(k, u, s) /\ Claims(k, u) = Claims(k, s)
    BY <1>3, <1>4, <1>6, <2>1, <2>4
  <2> QED
    BY <2>1, <2>5 DEF Passes, Moves
<1>14. CASE QCalls(k, s, u, h, g)
  <2> DEFINE x == Qdmabuf!U!Frame(w)
  <2>1. /\ Busy(f) /\ w \in DOMAIN Qdmabuf!Code \ Foreign(k)
        /\ Pushed(s, u, x) /\ QSame(h, g)
    BY <1>14 DEF QCalls, f, w
  <2>2. f.proc \notin Counters(k)
    <3>1. {"dmabuf", "refcount"} \subseteq Qdmabuf!Resources
      BY <1>7, Lemma_WatchedAre
    <3>2. w \notin {"dmabuf", "refcount"}
      BY <2>1, <3>1, Lemma_WatchedAre
    <3> QED
      BY <1>8, <2>1, <3>2
  <2>3. w \in Idlers \cup Called(k) \cup Counters(k)
        /\ Lent(k, w) = Share(k, w)
    BY <1>5, <2>1, <2>2
  <2>4. w \in Tally(k) \cup Counters(k) /\ w \notin Callers
    BY <2>3, Lemma_Foreign DEF Tally
  <2>5. x \in QFrames /\ x.proc = w /\ Entry(k, x)
        /\ Assets(k, x) = Share(k, w)
    BY <2>3, <2>4, Lemma_EntryStart
  <2> HIDE DEF x
  <2>6. /\ Ledger(k, u) /\ Within(k, u, s)
        /\ Claims(k, u) = Assets(k, x) \cup (Assets(k, f) \ Share(k, w)) \cup D
    <3>1. Assets(k, x) \subseteq Refs
      BY <2>5, Lemma_Assets
    <3>2. x.proc \notin Callers \cup Foreign(k) /\ At(f) = x.proc
          /\ Share(k, x.proc) \subseteq Share(k, f.proc)
      BY <1>5, <2>1, <2>2, <2>4, <2>5 DEF w
    <3> QED
      BY <2>1, <2>2, <2>5, <3>1, <3>2, Lemma_LedgerPush DEF f, D
  <2>7. Claims(k, u) = Claims(k, s)
    BY <1>3, <1>5, <2>1, <2>2, <2>5, <2>6
  <2> QED
    BY <2>1, <2>6, <2>7 DEF Passes, Moves
<1>15. CASE QDrops(s, u, h, g)
  <2>1. /\ Busy(f) /\ w \in Qdmabuf!Resources
        /\ TopIs(s, u, [f EXCEPT !.at = Past(f, h)])
        /\ \A x \in Watched :
             g[x] = IF w = "buf" /\ x = "refcount" THEN 0
                    ELSE IF x = w /\ h[x] > 0 THEN h[x] - 1 ELSE h[x]
    BY <1>15 DEF QDrops, f, w
  <2>2. w # "buf" => Lowers(h, g, w)
    BY <2>1 DEF Lowers
  <2>3. CASE f.proc \notin Counters(k)
    <3>1. w \notin Stock \cup {"dmabuf", "refcount"} /\ w # "buf"
      BY <1>5, <1>7, <2>1, <2>3
    <3>2. Past(f, h) = f.at + 1
      BY <3>1 DEF Past, w
    <3>3. TopIs(s, u, a)
      BY <1>4, <2>1, <3>2
    <3>4. Ledger(k, u) /\ Within(k, u, s) /\ Claims(k, u) = Assets(k, a) \cup D
      BY <1>4, <1>5, <1>6, <2>1, <2>3, <3>3
    <3>5. CASE w = "attach"
      <4>1. Share(k, w) = {"attach"}
        BY <1>7, <3>5
      <4>2. "attach" \in Claims(k, s)
            /\ Claims(k, u) = Claims(k, s) \ {"attach"}
        BY <1>3, <1>5, <2>1, <2>3, <3>4, <4>1
      <4> QED
        BY <2>2, <3>1, <3>4, <3>5, <4>2 DEF Pays, Moves
    <3>6. CASE w # "attach"
      <4>1. w \notin Watched /\ Share(k, w) = {}
        BY <1>7, <2>1, <3>1, <3>6
      <4>2. Claims(k, u) = Claims(k, s)
        BY <1>3, <1>5, <2>1, <2>3, <3>4, <4>1
      <4>3. QSame(h, g)
        BY <2>1, <3>1, <4>1 DEF QSame
      <4> QED
        BY <3>4, <4>2, <4>3 DEF Passes, Moves
    <3> QED
      BY <3>5, <3>6
  <2>4. CASE f.proc \in Counters(k)
    <3> DEFINE r == IF f.proc = "dma_buf_put" THEN "dmabuf" ELSE "refcount"
               x == [f EXCEPT !.at = n + 1]
    <3>1. /\ w = r /\ Share(k, f.proc) = {r} /\ Assets(k, f) = {r}
          /\ x.proc = f.proc /\ Entry(k, x) /\ Assets(k, x) = {}
          /\ x \in QFrames
      BY <1>8, <2>1, <2>4
    <3>2. h[r] # 1 => Past(f, h) = n + 1
      BY <1>2, <3>1 DEF Past, n, w
    <3>3. h[r] # 1 => TopIs(s, u, x)
      BY <2>1, <3>2
    <3> HIDE DEF x
    <3>4. h[r] # 1 => /\ Ledger(k, u) /\ Within(k, u, s)
                      /\ Claims(k, u) = D
      BY <1>6, <3>1, <3>3
    <3>5. r \in Claims(k, s) /\ D = Claims(k, s) \ {r}
      BY <1>3, <3>1
    <3>6. h[r] # 1 => Pays(k, s, u, r)
      BY <3>4, <3>5 DEF Pays
    <3>7. Lowers(h, g, r)
      BY <2>2, <3>1
    <3>8. CASE f.proc # "dma_buf_put"
      BY <3>5, <3>6, <3>7, <3>8 DEF Moves
    <3>9. CASE f.proc = "dma_buf_put"
      <4>1. /\ Claims(k, s) = {"dmabuf"}
            /\ \A i \in 2 .. Len(s) : Dull(k, s[i])
        BY <2>1, <3>9, Lemma_Putting DEF f
      <4>2. Harmless(k, u)
        <5>1. /\ u[1] = [f EXCEPT !.at = Past(f, h)]
              /\ Len(u) = Len(s) /\ \A i \in 2 .. Len(s) : u[i] = s[i]
          BY <2>1 DEF TopIs
        <5>2. u[1].phase = "put" /\ u[1].proc = "dma_buf_put"
          BY <1>1, <1>2, <3>9, <5>1 DEF QFrames
        <5>3. Dull(k, u[1])
          BY <5>2 DEF Dull, Putters
        <5>4. \A i \in 1 .. Len(s) : i = 1 \/ i \in 2 .. Len(s)
          BY <1>1
        <5> QED
          BY <4>1, <5>1, <5>3, <5>4 DEF Harmless
      <4>3. Clears(k, s, u, h, g)
        BY <3>6, <3>7, <3>9, <4>1, <4>2 DEF Clears
      <4> QED
        BY <4>3 DEF Moves
    <3> QED
      BY <3>8, <3>9
  <2> QED
    BY <2>3, <2>4
<1> QED
  BY <1>11, <1>13, <1>14, <1>15

\* A call returns.
LEMMA Lemma_MovesReturn ==
  ASSUME NEW k \in Qdmabuf!Kinds, NEW s \in Seq(QFrames), s # << >>,
         Ledger(k, s), NEW u, NEW h, NEW g, QReturns(s, u, h, g)
  PROVE  Passes(k, s, u, h, g)
<1> DEFINE f == s[1]
           b == s[2]
           w == f.proc
           c == Qdmabuf!Code[w]
           a == Qdmabuf!U!Onward(b)
           e == Qdmabuf!U!Cleanup(b)
           D == Deeper(k, s, 3)
<1>1. /\ Len(s) \in Nat /\ Len(s) >= 2 /\ f \in QFrames /\ b \in QFrames
      /\ 1 \in 1 .. Len(s) /\ 2 \in 1 .. Len(s) /\ 2 \in 2 .. Len(s)
      /\ 1 \in 1 .. Len(s) - 1 /\ 2 - 1 = 1
  <2>1. Len(s) \in Nat /\ Len(s) >= 2
        /\ \A i \in 1 .. Len(s) : s[i] \in QFrames
    BY StackEnd DEF QReturns
  <2> QED
    BY <2>1
<1>2. /\ Entry(k, f) /\ Entry(k, b) /\ Busy(b) /\ At(b) = w
      /\ b.proc \notin Counters(k) /\ w \notin Callers /\ w \notin Foreign(k)
  BY <1>1 DEF Ledger
<1>3. /\ ~Busy(f) /\ QSame(h, g)
      /\ Popped(s, u, IF f.result = "err" /\ b.phase = "get" THEN e ELSE a)
  BY DEF QReturns
<1>4. /\ Claims(k, s) = Assets(k, f) \cup (Assets(k, b) \ Share(k, w)) \cup D
      /\ D \cap Share(k, b.proc) = {}
  BY <1>1, Lemma_Deeper
<1>5. a \in QFrames /\ a.proc = b.proc /\ e \in QFrames /\ e.proc = b.proc
  <2>1. a \in QFrames /\ a = [b EXCEPT !.at = @ + 1] /\ e \in QFrames
        /\ e.proc = b.proc
    BY <1>1, Lemma_QFrames
  <2>2. [b EXCEPT !.at = @ + 1].proc = b.proc
    BY <1>1 DEF QFrames
  <2> QED
    BY <2>1, <2>2
<1>6. ASSUME NEW x \in QFrames, x.proc = b.proc, Entry(k, x), Popped(s, u, x),
             Assets(k, x) = Assets(k, f) \cup (Assets(k, b) \ Share(k, w))
      PROVE  Passes(k, s, u, h, g)
  <2>1. Assets(k, x) \subseteq Refs
    BY <1>6, Lemma_Assets
  <2>2. /\ Ledger(k, u) /\ Within(k, u, s)
        /\ Claims(k, u) = Assets(k, x) \cup D
    BY <1>1, <1>6, <2>1, Lemma_LedgerPop
  <2> QED
    BY <1>3, <1>4, <1>6, <2>2 DEF Passes
<1>7. /\ f.phase = "get" => f.result = "ok" /\ Assets(k, f) = Share(k, w)
      /\ f.phase = "put" =>
           /\ Assets(k, f) = {}
           /\ c.get # << >> /\ ~c.through => f.result = "err" \/ w \in Idlers
  BY <1>1, <1>2, <1>3, Lemma_EntryEnd
<1>8. /\ w \in DOMAIN Qdmabuf!Code /\ ~c.through /\ w # "refcount"
      /\ f.phase \in {"get", "put"} /\ f.result \in {"ok", "err"}
      /\ b.phase \in {"get", "put"}
  <2>1. /\ w \in DOMAIN Qdmabuf!Code /\ f.phase \in {"get", "put"}
        /\ f.result \in {"ok", "err"} /\ b.phase \in {"get", "put"}
    BY <1>1 DEF QFrames
  <2>2. c.through => w \in Callers
    BY <2>1, Lemma_Shaped DEF Callers, AppCalls
  <2>3. "refcount" \in Qdmabuf!Resources
    BY Lemma_WatchedAre DEF Watched, Refs
  <2> QED
    BY <1>2, <2>1, <2>2, <2>3, Lemma_WatchedAre
<1>9. f.phase = "get" => c.get # << >>
  BY <1>2 DEF Entry
<1>10. w = "dmabuf_exp_vm_open" => f.phase = "get"
  BY <1>2 DEF Entry
<1>11. \A x \in Idlers : Share(k, x) = {}
  BY Lemma_Shares
<1>12. c.get = << >> => Lent(k, w) = Share(k, w)
  BY DEF Lent
<1>13. c.get # << >> => Lent(k, w) = Share(k, w) \cap {"dmabuf"}
  BY DEF Lent
<1>14. b.phase = "get" =>
         /\ Entry(k, a) /\ Assets(k, a) = Assets(k, b) \cup Share(k, w)
         /\ Share(k, w) \cap Assets(k, b) = {}
         /\ w \in Idlers \cup Called(k) /\ Lent(k, w) = {}
         /\ w # "dmabuf_exp_vm_open" => Entry(k, e)
              /\ Assets(k, e) = Assets(k, b)
  BY <1>1, <1>2, <1>8, Lemma_EntryGet
<1>15. b.phase = "put" =>
         /\ Entry(k, a) /\ Assets(k, b) = Assets(k, a) \cup Share(k, w)
         /\ Share(k, w) \cap Assets(k, a) = {}
         /\ w \in Idlers \cup Called(k) \cup Counters(k)
         /\ Lent(k, w) = Share(k, w)
  BY <1>1, <1>2, <1>8, Lemma_EntryPut
<1>16. c.get # << >> /\ w \in Idlers \cup Called(k) \cup Counters(k) =>
         Share(k, w) \cap {"dmabuf"} = {}
  <2> SUFFICES ASSUME c.get # << >>,
                      w \in Idlers \cup Called(k) \cup Counters(k)
               PROVE  Share(k, w) \cap {"dmabuf"} = {}
    OBVIOUS
  <2>1. w \notin Counters(k)
    BY Lemma_Counters, Lemma_Putters
  <2> QED
    BY <2>1, Lemma_Shares DEF Called
<1> HIDE DEF f, b, w, c, a, e, D
<1>17. CASE b.phase = "get" /\ f.phase = "get"
  BY <1>3, <1>5, <1>6, <1>7, <1>14, <1>17
<1>18. CASE b.phase = "get" /\ f.phase = "put" /\ f.result = "err"
  <2>1. Popped(s, u, e)
    BY <1>3, <1>18
  <2>2. Entry(k, e) /\ Assets(k, e) = Assets(k, b)
    BY <1>10, <1>14, <1>18
  <2> QED
    BY <1>5, <1>6, <1>7, <1>14, <1>18, <2>1, <2>2
<1>19. CASE b.phase = "get" /\ f.phase = "put" /\ f.result # "err"
  <2>1. Popped(s, u, a)
    BY <1>3, <1>19
  <2>2. Share(k, w) = {}
    BY <1>7, <1>8, <1>11, <1>12, <1>14, <1>19
  <2> QED
    BY <1>5, <1>6, <1>7, <1>14, <1>19, <2>1, <2>2
<1>20. CASE b.phase = "put"
  <2>1. Popped(s, u, a)
    BY <1>3, <1>20
  <2>2. Assets(k, f) = {}
    <3>1. CASE f.phase = "put"
      BY <1>7, <3>1
    <3>2. CASE f.phase = "get"
      <4>1. Share(k, w) = Share(k, w) \cap {"dmabuf"}
        BY <1>9, <1>13, <1>15, <1>20, <3>2
      <4> QED
        BY <1>7, <1>9, <1>15, <1>16, <1>20, <3>2, <4>1
    <3> QED
      BY <1>8, <3>1, <3>2
  <2> QED
    BY <1>5, <1>6, <1>15, <1>20, <2>1, <2>2
<1> QED
  BY <1>8, <1>17, <1>18, <1>19, <1>20

\* All of them.
LEMMA Lemma_Moves ==
  ASSUME NEW k \in Qdmabuf!Kinds, NEW s \in Seq(QFrames), s # << >>,
         Ledger(k, s), NEW u, NEW h, NEW g,
         h["dmabuf"] \in Nat, h["refcount"] \in Nat, QSteps(k, s, u, h, g)
  PROVE  Moves(k, s, u, h, g)
<1>1. s[1].phase \in {"get", "put"} /\ Len(s) \in Nat
  <2>1. s[1] \in QFrames /\ Len(s) \in Nat
    BY StackEnd
  <2> QED
    BY <2>1 DEF QFrames
<1>2. CASE QLeaves(s, u, h, g)
  <2>1. Deeper(k, s, 2) = {}
    BY <1>2 DEF QLeaves, Deeper
  <2>2. Claims(k, s) = Assets(k, s[1])
    BY <2>1, Lemma_Deeper
  <2> QED
    BY <1>2, <2>2 DEF Moves
<1>3. CASE QReturns(s, u, h, g)
  BY <1>3, Lemma_MovesReturn DEF Moves
<1> QED
  BY <1>1, <1>2, <1>3, Lemma_MovesGet, Lemma_MovesPut DEF QSteps

\* An empty stack owns nothing.
LEMMA Lemma_NoAccount ==
  ASSUME NEW k
  PROVE  Account(k, << >>, {})
<1>1. Len(<< >>) = 0
  BY ListEmpty
<1>2. \A i \in 1 .. 0 : FALSE
  OBVIOUS
<1>3. \A i \in 2 .. 0 : FALSE
  OBVIOUS
<1>4. \A i \in 1 .. 0 - 1 : FALSE
  OBVIOUS
<1>5. Ledger(k, << >>)
  BY <1>1, <1>2, <1>3, <1>4 DEF Ledger
<1>6. Claims(k, << >>) = {}
  BY <1>1, <1>2 DEF Claims
<1>7. Harmless(k, << >>)
  BY <1>1, <1>2 DEF Harmless
<1> QED
  BY <1>5, <1>6, <1>7 DEF Account

\* What a step makes of the account of a task.
Stays(k, s, u, X) == Account(k, u, X) /\ Within(k, u, s)
Accounts(k, s, u, h, g, X) ==
  \/ Stays(k, s, u, X) /\ QSame(h, g)
  \/ \E x \in {"attach", "refcount"} :
       /\ "dmabuf" \in X /\ x \notin X /\ x \in Share(k, s[1].proc)
       /\ Stays(k, s, u, X \cup {x})
       /\ \A y \in Watched : g[y] = IF y = x THEN h[y] + 1 ELSE h[y]
  \/ /\ "dmabuf" \in X /\ "attach" \in X /\ Lowers(h, g, "attach")
     /\ Stays(k, s, u, X \ {"attach"})
  \/ /\ "dmabuf" \in X /\ "refcount" \in X /\ Lowers(h, g, "refcount")
     /\ h["refcount"] # 1 => Stays(k, s, u, X \ {"refcount"})
  \/ /\ X = {"dmabuf"} /\ Lowers(h, g, "dmabuf") /\ Harmless(k, u)
     /\ h["dmabuf"] # 1 => Stays(k, s, u, {})
  \/ QLeaves(s, u, h, g) /\ X = Assets(k, s[1])

\* A step of a task does one of these to its account.
LEMMA Lemma_Accounts ==
  ASSUME NEW k \in Qdmabuf!Kinds, NEW s \in Seq(QFrames), s # << >>,
         NEW X, Account(k, s, X), NEW u, NEW h, NEW g,
         h["dmabuf"] \in Nat, h["refcount"] \in Nat, QSteps(k, s, u, h, g)
  PROVE  Accounts(k, s, u, h, g, X)
<1>1. Ledger(k, s) /\ X = Claims(k, s)
      /\ ("dmabuf" \in X \/ (X = {} /\ Harmless(k, s)))
  BY DEF Account
<1>2. Moves(k, s, u, h, g)
  BY <1>1, Lemma_Moves
<1>3. Len(s) \in Nat /\ Len(s) >= 1 /\ s[1] \in QFrames
  BY StackEnd
<1>4. Harmless(k, s) => Harmless(k, u) /\ Dull(k, s[1])
  <2> SUFFICES ASSUME Harmless(k, s) PROVE Harmless(k, u) /\ Dull(k, s[1])
    OBVIOUS
  <2>1. Len(s) - 0 >= 1 /\ Len(s) - 0 = Len(s) /\ 1 \in 1 .. Len(s)
    BY <1>3
  <2>2. \A i \in 1 .. Len(s) - 0 : Dull(k, s[i])
    BY <2>1 DEF Harmless
  <2>3. QReturns(s, u, h, g) => Len(s) - 0 >= 2
    BY <2>1 DEF QReturns
  <2>4. Len(u) \in Nat /\ \A i \in 1 .. Len(u) - 0 : Dull(k, u[i])
    BY <2>1, <2>2, <2>3, Lemma_Harmless
  <2>5. Len(u) - 0 = Len(u)
    BY <2>4
  <2> QED
    BY <2>1, <2>2, <2>4, <2>5 DEF Harmless
<1>5. {"attach", "refcount"} \subseteq Watched
      /\ Watched \subseteq Qdmabuf!Resources
  BY Lemma_WatchedAre DEF Watched, Refs
<1>6. CASE Passes(k, s, u, h, g)
  BY <1>1, <1>4, <1>6 DEF Passes, Account, Stays, Accounts
<1>7. ASSUME NEW x \in {"attach", "refcount"}, Earns(k, s, u, h, g, x)
      PROVE  Accounts(k, s, u, h, g, X)
  <2>1. ~Harmless(k, s)
    <3>1. /\ Busy(s[1]) /\ s[1].phase = "get" /\ At(s[1]) \in Watched
          /\ At(s[1]) \in Qdmabuf!Resources
      BY <1>5, <1>7 DEF Earns
    <3> QED
      BY <1>3, <1>4, <3>1, Lemma_Dull
  <2> QED
    BY <1>1, <1>7, <2>1 DEF Earns, Account, Stays, Accounts
<1>8. CASE "attach" \in Claims(k, s) /\ Lowers(h, g, "attach")
           /\ Pays(k, s, u, "attach")
  BY <1>1, <1>8 DEF Pays, Account, Stays, Accounts
<1>9. CASE /\ "refcount" \in Claims(k, s) /\ Lowers(h, g, "refcount")
           /\ h["refcount"] # 1 => Pays(k, s, u, "refcount")
  BY <1>1, <1>9 DEF Pays, Account, Stays, Accounts
<1>10. CASE Clears(k, s, u, h, g)
  <2>1. X \ {"dmabuf"} = {}
    BY <1>1, <1>10 DEF Clears
  <2> QED
    BY <1>1, <1>10, <2>1 DEF Clears, Pays, Account, Stays, Accounts
<1>11. CASE QLeaves(s, u, h, g) /\ Claims(k, s) = Assets(k, s[1])
  BY <1>1, <1>11 DEF Accounts
<1> QED
  BY <1>2, <1>6, <1>7, <1>8, <1>9, <1>10, <1>11 DEF Moves

\* What a buffer consists of, besides, is not among the references.
LEMMA Lemma_Stock ==
  ASSUME NEW k \in Qdmabuf!Kinds
  PROVE  /\ Whole(k) \ Refs
              \subseteq Watched \ {"attach", "refcount", "dmabuf"}
         /\ "fd" \in Watched \ {"attach", "refcount", "dmabuf"}
         /\ {"attach", "refcount", "dmabuf"} \subseteq Watched
BY DEF Whole, Watched, Refs, Stock

-----------------------------------------------------------------------------
(* The counts stay at least what is accounted for.                         *)

\* Each such step keeps the balance; only the last reference to the dma-buf
\* leaves a buffer nobody uses.  The one who moves owns X, the others Z.
Fair(h, v, X, Z) ==
  /\ h["attach"] >= One("attach" \in X) + One("attach" \in Z)
  /\ h["dmabuf"] >= h["fd"] + v
       + (h["attach"] - (One("attach" \in X) + One("attach" \in Z)))
       + One("dmabuf" \in X) + One("dmabuf" \in Z)
  /\ h["refcount"] >= 1 + v + One("refcount" \in X) + One("refcount" \in Z)
Counts(h) == \A x \in Watched : h[x] \in Nat

\* A step of a task keeps that, but for the put of the last reference.
LEMMA Lemma_Fair ==
  ASSUME NEW k \in Qdmabuf!Kinds, NEW s \in Seq(QFrames), s # << >>,
         NEW X, Account(k, s, X), NEW u, NEW h, NEW g, Counts(h),
         QSteps(k, s, u, h, g), NEW v \in Nat, NEW Z, Fair(h, v, X, Z),
         "dmabuf" \in Z \/ Z = {}, ~QLeaves(s, u, h, g)
  PROVE  \/ /\ \A x \in Whole(k) \ Refs : g[x] = h[x]
            /\ \E W \in SUBSET (X \cup Share(k, s[1].proc)) :
                 Stays(k, s, u, W) /\ Fair(g, v, W, Z)
         \/ /\ Harmless(k, u) /\ "dmabuf" \notin Z /\ v = 0
            /\ g["fd"] = 0 /\ g["attach"] = 0
<1> USE DEF One
<1>1. /\ Whole(k) \ Refs \subseteq Watched \ {"attach", "refcount", "dmabuf"}
      /\ "fd" \in Watched \ {"attach", "refcount", "dmabuf"}
      /\ {"attach", "refcount", "dmabuf"} \subseteq Watched
  BY Lemma_Stock
<1>2. /\ h["attach"] \in Nat /\ h["dmabuf"] \in Nat /\ h["refcount"] \in Nat
      /\ h["fd"] \in Nat
  BY <1>1 DEF Counts
<1>3. Accounts(k, s, u, h, g, X)
  BY <1>2, Lemma_Accounts
<1> DEFINE Upheld == /\ \A x \in Whole(k) \ Refs : g[x] = h[x]
                   /\ \E W \in SUBSET (X \cup Share(k, s[1].proc)) :
                        Stays(k, s, u, W) /\ Fair(g, v, W, Z)
<1>4. ASSUME NEW W \in SUBSET (X \cup Share(k, s[1].proc)), Stays(k, s, u, W),
             Fair(g, v, W, Z), \A x \in Whole(k) \ Refs : g[x] = h[x]
      PROVE  Upheld
  BY <1>4
<1> HIDE DEF Upheld
<1>5. CASE Stays(k, s, u, X) /\ QSame(h, g)
  <2>1. \A x \in Watched : g[x] = h[x]
    BY <1>5 DEF QSame
  <2>2. Fair(g, v, X, Z) /\ \A x \in Whole(k) \ Refs : g[x] = h[x]
    BY <1>1, <2>1 DEF Fair
  <2> QED
    BY <1>4, <1>5, <2>2 DEF Upheld
<1>6. ASSUME NEW x \in {"attach", "refcount"},
             "dmabuf" \in X, x \notin X, x \in Share(k, s[1].proc),
             Stays(k, s, u, X \cup {x}),
             \A y \in Watched : g[y] = IF y = x THEN h[y] + 1 ELSE h[y]
      PROVE  Upheld
  <2> DEFINE W == X \cup {x}
  <2>1. \A y \in Whole(k) \ Refs : g[y] = h[y]
    BY <1>1, <1>6
  <2>2. /\ g["fd"] = h["fd"] /\ g["dmabuf"] = h["dmabuf"]
        /\ g["attach"] = IF x = "attach" THEN h["attach"] + 1 ELSE h["attach"]
        /\ g["refcount"] = IF x = "refcount" THEN h["refcount"] + 1
                           ELSE h["refcount"]
    BY <1>1, <1>6
  <2>3. /\ (("dmabuf" \in W) <=> ("dmabuf" \in X))
        /\ (("attach" \in W) <=> ("attach" \in X \/ x = "attach"))
        /\ (("refcount" \in W) <=> ("refcount" \in X \/ x = "refcount"))
        /\ W \in SUBSET (X \cup Share(k, s[1].proc))
    BY <1>6
  <2> HIDE DEF W
  <2>4. Fair(g, v, W, Z)
    <3>1. CASE x = "attach"
      <4>1. /\ g["attach"] = h["attach"] + 1 /\ g["refcount"] = h["refcount"]
            /\ "attach" \in W /\ "attach" \notin X
            /\ (("refcount" \in W) <=> ("refcount" \in X))
        BY <1>6, <2>2, <2>3, <3>1
      <4>2. /\ One("attach" \in W) = 1 /\ One("attach" \in X) = 0
            /\ One("attach" \in Z) \in Nat
            /\ One("dmabuf" \in W) = One("dmabuf" \in X)
            /\ One("refcount" \in W) = One("refcount" \in X)
            /\ One("dmabuf" \in X) \in Nat /\ One("dmabuf" \in Z) \in Nat
            /\ One("refcount" \in X) \in Nat /\ One("refcount" \in Z) \in Nat
        BY <1>6, <2>3, <4>1
      <4> HIDE DEF One
      <4> QED
        BY <1>2, <2>2, <4>1, <4>2 DEF Fair
    <3>2. CASE x = "refcount"
      <4>1. /\ g["attach"] = h["attach"] /\ g["refcount"] = h["refcount"] + 1
            /\ "refcount" \in W /\ "refcount" \notin X
            /\ (("attach" \in W) <=> ("attach" \in X))
        BY <1>6, <2>2, <2>3, <3>2
      <4> QED
        BY <1>2, <1>6, <2>2, <2>3, <4>1 DEF Fair
    <3> QED
      BY <3>1, <3>2
  <2> QED
    BY <1>4, <1>6, <2>1, <2>3, <2>4 DEF W
<1>7. CASE "dmabuf" \in X /\ "attach" \in X /\ Lowers(h, g, "attach")
           /\ Stays(k, s, u, X \ {"attach"})
  <2> DEFINE W == X \ {"attach"}
  <2>1. \A y \in Whole(k) \ Refs : g[y] = h[y]
    BY <1>1, <1>7 DEF Lowers
  <2>2. h["attach"] > 0
    BY <1>2, <1>7 DEF Fair
  <2>3. /\ g["fd"] = h["fd"] /\ g["dmabuf"] = h["dmabuf"]
        /\ g["attach"] = h["attach"] - 1 /\ g["refcount"] = h["refcount"]
    BY <1>1, <1>7, <2>2 DEF Lowers
  <2>4. /\ "dmabuf" \in W /\ "attach" \notin W
        /\ (("refcount" \in W) <=> ("refcount" \in X))
        /\ W \in SUBSET (X \cup Share(k, s[1].proc))
    BY <1>7
  <2> HIDE DEF W
  <2>5. Fair(g, v, W, Z)
    BY <1>2, <1>7, <2>2, <2>3, <2>4 DEF Fair
  <2> QED
    BY <1>4, <1>7, <2>1, <2>4, <2>5 DEF W, Upheld
<1>8. CASE /\ "dmabuf" \in X /\ "refcount" \in X /\ Lowers(h, g, "refcount")
           /\ h["refcount"] # 1 => Stays(k, s, u, X \ {"refcount"})
  <2> DEFINE W == X \ {"refcount"}
  <2>1. \A y \in Whole(k) \ Refs : g[y] = h[y]
    BY <1>1, <1>8 DEF Lowers
  <2>2. h["refcount"] > 1
    BY <1>2, <1>8 DEF Fair
  <2>3. /\ g["fd"] = h["fd"] /\ g["dmabuf"] = h["dmabuf"]
        /\ g["attach"] = h["attach"] /\ g["refcount"] = h["refcount"] - 1
    BY <1>1, <1>2, <1>8, <2>2 DEF Lowers
  <2>4. /\ "dmabuf" \in W /\ "refcount" \notin W
        /\ (("attach" \in W) <=> ("attach" \in X))
        /\ W \in SUBSET (X \cup Share(k, s[1].proc))
    BY <1>8
  <2>5. Stays(k, s, u, W)
    BY <1>2, <1>8, <2>2
  <2> HIDE DEF W
  <2>6. Fair(g, v, W, Z)
    BY <1>2, <1>8, <2>2, <2>3, <2>4 DEF Fair
  <2> QED
    BY <1>4, <2>1, <2>4, <2>5, <2>6 DEF Upheld
<1>9. CASE /\ X = {"dmabuf"} /\ Lowers(h, g, "dmabuf") /\ Harmless(k, u)
           /\ h["dmabuf"] # 1 => Stays(k, s, u, {})
  <2>1. /\ g["fd"] = h["fd"] /\ g["attach"] = h["attach"]
        /\ g["refcount"] = h["refcount"]
        /\ \A y \in Whole(k) \ Refs : g[y] = h[y]
    BY <1>1, <1>9 DEF Lowers
  <2>2. "dmabuf" \in X /\ "attach" \notin X /\ "refcount" \notin X
    BY <1>9
  <2>3. h["dmabuf"] > 0
    BY <1>2, <2>2 DEF Fair
  <2>4. g["dmabuf"] = h["dmabuf"] - 1
    BY <1>1, <1>9, <2>3 DEF Lowers
  <2>5. CASE h["dmabuf"] # 1
    <3>1. Fair(g, v, {}, Z)
      BY <1>2, <2>1, <2>2, <2>3, <2>4 DEF Fair
    <3>2. Upheld
      BY <1>4, <1>9, <2>1, <2>5, <3>1
    <3> QED
      BY <3>2 DEF Upheld
  <2>6. CASE h["dmabuf"] = 1
    <3>1. "dmabuf" \notin Z /\ v = 0 /\ h["fd"] = 0
          /\ h["attach"] = One("attach" \in Z)
      BY <1>2, <2>2, <2>6 DEF Fair
    <3> QED
      BY <1>9, <2>1, <3>1
  <2> QED
    BY <2>5, <2>6
<1> QED
  BY <1>3, <1>5, <1>6, <1>7, <1>8, <1>9 DEF Accounts, Upheld

\* The balance, from either side.
LEMMA Lemma_Balance ==
  ASSUME NEW h, NEW v \in Nat, NEW X, NEW Y, Counts(h), "attach" \notin Y
  PROVE  /\ Balance(h, v, X, Y) <=> Fair(h, v, X, Y)
         /\ Balance(h, v, X, Y) <=> Fair(h, v, Y, X)
<1>1. /\ h["attach"] \in Nat /\ h["dmabuf"] \in Nat /\ h["refcount"] \in Nat
      /\ h["fd"] \in Nat
  BY DEF Counts, Watched, Refs, Stock
<1>2. /\ One("attach" \in Y) = 0 /\ One("attach" \in X) \in Nat
      /\ One("dmabuf" \in X) \in Nat /\ One("dmabuf" \in Y) \in Nat
      /\ One("refcount" \in X) \in Nat /\ One("refcount" \in Y) \in Nat
  BY DEF One
<1> QED
  BY <1>1, <1>2 DEF Balance, Fair

\* A function that has made a buffer returns to the ioctl.
LEMMA Lemma_Made ==
  ASSUME NEW k \in Qdmabuf!Kinds, NEW s \in Seq(QFrames), NEW u, NEW h, NEW g,
         Made(k, s), QSteps(k, s, u, h, g)
  PROVE  Ready(k, u) /\ QSame(h, g)
<1> DEFINE f == s[1]
           b == s[2]
           x == Qdmabuf!U!Onward(b)
<1>1. /\ Len(s) = 2 /\ b.proc = "qdmabuf_ioctl_alloc" /\ b.at = AllocAt[k]
      /\ f.proc = AllocOf[k] /\ f.result = "ok" /\ ~Busy(f)
  BY DEF Made, InAlloc
<1>2. f.proc # "qdmabuf_ioctl_info"
  BY <1>1 DEF AllocOf, Qdmabuf!Kinds
<1>3. QReturns(s, u, h, g)
  BY <1>1, <1>2
  DEF QSteps, QGets, QRefuses, QSkips, QCalls, QDrops, QFalls, QLeaves
<1>4. Popped(s, u, x) /\ QSame(h, g) /\ b \in QFrames
  BY <1>1, <1>3 DEF QReturns
<1>5. x = [b EXCEPT !.at = @ + 1]
  BY <1>4, Lemma_QFrames
<1>6. x.proc = "qdmabuf_ioctl_alloc" /\ x.at = AllocAt[k] + 1
  BY <1>1, <1>4, <1>5 DEF QFrames
<1>7. x.at > AllocAt[k]
  BY <1>6, Lemma_ioctl_alloc
<1>8. Dull(k, x)
  BY <1>6, <1>7 DEF Dull
<1> HIDE DEF x
<1>9. Len(u) = 1 /\ u[1] = x
  BY <1>1, <1>4 DEF Popped
<1> QED
  BY <1>4, <1>6, <1>8, <1>9 DEF Ready

\* The ioctl ends.
LEMMA Lemma_Ready ==
  ASSUME NEW k \in Qdmabuf!Kinds, NEW s \in Seq(QFrames), NEW u, NEW h, NEW g,
         Ready(k, s), QSteps(k, s, u, h, g)
  PROVE  (Ready(k, u) \/ u = << >>) /\ QSame(h, g)
<1> DEFINE f == s[1]
           c == Qdmabuf!Code["qdmabuf_ioctl_alloc"]
           a == Qdmabuf!U!Onward(f)
           b == Qdmabuf!U!Cleanup(f)
<1>1. Len(s) = 1 /\ f.proc = "qdmabuf_ioctl_alloc" /\ Dull(k, f)
      /\ f \in QFrames
  <2>1. Len(s) = 1
    BY DEF Ready
  <2>2. s # << >>
    BY <2>1, ListEmpty
  <2> QED
    BY <2>1, <2>2, StackEnd DEF Ready
<1>2. f.phase \in {"get", "put"} /\ f.at \in Nat \ {0}
  BY <1>1 DEF QFrames
<1>3. f.phase = "put" \/ f.at > AllocAt[k]
  BY <1>1 DEF Dull, Idlers, Callers, AppCalls, OtherCalls, Putters
<1>4. /\ AllocAt[k] \in 2 .. 4 /\ Len(c.get) = 5 /\ c.put = << >>
      /\ \A i \in 1 .. 5 :
           /\ ~c.get[i].drop
           /\ i # AllocAt[k] =>
                c.get[i].what \in {"copy_in", "copy_out"} \cup Foreign(k)
  BY Lemma_ioctl_alloc
<1>5. Busy(f) => f.phase = "get"
  <2>1. Len(c.put) = 0
    BY <1>4, ListEmpty
  <2> QED
    BY <1>1, <1>2, <2>1 DEF Busy
<1>6. Busy(f) => /\ At(f) \in {"copy_in", "copy_out"} \cup Foreign(k)
                 /\ ~Qdmabuf!Code[f.proc].get[f.at].drop
  <2> SUFFICES ASSUME Busy(f)
               PROVE  /\ At(f) \in {"copy_in", "copy_out"} \cup Foreign(k)
                      /\ ~Qdmabuf!Code[f.proc].get[f.at].drop
    OBVIOUS
  <2>1. f.phase = "get"
    BY <1>5
  <2>2. f.at <= Len(c.get)
    BY <1>1, <2>1 DEF Busy
  <2>3. f.at \in 1 .. 5 /\ f.at # AllocAt[k]
    BY <1>2, <1>3, <1>4, <2>1, <2>2
  <2> QED
    BY <1>1, <1>4, <2>1, <2>3 DEF At
<1>7. {"copy_in", "copy_out"} \cap Watched = {}
      /\ {"copy_in", "copy_out"} \cap DOMAIN Qdmabuf!Code = {}
  BY Lemma_WatchedAre DEF Qdmabuf!Resources
<1>8. Foreign(k) \cap Qdmabuf!Resources = {}
  BY Lemma_WatchedAre
<1>9. ASSUME NEW x, TopIs(s, u, x), x = a \/ x = b, f.phase = "get"
      PROVE  Ready(k, u)
  <2>1. a \in QFrames /\ a = [f EXCEPT !.at = @ + 1] /\ b.proc = f.proc
    BY <1>1, Lemma_QFrames
  <2>2. a.proc = f.proc /\ a = [f EXCEPT !.at = f.at + 1]
    BY <1>1, <2>1 DEF QFrames
  <2>3. Dull(k, a) /\ Dull(k, b)
    <3>1. f.at + 1 \in Nat /\ f.at + 1 >= f.at
      BY <1>2
    <3> QED
      BY <1>1, <1>9, <2>2, <3>1, Lemma_Dull
  <2> QED
    BY <1>1, <1>9, <2>1, <2>2, <2>3 DEF Ready, TopIs
<1> HIDE DEF f, a, b
<1>11. CASE QGets(s, u, h, g)
  <2>1. /\ Busy(f) /\ f.phase = "get" /\ At(f) \in Qdmabuf!Resources
        /\ TopIs(s, u, a)
        /\ \A x \in Watched : g[x] = IF x = At(f) THEN h[x] + 1 ELSE h[x]
    BY <1>11 DEF QGets, f, a
  <2>2. At(f) \notin Watched
    BY <1>6, <1>7, <1>8, <2>1
  <2> QED
    BY <1>9, <2>1, <2>2 DEF QSame
<1>12. CASE QRefuses(s, u, h, g)
  BY <1>9, <1>12 DEF QRefuses, f, b
<1>13. CASE QSkips(k, s, u, h, g)
  BY <1>5, <1>9, <1>13 DEF QSkips, f, a
<1>14. CASE QCalls(k, s, u, h, g)
  <2>1. Busy(f) /\ At(f) \in DOMAIN Qdmabuf!Code \ Foreign(k)
    BY <1>14 DEF QCalls, f
  <2> QED
    BY <1>6, <1>7, <2>1
<1>15. CASE QDrops(s, u, h, g)
  <2>1. Busy(f) /\ (f.phase = "get" => Qdmabuf!Code[f.proc].get[f.at].drop)
    BY <1>15 DEF QDrops, f
  <2> QED
    BY <1>5, <1>6, <2>1
<1>16. CASE QFalls(s, u, h, g)
  BY <1>1, <1>16 DEF QFalls, f
<1>17. CASE QLeaves(s, u, h, g)
  BY <1>17 DEF QLeaves
<1>18. CASE QReturns(s, u, h, g)
  BY <1>1, <1>18 DEF QReturns
<1> QED
  BY <1>11, <1>12, <1>13, <1>14, <1>15, <1>16, <1>17, <1>18 DEF QSteps

-----------------------------------------------------------------------------
(* Whoever uses the buffer, before and after a step.                       *)

\* Neither of the other calls is near its end then.
Mapped(s) ==
  Len(s) = 1 /\ ~Busy(s[1]) /\ s[1].result = "ok"
  /\ s[1].proc \in {"mmap", "fork"}

\* A call that has just made a map returns to its process next.
LEMMA Lemma_Mapped ==
  ASSUME NEW k, NEW s, NEW u, NEW h, NEW g, QSteps(k, s, u, h, g), Mapped(s)
  PROVE  QLeaves(s, u, h, g)
BY DEF Mapped, QSteps, QGets, QRefuses, QSkips, QCalls, QDrops, QFalls,
   QReturns

\* While there is a buffer the process that makes one, or an importer, leaves
\* it in use or nobody uses it.
LEMMA Lemma_UsersApp ==
  ASSUME NEW k \in Qdmabuf!Kinds, NEW a \in Seq(QFrames), a # << >>, NEW o,
         NEW h, NEW g, NEW v \in Nat, NEW X \in SUBSET Refs,
         NEW Y \in SUBSET Refs, Users(k, a, o, h, v, X, Y), Counts(h), NEW u,
         QSteps(k, a, u, h, g)
  PROVE  \/ \E W \in SUBSET Refs : Users(k, u, o, g, v, W, Y)
         \/ Nobody(k, u, o, g, v)
<1>1. /\ Account(k, o, Y) /\ Balance(h, v, X, Y) /\ "attach" \notin Y
      /\ InStock(k, h)
      /\ \A i \in 1 .. Len(o) : "attach" \notin Share(k, o[i].proc)
  BY DEF Users, Balance
<1>2. ("dmabuf" \in Y \/ Y = {}) /\ ("dmabuf" \notin Y => Harmless(k, o))
  BY <1>1 DEF Account
<1>3. /\ Whole(k) \ Refs \subseteq Watched
      /\ {"attach", "refcount", "dmabuf", "fd"} \subseteq Watched
  BY Lemma_Stock
<1>4. (\A x \in Whole(k) \ Refs : g[x] = h[x]) => InStock(k, g)
  BY <1>1 DEF InStock
<1>5. QSame(h, g) => /\ InStock(k, g) /\ Counts(g)
                     /\ \A V : Balance(h, v, V, Y) => Balance(g, v, V, Y)
  BY <1>3, <1>4 DEF QSame, Counts, Balance
<1>6. Balance(h, v, X, Y) /\ ("dmabuf" \in X \/ X = {}) => Balance(h, v, {}, Y)
  <2> SUFFICES ASSUME Balance(h, v, X, Y), "dmabuf" \in X \/ X = {}
               PROVE  Balance(h, v, {}, Y)
    OBVIOUS
  <2>1. /\ h["attach"] \in Nat /\ h["dmabuf"] \in Nat /\ h["refcount"] \in Nat
        /\ h["fd"] \in Nat
    BY <1>3 DEF Counts
  <2>2. /\ One("attach" \in {}) = 0 /\ One("dmabuf" \in {}) = 0
        /\ One("refcount" \in {}) = 0
        /\ One("attach" \in X) \in Nat /\ One("refcount" \in X) \in Nat
        /\ One("dmabuf" \in X) \in Nat
        /\ One("attach" \in X) <= One("dmabuf" \in X)
        /\ One("dmabuf" \in Y) \in Nat /\ One("refcount" \in Y) \in Nat
    BY DEF One
  <2> DEFINE ax == One("attach" \in X)
             dx == One("dmabuf" \in X)
             rx == One("refcount" \in X)
             dy == One("dmabuf" \in Y)
             ry == One("refcount" \in Y)
             ha == h["attach"]
             hd == h["dmabuf"]
             hr == h["refcount"]
             hf == h["fd"]
  <2>3. /\ ha >= ax /\ hd >= hf + v + (ha - ax) + dx + dy
        /\ hr >= 1 + v + rx + ry
    BY DEF Balance
  <2>6. ha \in Nat /\ hd \in Nat /\ hr \in Nat /\ hf \in Nat
    BY <2>1
  <2> HIDE DEF ax, dx, rx, dy, ry, ha, hd, hr, hf
  <2>4. ax \in Nat /\ dx \in Nat /\ rx \in Nat /\ dy \in Nat /\ ry \in Nat
        /\ ax <= dx
    BY <2>2 DEF ax, dx, rx, dy, ry
  <2>5. ha >= 0 /\ hd >= hf + v + (ha - 0) + 0 + dy /\ hr >= 1 + v + 0 + ry
    BY <2>3, <2>4, <2>6
  <2>7. "attach" \notin Y
    BY DEF Balance
  <2> QED
    BY <2>2, <2>5, <2>7 DEF Balance, dy, ry, ha, hd, hr, hf
<1>7. CASE Made(k, a) /\ X = {}
  <2>1. Ready(k, u) /\ QSame(h, g)
    BY <1>7, Lemma_Made
  <2>2. Users(k, u, o, g, v, {}, Y)
    BY <1>1, <1>5, <1>7, <2>1 DEF Users
  <2> QED
    BY <2>2
<1>8. CASE Ready(k, a) /\ X = {}
  <2>1. (Ready(k, u) \/ u = << >>) /\ QSame(h, g)
    BY <1>8, Lemma_Ready
  <2>2. Ready(k, u) \/ Account(k, u, {})
    BY <2>1, Lemma_NoAccount
  <2>3. Users(k, u, o, g, v, {}, Y)
    BY <1>1, <1>5, <1>8, <2>1, <2>2 DEF Users
  <2> QED
    BY <2>3
<1>9. CASE Account(k, a, X) /\ QLeaves(a, u, h, g)
  <2>1. u = << >> /\ QSame(h, g)
    BY <1>9 DEF QLeaves
  <2>2. Account(k, u, {})
    BY <2>1, Lemma_NoAccount
  <2>3. Balance(g, v, {}, Y)
    BY <1>1, <1>5, <1>6, <1>9, <2>1 DEF Account
  <2>4. Users(k, u, o, g, v, {}, Y)
    BY <1>1, <1>5, <2>1, <2>2, <2>3 DEF Users
  <2> QED
    BY <2>4
<1>10. CASE Account(k, a, X) /\ ~QLeaves(a, u, h, g)
  <2>1. Fair(h, v, X, Y)
    BY <1>1, Lemma_Balance
  <2> DEFINE P == \E W \in SUBSET (X \cup Share(k, a[1].proc)) :
                    Stays(k, a, u, W) /\ Fair(g, v, W, Y)
             R == /\ Harmless(k, u) /\ "dmabuf" \notin Y /\ v = 0
                  /\ g["fd"] = 0 /\ g["attach"] = 0
  <2>2. ((\A x \in Whole(k) \ Refs : g[x] = h[x]) /\ P) \/ R
    BY <1>2, <1>10, <2>1, Lemma_Fair
  <2>3. ASSUME \A x \in Whole(k) \ Refs : g[x] = h[x],
               NEW W \in SUBSET (X \cup Share(k, a[1].proc)),
               Stays(k, a, u, W), Fair(g, v, W, Y)
        PROVE  Users(k, u, o, g, v, W, Y) /\ W \in SUBSET Refs
    <3>1. W \in SUBSET Refs
      BY Lemma_Shares
    <3>2. Balance(g, v, W, Y)
      BY <1>1, <2>3 DEF Balance, Fair, One
    <3> QED
      BY <1>1, <1>4, <2>3, <3>1, <3>2 DEF Users, Stays
  <2>4. R => Nobody(k, u, o, g, v)
    BY <1>2 DEF Nobody
  <2> HIDE DEF R
  <2> QED
    BY <2>2, <2>3, <2>4
<1> QED
  BY <1>7, <1>8, <1>9, <1>10 DEF Users

\* So does a process that maps it, forks or unmaps it, or closes its
\* descriptor; when it leaves, it may have one more map.
LEMMA Lemma_UsersOther ==
  ASSUME NEW k \in Qdmabuf!Kinds, NEW o \in Seq(QFrames), o # << >>,
         NEW a, NEW h, NEW g, NEW v \in Nat, NEW X \in SUBSET Refs,
         NEW Y \in SUBSET Refs, Users(k, a, o, h, v, X, Y), Counts(h),
         Counts(g),
         NEW u, QSteps(k, o, u, h, g), NEW w, w = IF Mapped(o) THEN v + 1
           ELSE v
  PROVE  \/ \E W \in SUBSET Refs : Users(k, a, u, g, w, X, W)
         \/ Nobody(k, a, u, g, w)
<1>1. /\ Account(k, o, Y) /\ Balance(h, v, X, Y) /\ "attach" \notin Y
      /\ InStock(k, h)
      /\ \A i \in 1 .. Len(o) : "attach" \notin Share(k, o[i].proc)
      /\ Account(k, a, X) \/ ((Made(k, a) \/ Ready(k, a)) /\ X = {})
  BY DEF Users, Balance
<1>2. "dmabuf" \in X \/ X = {}
  BY <1>1 DEF Account
<1>3. "dmabuf" \notin X => Harmless(k, a) \/ Made(k, a)
  <2>1. Ready(k, a) => Harmless(k, a)
    <3>1. \A i \in 1 .. 1 : i = 1
      OBVIOUS
    <3> QED
      BY <3>1 DEF Ready, Harmless
  <2> QED
    BY <1>1, <2>1 DEF Account
<1>4. /\ Whole(k) \ Refs \subseteq Watched
      /\ {"attach", "refcount", "dmabuf", "fd"} \subseteq Watched
  BY Lemma_Stock
<1>5. (\A x \in Whole(k) \ Refs : g[x] = h[x]) => InStock(k, g)
  BY <1>1 DEF InStock
<1>6. Len(o) \in Nat /\ Len(o) >= 1 /\ o[1] \in QFrames /\ 1 \in 1 .. Len(o)
  <2>1. Len(o) \in Nat /\ Len(o) >= 1
        /\ \A i \in 1 .. Len(o) : o[i] \in QFrames
    BY StackEnd
  <2> QED
    BY <2>1
<1>7. CASE QLeaves(o, u, h, g)
  <2>1. u = << >> /\ QSame(h, g) /\ ~Busy(o[1]) /\ Len(o) = 1
    BY <1>7 DEF QLeaves
  <2>2. Account(k, u, {}) /\ Len(u) = 0
    BY <2>1, Lemma_NoAccount, ListEmpty
  <2>3. InStock(k, g)
    BY <1>4, <1>5, <2>1 DEF QSame
  <2>4. Mapped(o) => Y = {"dmabuf", "refcount"}
    <3> SUFFICES ASSUME Mapped(o) PROVE Y = {"dmabuf", "refcount"}
      OBVIOUS
    <3> DEFINE f == o[1]
    <3>1. /\ f.proc \in {"mmap", "fork"} /\ f.result = "ok"
          /\ Entry(k, f) /\ f.phase \in {"get", "put"}
      BY <1>1, <1>6 DEF Mapped, Account, Ledger, QFrames
    <3>2. Y = Assets(k, f)
      <4>1. Deeper(k, o, 2) = {}
        BY <2>1 DEF Deeper
      <4>2. Claims(k, o) = Assets(k, f) \cup Deeper(k, o, 2)
        BY <1>1, Lemma_Deeper DEF Account
      <4>3. Y = Claims(k, o)
        BY <1>1 DEF Account
      <4> QED
        BY <4>1, <4>2, <4>3
    <3>3. f.phase = "get"
      <4>1. Qdmabuf!Code[f.proc].get # << >>
        <5>1. Len(Qdmabuf!Code[f.proc].get) # 0
          BY <3>1, Lemma_Bodies
        <5> QED
          BY <5>1, ListEmpty
      <4>2. ~Qdmabuf!Code[f.proc].through
        BY <1>6, <3>1, Lemma_Shaped DEF QFrames
      <4>3. f.proc \notin Idlers
        BY <3>1, Lemma_Foreign DEF Callers, OtherCalls
      <4> QED
        BY <3>1, <4>1, <4>2, <4>3 DEF Entry
    <3>4. Assets(k, f) = Share(k, f.proc)
      BY <1>6, <2>1, <3>1, <3>3, Lemma_EntryEnd
    <3> QED
      BY <3>1, <3>2, <3>4, Lemma_Shares DEF OtherCalls
  <2>5. Balance(g, w, X, {})
    <3>1. /\ h["attach"] \in Nat /\ h["dmabuf"] \in Nat
          /\ h["refcount"] \in Nat
          /\ h["fd"] \in Nat
          /\ g["attach"] = h["attach"] /\ g["dmabuf"] = h["dmabuf"]
          /\ g["refcount"] = h["refcount"] /\ g["fd"] = h["fd"]
      BY <1>4, <2>1 DEF Counts, QSame
    <3>3. /\ One("dmabuf" \in {}) = 0 /\ One("refcount" \in {}) = 0
          /\ One("attach" \in X) \in Nat /\ One("refcount" \in X) \in Nat
          /\ One("dmabuf" \in X) \in Nat
          /\ One("dmabuf" \in Y) \in Nat /\ One("refcount" \in Y) \in Nat
      BY DEF One
    <3>4. Mapped(o) => One("dmabuf" \in Y) = 1 /\ One("refcount" \in Y) = 1
      BY <2>4 DEF One
    <3> DEFINE ax == One("attach" \in X)
               dx == One("dmabuf" \in X)
               rx == One("refcount" \in X)
               dy == One("dmabuf" \in Y)
               ry == One("refcount" \in Y)
               ha == h["attach"]
               hd == h["dmabuf"]
               hr == h["refcount"]
               hf == h["fd"]
    <3>5. /\ ha >= ax /\ hd >= hf + v + (ha - ax) + dx + dy
          /\ hr >= 1 + v + rx + ry
      BY <1>1 DEF Balance
    <3>6. ax \in Nat /\ ha \in Nat /\ hd \in Nat /\ hr \in Nat /\ hf \in Nat
      BY <3>1 DEF One
    <3> HIDE DEF ax, dx, rx, dy, ry, ha, hd, hr, hf
    <3>7. dx \in Nat /\ rx \in Nat /\ dy \in Nat /\ ry \in Nat
      BY <3>3 DEF dx, rx, dy, ry
    <3>8. (w = v + 1 /\ dy = 1 /\ ry = 1) \/ w = v
      BY <3>4 DEF dy, ry
    <3>9. hd >= hf + w + (ha - ax) + dx + 0 /\ hr >= 1 + w + rx + 0
      BY <3>5, <3>6, <3>7, <3>8
    <3>2. Balance(h, w, X, {})
      <4>1. "attach" \notin {}
        OBVIOUS
      <4> QED
        BY <3>3, <3>5, <3>9, <4>1 DEF Balance, ax, dx, rx, ha, hd, hr, hf
    <3> QED
      BY <3>1, <3>2 DEF Balance
  <2>6. \A i \in 1 .. Len(u) : FALSE
    BY <2>2
  <2>7. Users(k, a, u, g, w, X, {})
    BY <1>1, <2>2, <2>3, <2>5, <2>6 DEF Users
  <2> QED
    BY <2>7
<1>8. CASE ~QLeaves(o, u, h, g)
  <2>1. w = v /\ Fair(h, v, Y, X)
    BY <1>1, <1>8, Lemma_Mapped, Lemma_Balance
  <2> DEFINE P == \E W \in SUBSET (Y \cup Share(k, o[1].proc)) :
                    Stays(k, o, u, W) /\ Fair(g, v, W, X)
             R == /\ Harmless(k, u) /\ "dmabuf" \notin X /\ v = 0
                  /\ g["fd"] = 0 /\ g["attach"] = 0
  <2>2. ((\A x \in Whole(k) \ Refs : g[x] = h[x]) /\ P) \/ R
    BY <1>1, <1>2, <1>8, <2>1, Lemma_Fair
  <2>3. ASSUME \A x \in Whole(k) \ Refs : g[x] = h[x],
               NEW W \in SUBSET (Y \cup Share(k, o[1].proc)),
               Stays(k, o, u, W), Fair(g, v, W, X)
        PROVE  Users(k, a, u, g, w, X, W) /\ W \in SUBSET Refs
    <3>1. W \in SUBSET Refs
      BY Lemma_Shares
    <3>2. "attach" \notin W
      BY <1>1, <1>6
    <3>4. Balance(g, v, X, W)
      BY <2>3, <3>2, Lemma_Balance
    <3>5. \A i \in 1 .. Len(u) : "attach" \notin Share(k, u[i].proc)
      BY <1>1, <2>3 DEF Stays, Within
    <3> QED
      BY <1>1, <1>5, <2>1, <2>3, <3>1, <3>4, <3>5 DEF Users, Stays
  <2>4. R => Nobody(k, a, u, g, w)
    BY <1>3, <2>1 DEF Nobody
  <2> HIDE DEF R
  <2> QED
    BY <2>2, <2>3, <2>4
<1> QED
  BY <1>7, <1>8

\* What the steps of an allocation lead to: the buffer is not there yet, or
\* will not be, or it is.
Whole0(k, h, g) == g["fd"] = h["fd"] + 1 /\ \A r \in Whole(k) : g[r] >= 1
-----------------------------------------------------------------------------
(* The buffer while it is being made.                                      *)

Advances(k, u, h, g) ==
  /\ g["attach"] = h["attach"]
  /\ \/ (Making(k, u, g) \/ Harmless(k, u)) /\ g["fd"] = h["fd"]
     \/ Made(k, u) /\ Whole0(k, h, g)

\* A frame of a function that makes a buffer, and releases, does no harm; nor
\* does the ioctl once it has been called.
LEMMA Lemma_MakersDull ==
  ASSUME NEW k \in Qdmabuf!Kinds
  PROVE  /\ \A f : f.phase = "put" /\ f.proc \in Makers => Dull(k, f)
         /\ AllocOf[k] \in Makers /\ "qdmabuf_ioctl_alloc" \in Makers
         /\ AllocOf[k] \in DOMAIN Qdmabuf!Code \ Foreign(k)
         /\ AllocOf[k] # "qdmabuf_ioctl_info"
         /\ AllocOf[k] # "qdmabuf_ioctl_alloc"
         /\ "exp_dma_sg_alloc_compacted" \in DOMAIN Qdmabuf!Code \ Foreign(k)
         /\ Makers \subseteq DOMAIN Qdmabuf!Code
<1>1. AllocOf[k] \in Makers /\ AllocOf[k] \notin Foreign(k)
      /\ AllocOf[k] # "qdmabuf_ioctl_info"
      /\ AllocOf[k] # "qdmabuf_ioctl_alloc"
      /\ "exp_dma_sg_alloc_compacted" \notin Foreign(k)
  <2> USE DEF AllocOf, Foreign, Qdmabuf!Of, Qdmabuf!Kinds, Makers
  <2>1. CASE k = "vmalloc"
    BY <2>1
  <2>2. CASE k = "dma_sg"
    BY <2>2
  <2>3. CASE k = "dma_contig"
    BY <2>3
  <2> QED
    BY <2>1, <2>2, <2>3
<1>2. Makers \subseteq DOMAIN Qdmabuf!Code
  BY Lemma_Functions DEF Others
<1>3. {"exp_dma_sg_alloc_compacted", "qdmabuf_ioctl_alloc"} \subseteq Makers
  BY DEF Makers
<1> QED
  BY <1>1, <1>2, <1>3 DEF Dull

\* What happens to a frame that goes on or cleans up.
LEMMA Lemma_After ==
  ASSUME NEW f \in QFrames
  PROVE  LET a == Qdmabuf!U!Onward(f)
             b == Qdmabuf!U!Cleanup(f)
             s == Qdmabuf!Code[f.proc].get[f.at] IN
         /\ a.proc = f.proc /\ a.phase = f.phase /\ a.result = f.result
         /\ a.at = f.at + 1
         /\ s.label # "continue" =>
              /\ b.proc = f.proc /\ b.phase = "put"
              /\ b.result = IF s.quiet THEN "ok" ELSE "err"
BY DEF QFrames, Qdmabuf!U!Onward, Qdmabuf!U!Cleanup

\* The ioctl, before it calls the function of its kind.
LEMMA Lemma_Starting ==
  ASSUME NEW k \in Qdmabuf!Kinds, NEW s \in Seq(QFrames), NEW u, NEW h, NEW g,
         Starting(k, s), QSteps(k, s, u, h, g)
  PROVE  Advances(k, u, h, g)
<1> DEFINE f == s[1]
           c == Qdmabuf!Code["qdmabuf_ioctl_alloc"]
           a == Qdmabuf!U!Onward(f)
           b == Qdmabuf!U!Cleanup(f)
<1>1. /\ Len(s) = 1 /\ f.proc = "qdmabuf_ioctl_alloc" /\ f.phase = "get"
      /\ f.at <= AllocAt[k] /\ f \in QFrames /\ f.at \in Nat \ {0}
  <2>1. Len(s) = 1
    BY DEF Starting
  <2>2. s # << >>
    BY <2>1, ListEmpty
  <2>3. f \in QFrames
    BY <2>1, <2>2, StackEnd
  <2> QED
    BY <2>1, <2>3 DEF Starting, QFrames
<1>2. /\ AllocAt[k] \in 2 .. 4 /\ Len(c.get) = 5
      /\ c.get[AllocAt[k]].what = AllocOf[k]
      /\ \A i \in 1 .. 5 :
           /\ c.get[i].label = "return" /\ ~c.get[i].drop
           /\ i # AllocAt[k] =>
                c.get[i].what \in {"copy_in", "copy_out"} \cup Foreign(k)
  BY Lemma_ioctl_alloc
<1>3. f.at \in 1 .. 5
  BY <1>1, <1>2
<1>4. /\ Busy(f) /\ At(f) = c.get[f.at].what
      /\ Qdmabuf!Code[f.proc].get[f.at].label = "return"
      /\ ~Qdmabuf!Code[f.proc].get[f.at].drop
  BY <1>1, <1>2, <1>3 DEF Busy, At
<1>5. /\ a.proc = f.proc /\ a.phase = "get" /\ a.at = f.at + 1
      /\ b.proc = f.proc /\ b.phase = "put"
  BY <1>1, <1>4, Lemma_After
<1>6. {"copy_in", "copy_out"} \cap Watched = {}
      /\ {"copy_in", "copy_out"} \cap DOMAIN Qdmabuf!Code = {}
      /\ Foreign(k) \cap Qdmabuf!Resources = {}
      /\ DOMAIN Qdmabuf!Code \cap Qdmabuf!Resources = {}
      /\ {"fd", "attach"} \subseteq Watched
  BY Lemma_WatchedAre DEF Qdmabuf!Resources, Watched, Refs, Stock
<1>7. AllocOf[k] \in DOMAIN Qdmabuf!Code \ Foreign(k)
  BY Lemma_MakersDull
<1>8. ASSUME f.at # AllocAt[k], TopIs(s, u, a) PROVE Starting(k, u)
  <2>1. f.at + 1 <= AllocAt[k]
    BY <1>1, <1>2, <1>8
  <2> QED
    BY <1>1, <1>5, <1>8, <2>1 DEF Starting, TopIs
<1>9. QSame(h, g) => g["fd"] = h["fd"] /\ g["attach"] = h["attach"]
  BY <1>6 DEF QSame
<1> HIDE DEF f, a, b, c
<1>11. CASE QGets(s, u, h, g)
  <2>1. /\ At(f) \in Qdmabuf!Resources /\ TopIs(s, u, a)
        /\ \A x \in Watched : g[x] = IF x = At(f) THEN h[x] + 1 ELSE h[x]
    BY <1>11 DEF QGets, f, a
  <2>2. f.at # AllocAt[k] /\ At(f) \notin Watched
    BY <1>2, <1>3, <1>4, <1>6, <1>7, <2>1
  <2>3. g["fd"] = h["fd"] /\ g["attach"] = h["attach"]
    BY <1>6, <2>1, <2>2
  <2> QED
    BY <1>8, <2>1, <2>2, <2>3 DEF Advances, Making
<1>12. CASE QRefuses(s, u, h, g)
  <2>1. TopIs(s, u, b) /\ QSame(h, g)
    BY <1>12 DEF QRefuses, f, b
  <2>2. Dull(k, b)
    BY <1>1, <1>5, Lemma_MakersDull
  <2>3. Harmless(k, u)
    <3>1. \A i \in 1 .. 1 : i = 1
      OBVIOUS
    <3> QED
      BY <1>1, <2>1, <2>2, <3>1 DEF Harmless, TopIs
  <2> QED
    BY <1>9, <2>1, <2>3 DEF Advances
<1>13. CASE QSkips(k, s, u, h, g)
  <2>1. At(f) \in Foreign(k) /\ TopIs(s, u, a) /\ QSame(h, g)
    BY <1>13 DEF QSkips, f, a
  <2>2. f.at # AllocAt[k]
    BY <1>2, <1>4, <1>7, <2>1
  <2> QED
    BY <1>8, <1>9, <2>1, <2>2 DEF Advances, Making
<1>14. CASE QCalls(k, s, u, h, g)
  <2> DEFINE x == Qdmabuf!U!Frame(At(f))
             d == Qdmabuf!Code[At(f)]
  <2>1. /\ At(f) \in DOMAIN Qdmabuf!Code \ Foreign(k) /\ Pushed(s, u, x)
        /\ QSame(h, g)
    BY <1>14 DEF QCalls, f
  <2>2. f.at = AllocAt[k] /\ At(f) = AllocOf[k]
    BY <1>2, <1>3, <1>4, <1>6, <2>1
  <2>3. Fills(k, d)
    BY <2>2, Lemma_Fills
  <2>4. d.get # << >> /\ Len(d.get) \in Nat \ {0}
    BY <2>3 DEF Fills
  <2>5. x.proc = At(f) /\ x.phase = "get" /\ x.at = 1 /\ x.result = "ok"
    BY <2>1, <2>4, Lemma_QFrames
  <2> HIDE DEF x
  <2>6. Len(u) = 2 /\ u[1] = x /\ u[2] = f
    <3>1. 1 \in 1 .. Len(s) /\ 1 + 1 = 2
      BY <1>1
    <3> QED
      BY <1>1, <2>1, <3>1 DEF Pushed, f
  <2>7. Filling(g, x) /\ Busy(x)
    <3>1. \A j \in 1 .. 1 - 1 : FALSE
      OBVIOUS
    <3>2. 1 <= Len(d.get) + 1 /\ 1 <= Len(d.get)
      BY <2>4
    <3> QED
      BY <2>5, <3>1, <3>2 DEF Filling, Gave, Busy
  <2>8. Allocating(k, u, g)
    BY <1>1, <2>2, <2>5, <2>6, <2>7 DEF Allocating, InAlloc
  <2> QED
    BY <1>9, <2>1, <2>8 DEF Advances, Making
<1> QED
  BY <1>1, <1>4, <1>11, <1>12, <1>13, <1>14
  DEF QSteps, QDrops, QFalls, QLeaves, QReturns, f

\* The calls above the ioctl clean up after a failure, until it hears of it.
LEMMA Lemma_Failing ==
  ASSUME NEW k \in Qdmabuf!Kinds, NEW s \in Seq(QFrames), NEW u, NEW h, NEW g,
         Failing(k, s), QSteps(k, s, u, h, g)
  PROVE  Advances(k, u, h, g)
<1> DEFINE b == s[2]
<1>1. Len(s) \in Nat /\ Len(s) >= 2 /\ \A i \in 1 .. Len(s) : s[i] \in QFrames
  <2>1. Len(s) \in Nat /\ Len(s) >= 2
    BY DEF Failing
  <2>2. s # << >>
    BY <2>1, ListEmpty
  <2> QED
    BY <2>1, <2>2, StackEnd
<1>2. {"fd", "attach"} \subseteq Watched
  BY DEF Watched, Refs, Stock
<1>3. CASE QReturns(s, u, h, g) /\ Len(s) = 2
  <2> DEFINE x == IF s[1].result = "err" /\ b.phase = "get"
                  THEN Qdmabuf!U!Cleanup(b) ELSE Qdmabuf!U!Onward(b)
  <2>1. /\ Popped(s, u, x) /\ QSame(h, g)
        /\ b.proc = "qdmabuf_ioctl_alloc" /\ b.phase = "get"
        /\ b.at = AllocAt[k] /\ b \in QFrames
    BY <1>3 DEF QReturns, Failing, InAlloc
  <2>2. /\ AllocAt[k] \in 2 .. 4
        /\ Qdmabuf!Code[b.proc].get[b.at].label = "return"
    <3>1. AllocAt[k] \in 2 .. 4 /\ AllocAt[k] \in 1 .. 5
      BY Lemma_ioctl_alloc
    <3> QED
      BY <2>1, <3>1, Lemma_ioctl_alloc
  <2>3. Dull(k, Qdmabuf!U!Onward(b))
    <3>1. Qdmabuf!U!Onward(b).at > AllocAt[k]
      BY <2>1, <2>2, Lemma_After
    <3> QED
      BY <2>1, <3>1, Lemma_After DEF Dull
  <2>4. Dull(k, Qdmabuf!U!Cleanup(b))
    BY <2>1, <2>2, Lemma_After, Lemma_MakersDull
  <2>5. Dull(k, x)
    BY <2>3, <2>4
  <2> HIDE DEF x
  <2>6. Len(u) = 1 /\ u[1] = x
    BY <1>3, <2>1 DEF Popped
  <2>7. Harmless(k, u)
    <3>1. \A i \in 1 .. 1 : i = 1
      OBVIOUS
    <3> QED
      BY <2>5, <2>6, <3>1 DEF Harmless
  <2> QED
    BY <1>2, <2>1, <2>7 DEF Advances, QSame
<1>4. CASE ~(QReturns(s, u, h, g) /\ Len(s) = 2)
  <2>5. \A m \in Nat : m >= 2 => m - 1 >= 1 /\ (m # 2 => m - 1 >= 2)
    OBVIOUS
  <2>1. Len(s) - 1 >= 1 /\ (QReturns(s, u, h, g) => Len(s) - 1 >= 2)
    BY <1>1, <1>4, <2>5
  <2>2. \A i \in 1 .. Len(s) - 1 : Dull(k, s[i])
    BY DEF Failing
  <2>3. /\ Len(u) \in Nat /\ \A i \in 1 .. Len(u) - 1 : Dull(k, u[i])
        /\ u[Len(u)] = s[Len(s)] /\ Len(u) >= 2
        /\ g["fd"] = h["fd"] /\ g["attach"] = h["attach"]
    BY <2>1, <2>2, Lemma_Harmless
  <2>4. Failing(k, u)
    BY <2>3 DEF Failing
  <2> QED
    BY <2>3, <2>4 DEF Advances, Making
<1> QED
  BY <1>3, <1>4

\* What a function has got stays got, and the next is added.
Adds(h, g, r) ==
  \A x \in Watched : g[x] = IF x = r THEN h[x] + 1 ELSE h[x]

\* What was got stays, and the part of the next step joins it.
LEMMA Lemma_Gave ==
  ASSUME NEW h, NEW g, Counts(h), NEW c, NEW i \in Nat, Gave(h, c, i)
  PROVE  /\ \A r : Adds(h, g, r) \/ QSame(h, g) => Gave(g, c, i)
         /\ c.get[i].what # "exp_dma_sg_alloc_compacted"
              /\ Adds(h, g, c.get[i].what) => Gave(g, c, i + 1)
         /\ c.get[i].what = "exp_dma_sg_alloc_compacted" /\ QSame(h, g)
              /\ h["page1"] >= 1 /\ h["page2"] >= 1 => Gave(g, c, i + 1)
<1>1. {"page1", "page2"} \subseteq Watched
      /\ "exp_dma_sg_alloc_compacted" \notin Watched
  BY DEF Watched, Refs, Stock
<1>2. \A x \in Watched : h[x] \in Nat
  BY DEF Counts
<1>3. ASSUME NEW r, Adds(h, g, r) \/ QSame(h, g) PROVE Gave(g, c, i)
  <2>1. \A x \in Watched : h[x] >= 1 => g[x] >= 1
    BY <1>2, <1>3 DEF Adds, QSame
  <2> QED
    BY <1>1, <2>1 DEF Gave
<1>4. \A j \in 1 .. (i + 1) - 1 : j = i \/ j \in 1 .. i - 1
  OBVIOUS
<1>5. ASSUME c.get[i].what # "exp_dma_sg_alloc_compacted",
             Adds(h, g, c.get[i].what)
      PROVE  Gave(g, c, i + 1)
  <2>1. Gave(g, c, i)
    BY <1>3, <1>5
  <2>2. c.get[i].what \in Watched => g[c.get[i].what] >= 1
    BY <1>2, <1>5 DEF Adds
  <2> QED
    BY <1>4, <1>5, <2>1, <2>2 DEF Gave
<1>6. ASSUME c.get[i].what = "exp_dma_sg_alloc_compacted", QSame(h, g),
             h["page1"] >= 1, h["page2"] >= 1
      PROVE  Gave(g, c, i + 1)
  <2>1. Gave(g, c, i)
    BY <1>3, <1>6
  <2>2. g["page1"] >= 1 /\ g["page2"] >= 1
    BY <1>1, <1>6 DEF QSame
  <2> QED
    BY <1>1, <1>4, <1>6, <2>1, <2>2 DEF Gave
<1> QED
  BY <1>3, <1>5, <1>6

\* The function that makes a buffer of a kind.
LEMMA Lemma_Allocating ==
  ASSUME NEW k \in Qdmabuf!Kinds, NEW s \in Seq(QFrames), NEW u, NEW h, NEW g,
         Counts(h), Allocating(k, s, h), QSteps(k, s, u, h, g)
  PROVE  Advances(k, u, h, g)
<1> DEFINE f == s[1]
           b == s[2]
           c == Qdmabuf!Code[AllocOf[k]]
           n == Len(c.get)
           w == At(f)
           x == Qdmabuf!U!Onward(f)
           y == Qdmabuf!U!Cleanup(f)
<1>1. /\ Len(s) = 2 /\ InAlloc(k, b) /\ f.proc = AllocOf[k]
      /\ f.phase = "get" /\ f.result = "ok" /\ f.at <= n + 1
      /\ Gave(h, c, f.at) /\ Busy(f)
  BY DEF Allocating, Filling
<1>2. f \in QFrames /\ f.at \in Nat \ {0}
  <2>3. Len(s) = 2
    BY <1>1
  <2>1. s # << >>
    BY <2>3, ListEmpty
  <2>2. f \in QFrames
    BY <2>1, <2>3, StackEnd
  <2> QED
    BY <2>2 DEF QFrames
<1>3. Fills(k, c)
  BY Lemma_Fills
<1>4. n \in Nat \ {0} /\ f.at \in 1 .. n /\ w = c.get[f.at].what
  BY <1>1, <1>2, <1>3 DEF Fills, Busy, At
<1>5. /\ ~c.get[f.at].drop
      /\ (c.get[f.at].label = "continue" => w = "refcount")
      /\ w \in Qdmabuf!Resources \ {"attach"}
         \/ (w = "exp_dma_sg_alloc_compacted" /\ k = "dma_sg")
      /\ (w = "fd") <=> (f.at = n)
  BY <1>3, <1>4 DEF Fills, Fill
<1>6. /\ x.proc = f.proc /\ x.phase = "get" /\ x.result = "ok"
      /\ x.at = f.at + 1
      /\ c.get[f.at].label # "continue" => y.proc = f.proc /\ y.phase = "put"
  BY <1>1, <1>2, Lemma_After
<1>7. /\ {"fd", "attach"} \subseteq Watched /\ Whole(k) \subseteq Watched
      /\ Watched \subseteq Qdmabuf!Resources
      /\ Foreign(k) \cap Qdmabuf!Resources = {}
      /\ "exp_dma_sg_alloc_compacted" \notin Qdmabuf!Resources
      /\ "exp_dma_sg_alloc_compacted" \notin Foreign(k)
      /\ AllocOf[k] # "qdmabuf_ioctl_info" /\ AllocOf[k] \in Makers
      /\ Qdmabuf!Resources \cap DOMAIN Qdmabuf!Code = {}
  <2>1. "exp_dma_sg_alloc_compacted" \in DOMAIN Qdmabuf!Code \ Foreign(k)
    BY Lemma_MakersDull
  <2>2. {"fd", "attach"} \subseteq Watched /\ Whole(k) \subseteq Watched
    BY DEF Watched, Refs, Stock, Whole
  <2> QED
    BY <2>1, <2>2, Lemma_WatchedAre, Lemma_MakersDull
<1>8. QSame(h, g) => g["fd"] = h["fd"] /\ g["attach"] = h["attach"]
  BY <1>7 DEF QSame
<1> HIDE DEF f, b, c, n, w, x, y
<1>11. CASE QGets(s, u, h, g)
  <2>1. w \in Qdmabuf!Resources /\ TopIs(s, u, x) /\ Adds(h, g, w)
    BY <1>11 DEF QGets, Adds, f, w, x
  <2>2. Gave(g, c, f.at + 1) /\ Gave(g, c, f.at)
    BY <1>1, <1>2, <1>4, <1>7, <2>1, Lemma_Gave
  <2>3. Len(u) = 2 /\ u[1] = x /\ u[2] = b
    <3>1. 2 \in 2 .. Len(s)
      BY <1>1
    <3> QED
      BY <1>1, <2>1, <3>1 DEF TopIs, b
  <2>4. g["attach"] = h["attach"]
    BY <1>5, <1>7, <2>1 DEF Adds
  <2>5. CASE f.at # n
    <3>1. f.at + 1 <= n /\ f.at + 1 <= n + 1
      BY <1>2, <1>4, <2>5
    <3>2. Filling(g, x) /\ Busy(x)
      BY <1>1, <1>6, <2>2, <3>1 DEF Filling, Busy, c, n
    <3>3. Allocating(k, u, g)
      BY <1>1, <1>6, <2>3, <3>2 DEF Allocating
    <3>4. g["fd"] = h["fd"]
      BY <1>5, <1>7, <2>1, <2>5 DEF Adds
    <3> QED
      BY <2>4, <3>3, <3>4 DEF Advances, Making
  <2>6. CASE f.at = n
    <3>1. ~Busy(x)
      <4>1. ~(f.at + 1 <= n)
        BY <1>4, <2>6
      <4> QED
        BY <1>1, <1>6, <4>1 DEF Busy, c, n
    <3>2. Made(k, u)
      BY <1>1, <1>6, <2>3, <3>1 DEF Made
    <3>3. g["fd"] = h["fd"] + 1
      BY <1>5, <1>7, <2>1, <2>6 DEF Adds
    <3>4. ASSUME NEW r \in Whole(k) PROVE g[r] >= 1
      <4>1. PICK i \in 1 .. n - 1 : Yields(c.get[i], r)
        BY <1>3 DEF Fills, n
      <4>2. i \in 1 .. f.at - 1
        BY <2>6
      <4> QED
        BY <1>7, <2>2, <4>1, <4>2 DEF Gave, Yields
    <3> QED
      BY <2>4, <3>2, <3>3, <3>4 DEF Advances, Whole0
  <2> QED
    BY <2>5, <2>6
<1>12. CASE QRefuses(s, u, h, g)
  <2>1. w # "refcount" /\ TopIs(s, u, y) /\ QSame(h, g)
    BY <1>12 DEF QRefuses, f, w, y
  <2>2. Len(u) = 2 /\ u[1] = y /\ u[2] = b
    <3>1. 2 \in 2 .. Len(s)
      BY <1>1
    <3> QED
      BY <1>1, <2>1, <3>1 DEF TopIs, b
  <2>3. Dull(k, y)
    BY <1>1, <1>5, <1>6, <1>7, <2>1, Lemma_MakersDull
  <2>4. Failing(k, u)
    <3>1. \A i \in 1 .. 2 - 1 : i = 1
      OBVIOUS
    <3> QED
      BY <1>1, <2>2, <2>3, <3>1 DEF Failing
  <2> QED
    BY <1>8, <2>1, <2>4 DEF Advances, Making
<1>13. CASE QSkips(k, s, u, h, g)
  <2>1. w \in Foreign(k)
    BY <1>13 DEF QSkips, f, w
  <2> QED
    BY <1>5, <1>7, <2>1
<1>14. CASE QCalls(k, s, u, h, g)
  <2> DEFINE z == Qdmabuf!U!Frame(w)
  <2>1. /\ w \in DOMAIN Qdmabuf!Code /\ Pushed(s, u, z) /\ QSame(h, g)
    BY <1>14 DEF QCalls, f, w
  <2>2. w = "exp_dma_sg_alloc_compacted" /\ k = "dma_sg"
    BY <1>5, <1>7, <2>1
  <2>3. Len(Qdmabuf!Code[w].get) = 2 /\ Qdmabuf!Code[w].get # << >>
    BY <2>2, Lemma_compacted
  <2>4. z.proc = w /\ z.phase = "get" /\ z.at = 1 /\ z.result = "ok"
    BY <2>1, <2>3, Lemma_QFrames
  <2> HIDE DEF z
  <2>5. Len(u) = 3 /\ u[1] = z /\ u[2] = f /\ u[3] = b
    <3>1. 1 \in 1 .. Len(s) /\ 1 + 1 = 2 /\ 2 \in 1 .. Len(s) /\ 2 + 1 = 3
      BY <1>1
    <3> QED
      BY <1>1, <2>1, <3>1 DEF Pushed, f, b
  <2>6. Filling(g, z)
    <3>1. \A j \in 1 .. 1 - 1 : FALSE
      OBVIOUS
    <3>2. 1 <= Len(Qdmabuf!Code[w].get) + 1
      BY <2>3
    <3> QED
      BY <2>4, <3>1, <3>2 DEF Filling, Gave
  <2>7. Filling(g, f)
    <3>1. Gave(g, c, f.at)
      BY <1>1, <1>2, <2>1, Lemma_Gave
    <3> QED
      BY <1>1, <3>1 DEF Filling, c, n
  <2>8. Compacting(k, u, g)
    BY <1>1, <2>2, <2>4, <2>5, <2>6, <2>7 DEF Compacting, w
  <2> QED
    BY <1>8, <2>1, <2>8 DEF Advances, Making
<1>15. CASE QDrops(s, u, h, g)
  <2>1. Qdmabuf!Code[f.proc].get[f.at].drop
    BY <1>1, <1>15 DEF QDrops, f
  <2> QED
    BY <1>1, <1>5, <2>1 DEF c
<1> QED
  BY <1>1, <1>7, <1>11, <1>12, <1>13, <1>14, <1>15
  DEF QSteps, QFalls, QLeaves, QReturns, f

\* The function that allocates the pages, below it the one that makes the
\* buffer.
LEMMA Lemma_Compacting ==
  ASSUME NEW k \in Qdmabuf!Kinds, NEW s \in Seq(QFrames), NEW u, NEW h, NEW g,
         Counts(h), Compacting(k, s, h), QSteps(k, s, u, h, g)
  PROVE  Advances(k, u, h, g)
<1> DEFINE f == s[1]
           m == s[2]
           b == s[3]
           d == Qdmabuf!Code["exp_dma_sg_alloc_compacted"]
           c == Qdmabuf!Code[AllocOf[k]]
           n == Len(c.get)
           w == At(f)
           x == Qdmabuf!U!Onward(f)
           y == Qdmabuf!U!Cleanup(f)
<1>1. /\ Len(s) = 3 /\ InAlloc(k, b) /\ k = "dma_sg"
      /\ m.proc = AllocOf[k] /\ m.phase = "get" /\ Busy(m)
      /\ At(m) = f.proc /\ f.proc = "exp_dma_sg_alloc_compacted"
      /\ \/ Filling(h, m) /\ Filling(h, f)
         \/ f.phase = "put" /\ f.result = "err"
  BY DEF Compacting
<1>2. f \in QFrames /\ f.at \in Nat \ {0} /\ m \in QFrames
      /\ m.at \in Nat \ {0}
  <2>3. Len(s) = 3
    BY <1>1
  <2>1. s # << >>
    BY <2>3, ListEmpty
  <2>2. f \in QFrames /\ m \in QFrames
    BY <2>1, <2>3, StackEnd
  <2> QED
    BY <2>2 DEF QFrames
<1>3. /\ Len(d.get) = 2 /\ d.get[1].what = "page1" /\ d.get[2].what = "page2"
      /\ \A i \in 1 .. 2 : /\ ~d.get[i].drop /\ ~d.get[i].quiet
                           /\ d.get[i].label # "continue"
      /\ Len(d.put) = 1 /\ d.put[1] = "page1"
  BY Lemma_compacted
<1>4. Fills(k, c)
  BY Lemma_Fills
<1>5. /\ n \in Nat \ {0} /\ m.at \in 1 .. n
      /\ c.get[m.at].what = "exp_dma_sg_alloc_compacted"
  BY <1>1, <1>2, <1>4 DEF Fills, Busy, At
<1>6. ~c.get[m.at].drop /\ c.get[m.at].label # "continue" /\ m.at # n
  BY <1>4, <1>5 DEF Fills, Fill
<1>7. /\ {"fd", "attach", "page1", "page2"} \subseteq Watched
      /\ Watched \subseteq Qdmabuf!Resources
      /\ Foreign(k) \cap Qdmabuf!Resources = {}
      /\ Qdmabuf!Resources \cap DOMAIN Qdmabuf!Code = {}
      /\ AllocOf[k] \in Makers
  <2>1. {"fd", "attach"} \subseteq Watched
    BY DEF Watched, Refs, Stock
  <2>2. {"page1", "page2"} \subseteq Watched
    BY DEF Watched, Refs, Stock
  <2> QED
    BY <2>1, <2>2, Lemma_WatchedAre, Lemma_MakersDull
<1>8. QSame(h, g) => g["fd"] = h["fd"] /\ g["attach"] = h["attach"]
  BY <1>7 DEF QSame
<1>9. /\ x.proc = f.proc /\ x.phase = f.phase /\ x.result = f.result
      /\ x.at = f.at + 1
  BY <1>2, Lemma_After
<1> HIDE DEF f, m, b, c, d, n, w, x, y
<1>10. ASSUME NEW z, TopIs(s, u, z)
       PROVE  Len(u) = 3 /\ u[1] = z /\ u[2] = m /\ u[3] = b
  <2>1. 2 \in 2 .. Len(s) /\ 3 \in 2 .. Len(s)
    BY <1>1
  <2> QED
    BY <1>1, <1>10, <2>1 DEF TopIs, m, b
<1>11. ASSUME NEW z, Popped(s, u, z)
       PROVE  Len(u) = 2 /\ u[1] = z /\ u[2] = b
  <2>1. 3 \in 3 .. Len(s) /\ 3 - 1 = 2
    BY <1>1
  <2> QED
    BY <1>1, <1>11, <2>1 DEF Popped, b
<1>12. CASE f.phase = "get" /\ Busy(f)
  <2>1. Filling(h, m) /\ Filling(h, f)
    BY <1>1, <1>12
  <2>2. f.at \in 1 .. 2 /\ w = d.get[f.at].what /\ w \in {"page1", "page2"}
    <3>1. f.at <= 2
      BY <1>1, <1>3, <1>12 DEF Busy, d
    <3>2. f.at = 1 \/ f.at = 2
      BY <1>2, <3>1
    <3> QED
      BY <1>1, <1>3, <1>12, <3>2 DEF At, d, w
  <2>3. ~Qdmabuf!Code[f.proc].get[f.at].drop
    BY <1>1, <1>3, <2>2 DEF d
  <2>4. w \in Watched /\ w \in Qdmabuf!Resources /\ w \notin {"fd", "attach"}
    BY <1>7, <2>2
  <2>5. QGets(s, u, h, g) \/ QRefuses(s, u, h, g)
    BY <1>7, <1>12, <2>3, <2>4
    DEF QSteps, QSkips, QCalls, QDrops, QFalls, QLeaves, QReturns, f, w
  <2>6. CASE QGets(s, u, h, g)
    <3>1. TopIs(s, u, x) /\ Adds(h, g, w)
      BY <2>6 DEF QGets, Adds, f, w, x
    <3>2. g["fd"] = h["fd"] /\ g["attach"] = h["attach"]
      BY <1>7, <2>4, <3>1 DEF Adds
    <3>3. Filling(g, m)
      <4>1. Gave(h, c, m.at) /\ m.result = "ok" /\ m.at <= n + 1
        BY <1>1, <2>1 DEF Filling, c, n
      <4>2. Gave(g, c, m.at)
        BY <1>2, <3>1, <4>1, Lemma_Gave
      <4> QED
        BY <1>1, <4>1, <4>2 DEF Filling, c, n
    <3>4. Filling(g, x)
      <4>1. Gave(h, d, f.at) /\ f.result = "ok"
        BY <1>1, <2>1 DEF Filling, d
      <4>2. d.get[f.at].what # "exp_dma_sg_alloc_compacted"
        BY <2>2
      <4>3. Gave(g, d, f.at + 1)
        BY <1>2, <2>2, <3>1, <4>1, <4>2, Lemma_Gave
      <4>4. f.at + 1 <= Len(d.get) + 1
        BY <1>3, <2>2
      <4> QED
        BY <1>1, <1>9, <1>12, <4>1, <4>3, <4>4 DEF Filling, d
    <3>5. Compacting(k, u, g)
      BY <1>1, <1>9, <1>10, <3>1, <3>3, <3>4 DEF Compacting
    <3> QED
      BY <3>2, <3>5 DEF Advances, Making
  <2>7. CASE QRefuses(s, u, h, g)
    <3>1. TopIs(s, u, y) /\ QSame(h, g)
      BY <2>7 DEF QRefuses, f, y
    <3>2. y.proc = f.proc /\ y.phase = "put" /\ y.result = "err"
      <4>1. LET e == Qdmabuf!Code[f.proc].get[f.at] IN
            e.label # "continue" /\ ~e.quiet
        BY <1>1, <1>3, <2>2 DEF d
      <4> QED
        BY <1>2, <4>1, Lemma_After DEF y
    <3>3. Compacting(k, u, g)
      BY <1>1, <1>10, <3>1, <3>2 DEF Compacting
    <3> QED
      BY <1>8, <3>1, <3>3 DEF Advances, Making
  <2> QED
    BY <2>5, <2>6, <2>7
<1>13. CASE f.phase = "get" /\ ~Busy(f)
  <2>1. /\ Filling(h, m) /\ Filling(h, f)
    BY <1>1, <1>13
  <2>2. f.result = "ok" /\ Gave(h, d, f.at)
    BY <1>1, <2>1 DEF Filling, d
  <2>3. ~(f.at <= 2)
    BY <1>1, <1>3, <1>13 DEF Busy, d
  <2>4. 1 \in 1 .. f.at - 1 /\ 2 \in 1 .. f.at - 1
    BY <1>2, <2>3
  <2>5. h["page1"] >= 1 /\ h["page2"] >= 1
    BY <1>3, <1>7, <2>2, <2>4 DEF Gave
  <2> DEFINE z == Qdmabuf!U!Onward(m)
  <2>6. QReturns(s, u, h, g)
    BY <1>1, <1>13
    DEF QSteps, QGets, QRefuses, QSkips, QCalls, QDrops, QFalls, QLeaves, f
  <2>7. Popped(s, u, z) /\ QSame(h, g)
    BY <2>2, <2>6 DEF QReturns, f, m
  <2>8. z.proc = m.proc /\ z.phase = "get" /\ z.at = m.at + 1
        /\ z.result = m.result
    BY <1>1, <1>2, Lemma_After
  <2> HIDE DEF z
  <2>9. Gave(h, c, m.at) /\ m.result = "ok"
    BY <1>1, <2>1 DEF Filling, c
  <2>10. Gave(g, c, m.at + 1)
    BY <1>2, <1>5, <2>5, <2>7, <2>9, Lemma_Gave
  <2>11. m.at + 1 <= n /\ m.at + 1 <= n + 1
    BY <1>5, <1>6
  <2>12. Filling(g, z) /\ Busy(z)
    BY <1>1, <2>8, <2>9, <2>10, <2>11 DEF Filling, Busy, c, n
  <2>13. Allocating(k, u, g)
    BY <1>1, <1>11, <2>7, <2>8, <2>12 DEF Allocating
  <2> QED
    BY <1>8, <2>7, <2>13 DEF Advances, Making
<1>14. CASE f.phase # "get" /\ Busy(f)
  <2>1. f.phase = "put" /\ f.result = "err"
    BY <1>1, <1>14 DEF Filling
  <2>2. f.at <= 1
    BY <1>1, <1>3, <1>14, <2>1 DEF Busy, d
  <2>3. f.at = 1
    BY <1>2, <2>2
  <2>4. w = "page1"
    BY <1>1, <1>3, <2>1, <2>3 DEF At, d, w
  <2>5. QDrops(s, u, h, g)
    BY <1>7, <1>14, <2>4
    DEF QSteps, QGets, QRefuses, QSkips, QCalls, QFalls, QLeaves, QReturns, f,
    w
  <2> DEFINE z == [f EXCEPT !.at = Past(f, h)]
  <2>6. TopIs(s, u, z) /\ z.proc = f.proc /\ z.phase = "put"
        /\ z.result = "err"
    BY <1>2, <2>1, <2>5 DEF QDrops, QFrames, f
  <2> HIDE DEF z
  <2>7. g["fd"] = h["fd"] /\ g["attach"] = h["attach"]
    BY <1>7, <2>4, <2>5 DEF QDrops, f, w
  <2>8. Compacting(k, u, g)
    BY <1>1, <1>10, <2>6 DEF Compacting
  <2> QED
    BY <2>7, <2>8 DEF Advances, Making
<1>15. CASE f.phase # "get" /\ ~Busy(f)
  <2>1. f.phase = "put" /\ f.result = "err"
    BY <1>1, <1>15 DEF Filling
  <2> DEFINE z == Qdmabuf!U!Cleanup(m)
  <2>2. QReturns(s, u, h, g)
    BY <1>1, <1>15
    DEF QSteps, QGets, QRefuses, QSkips, QCalls, QDrops, QFalls, QLeaves, f
  <2>3. Popped(s, u, z) /\ QSame(h, g)
    BY <1>1, <2>1, <2>2 DEF QReturns, f, m
  <2>4. z.proc = m.proc /\ z.phase = "put"
    BY <1>1, <1>2, <1>6, Lemma_After DEF c
  <2>5. Dull(k, z)
    BY <1>1, <1>7, <2>4, Lemma_MakersDull
  <2> HIDE DEF z
  <2>6. Failing(k, u)
    <3>1. \A i \in 1 .. 2 - 1 : i = 1
      OBVIOUS
    <3> QED
      BY <1>1, <1>11, <2>3, <2>5, <3>1 DEF Failing
  <2> QED
    BY <1>8, <2>3, <2>6 DEF Advances, Making
<1> QED
  BY <1>12, <1>13, <1>14, <1>15

\* However far the allocation is, a step leads on.
LEMMA Lemma_Making ==
  ASSUME NEW k \in Qdmabuf!Kinds, NEW s \in Seq(QFrames), NEW u, NEW h, NEW g,
         Counts(h), Making(k, s, h), QSteps(k, s, u, h, g)
  PROVE  Advances(k, u, h, g)
BY Lemma_Starting, Lemma_Allocating, Lemma_Compacting, Lemma_Failing DEF Making

-----------------------------------------------------------------------------
(* A step of each of the tasks.                                            *)

\* A step of the process that makes the buffer, or of an importer.
LEMMA Lemma_AppStep ==
  ASSUME NEW k \in Qdmabuf!Kinds, NEW a \in Seq(QFrames), a # << >>, NEW o,
         NEW h, NEW g, NEW v \in Nat, Counts(h), Used(k, a, o, h, v), NEW u,
         QSteps(k, a, u, h, g)
  PROVE  Used(k, u, o, g, v)
<1>1. {"fd", "attach"} \subseteq Watched
  BY DEF Watched, Refs, Stock
<1>2. CASE \E X, Y \in SUBSET Refs : Users(k, a, o, h, v, X, Y)
  <2>1. PICK X \in SUBSET Refs, Y \in SUBSET Refs : Users(k, a, o, h, v, X, Y)
    BY <1>2
  <2>2. (\E W \in SUBSET Refs : Users(k, u, o, g, v, W, Y))
          \/ Nobody(k, u, o, g, v)
    BY <2>1, Lemma_UsersApp
  <2> QED
    BY <2>2 DEF Used
<1>3. CASE Nobody(k, a, o, h, v)
  <2>1. /\ h["fd"] = 0 /\ h["attach"] = 0 /\ v = 0 /\ Harmless(k, o)
        /\ Harmless(k, a) \/ Made(k, a) \/ (Making(k, a, h) /\ o = << >>)
    BY <1>3 DEF Nobody
  <2>2. CASE Harmless(k, a)
    <3>1. Len(a) \in Nat /\ Len(a) >= 1
      BY StackEnd
    <3>2. Len(a) - 0 >= 1 /\ Len(a) - 0 = Len(a)
      BY <3>1
    <3>3. \A i \in 1 .. Len(a) - 0 : Dull(k, a[i])
      BY <2>2, <3>2 DEF Harmless
    <3>4. QReturns(a, u, h, g) => Len(a) - 0 >= 2
      BY <3>2 DEF QReturns
    <3>5. /\ Len(u) \in Nat /\ \A i \in 1 .. Len(u) - 0 : Dull(k, u[i])
          /\ g["fd"] = h["fd"] /\ g["attach"] = h["attach"]
      BY <3>2, <3>3, <3>4, Lemma_Harmless
    <3>6. Len(u) - 0 = Len(u)
      BY <3>5
    <3>7. Harmless(k, u)
      BY <3>5, <3>6 DEF Harmless
    <3> QED
      BY <2>1, <3>5, <3>7 DEF Used, Nobody
  <2>3. CASE Made(k, a)
    <3>1. Ready(k, u) /\ QSame(h, g)
      BY <2>3, Lemma_Made
    <3>2. Harmless(k, u)
      <4>1. \A i \in 1 .. 1 : i = 1
        OBVIOUS
      <4> QED
        BY <3>1, <4>1 DEF Ready, Harmless
    <3>3. g["fd"] = h["fd"] /\ g["attach"] = h["attach"]
      BY <1>1, <3>1 DEF QSame
    <3> QED
      BY <2>1, <3>2, <3>3 DEF Used, Nobody
  <2>4. CASE Making(k, a, h) /\ o = << >>
    <3>1. Advances(k, u, h, g)
      BY <2>4, Lemma_Making
    <3>2. CASE (Making(k, u, g) \/ Harmless(k, u)) /\ g["fd"] = h["fd"]
      BY <2>1, <2>4, <3>1, <3>2 DEF Used, Nobody, Advances
    <3>3. CASE Made(k, u) /\ Whole0(k, h, g)
      <4>1. Account(k, << >>, {})
        BY Lemma_NoAccount
      <4>2. /\ g["attach"] = 0 /\ g["fd"] = 1 /\ g["dmabuf"] >= 1
            /\ g["refcount"] >= 1
        BY <2>1, <3>1, <3>3 DEF Advances, Whole0, Whole
      <4>3. Balance(g, v, {}, {})
        <5>1. One("attach" \in {}) = 0 /\ One("dmabuf" \in {}) = 0
              /\ One("refcount" \in {}) = 0
          BY DEF One
        <5>2. g["dmabuf"] >= g["fd"] + 0 + (g["attach"] - 0) + 0 + 0
          BY <4>2
        <5> QED
          BY <2>1, <4>2, <5>1, <5>2 DEF Balance
      <4>4. InStock(k, g)
        BY <3>3 DEF InStock, Whole0
      <4>5. \A i \in 1 .. Len(<< >>) : FALSE
        <5>1. Len(<< >>) = 0
          BY ListEmpty
        <5>2. \A i \in 1 .. 0 : FALSE
          OBVIOUS
        <5> QED
          BY <5>1, <5>2
      <4>6. Users(k, u, << >>, g, v, {}, {})
        BY <3>3, <4>1, <4>3, <4>4, <4>5 DEF Users
      <4> QED
        BY <2>4, <4>6 DEF Used
    <3> QED
      BY <3>1, <3>2, <3>3 DEF Advances
  <2> QED
    BY <2>1, <2>2, <2>3, <2>4
<1> QED
  BY <1>2, <1>3 DEF Used

\* A step of the process that maps the buffer and closes its descriptor.
LEMMA Lemma_OtherStep ==
  ASSUME NEW k \in Qdmabuf!Kinds, NEW a, NEW o \in Seq(QFrames), o # << >>,
         NEW h, NEW g, NEW v \in Nat, Counts(h), Counts(g),
         Used(k, a, o, h, v), NEW u, QSteps(k, o, u, h, g)
  PROVE  Used(k, a, u, g, IF Mapped(o) THEN v + 1 ELSE v)
<1> DEFINE w == IF Mapped(o) THEN v + 1 ELSE v
<1>1. CASE \E X, Y \in SUBSET Refs : Users(k, a, o, h, v, X, Y)
  <2>1. PICK X \in SUBSET Refs, Y \in SUBSET Refs : Users(k, a, o, h, v, X, Y)
    BY <1>1
  <2>2. (\E W \in SUBSET Refs : Users(k, a, u, g, w, X, W))
          \/ Nobody(k, a, u, g, w)
    BY <2>1, Lemma_UsersOther
  <2> QED
    BY <2>2 DEF Used
<1>2. CASE Nobody(k, a, o, h, v)
  <2>1. /\ h["fd"] = 0 /\ h["attach"] = 0 /\ v = 0 /\ Harmless(k, o)
        /\ Harmless(k, a) \/ Made(k, a)
    BY <1>2 DEF Nobody
  <2>2. Len(o) \in Nat /\ Len(o) >= 1 /\ o[1] \in QFrames
    BY StackEnd
  <2>3. Len(o) - 0 >= 1 /\ Len(o) - 0 = Len(o) /\ 1 \in 1 .. Len(o)
    BY <2>2
  <2>4. \A i \in 1 .. Len(o) - 0 : Dull(k, o[i])
    BY <2>1, <2>3 DEF Harmless
  <2>5. QReturns(o, u, h, g) => Len(o) - 0 >= 2
    BY <2>3 DEF QReturns
  <2>6. /\ Len(u) \in Nat /\ \A i \in 1 .. Len(u) - 0 : Dull(k, u[i])
        /\ g["fd"] = h["fd"] /\ g["attach"] = h["attach"]
    BY <2>3, <2>4, <2>5, Lemma_Harmless
  <2>7. Len(u) - 0 = Len(u)
    BY <2>6
  <2>8. Harmless(k, u)
    BY <2>6, <2>7 DEF Harmless
  <2>9. ~Mapped(o)
    <3>1. Dull(k, o[1])
      BY <2>3, <2>4
    <3>2. o[1].proc \in {"mmap", "fork"} => o[1].result = "err"
      BY <2>2, <3>1, Lemma_Dull
    <3> QED
      BY <3>2 DEF Mapped
  <2> QED
    BY <2>1, <2>6, <2>8, <2>9 DEF Used, Nobody
<1> QED
  BY <1>1, <1>2 DEF Used

-----------------------------------------------------------------------------
(* A call that begins.                                                     *)

\* A function that starts keeps account of what it was called with.
LEMMA Lemma_Alone ==
  ASSUME NEW k \in Qdmabuf!Kinds, NEW p \in Tally(k) \cup Counters(k),
         p \notin Foreign(k), NEW s, s = <<Qdmabuf!U!Frame(p)>>
  PROVE  /\ s \in Seq(QFrames) /\ Len(s) = 1 /\ s[1].proc = p
         /\ Ledger(k, s) /\ Claims(k, s) = Lent(k, p)
<1> DEFINE f == Qdmabuf!U!Frame(p)
<1>1. f \in QFrames /\ f.proc = p /\ Entry(k, f) /\ Assets(k, f) = Lent(k, p)
  BY Lemma_EntryStart
<1> HIDE DEF f
<1>2. s = <<f>>
  BY DEF f
<1>3. s \in Seq(QFrames) /\ Len(s) = 1 /\ s[1] = f
  BY <1>1, <1>2
<1>4. /\ \A i \in 1 .. 1 : i = 1
      /\ \A i \in 2 .. 1 : FALSE
      /\ \A i \in 1 .. 1 - 1 : FALSE
  OBVIOUS
<1>5. Ledger(k, s)
  BY <1>1, <1>3, <1>4 DEF Ledger
<1>6. Claims(k, s) = {x \in Refs : x \in Assets(k, f)}
  BY <1>3, <1>4 DEF Claims, Claim
<1>7. Lent(k, p) \subseteq Refs
  BY DEF Lent, Share, Refs
<1> QED
  BY <1>1, <1>3, <1>5, <1>6, <1>7

\* What is started with: an importer or the ioctl that asks for the kind, and a
\* map, a reference to the dma-buf; the end of an attachment or of a map, what
\* it had.
Begun(k, s, p, X) ==
  Account(k, s, X) /\ Len(s) = 1 /\ s[1].proc = p

\* A call that has just begun owns what it was lent.
LEMMA Lemma_Begun ==
  ASSUME NEW k \in Qdmabuf!Kinds, NEW p, NEW s, s = <<Qdmabuf!U!Frame(p)>>
  PROVE  /\ p \in {"import", "qdmabuf_ioctl_info", "mmap", "fork",
                   "dma_buf_put"} =>
              Begun(k, s, p, {"dmabuf"})
         /\ p = "unimport" => Begun(k, s, p, {"dmabuf", "attach"})
         /\ p = "munmap" => Begun(k, s, p, {"dmabuf", "refcount"})
         /\ p \in {"map_from", "map_to"} => Begun(k, s, p, {})
<1>1. {"import", "qdmabuf_ioctl_info", "mmap", "fork", "unimport", "munmap",
       "map_from", "map_to", "dma_buf_put"}
        \subseteq (Tally(k) \cup Counters(k)) \ Foreign(k)
  <2>1. {"import", "qdmabuf_ioctl_info", "mmap", "fork", "unimport", "munmap",
         "map_from", "map_to",
         "dma_buf_put"} \subseteq Tally(k) \cup Counters(k)
    BY DEF Tally, Counters, Callers, AppCalls, OtherCalls, Idlers
  <2>2. {"import", "qdmabuf_ioctl_info", "mmap", "fork", "unimport", "munmap",
         "map_from", "map_to", "dma_buf_put"} \cap Foreign(k) = {}
    BY DEF Foreign, Qdmabuf!Of, Qdmabuf!Kinds
  <2> QED
    BY <2>1, <2>2
<1>2. ASSUME NEW X, Lent(k, p) = X, "dmabuf" \in X \/ (X = {} /\ p \in Idlers),
             p \in (Tally(k) \cup Counters(k)) \ Foreign(k)
      PROVE  Begun(k, s, p, X)
  <2>1. /\ Len(s) = 1 /\ s[1].proc = p /\ Ledger(k, s) /\ Claims(k, s) = X
    BY <1>2, Lemma_Alone
  <2>2. X = {} => Harmless(k, s)
    <3>1. \A i \in 1 .. 1 : i = 1
      OBVIOUS
    <3> QED
      BY <1>2, <2>1, <3>1 DEF Harmless, Dull
  <2> QED
    BY <1>2, <2>1, <2>2 DEF Begun, Account
<1>3. ASSUME NEW q \in {"import", "qdmabuf_ioctl_info", "mmap", "fork"}
      PROVE  Lent(k, q) = {"dmabuf"}
  <2>1. Qdmabuf!Code[q].get # << >>
    <3>1. Len(Qdmabuf!Code[q].get) # 0
      BY Lemma_Bodies
    <3> QED
      BY <3>1, ListEmpty
  <2>2. "dmabuf" \in Share(k, q)
    BY DEF Share, AppCalls, OtherCalls, Refs, AttachOf, DetachOf, MmapOf,
       PutOf,
       Qdmabuf!Kinds
  <2> QED
    BY <2>1, <2>2 DEF Lent
<1>4. /\ Lent(k, "dma_buf_put") = {"dmabuf"}
      /\ Lent(k, "unimport") = {"dmabuf", "attach"}
      /\ Lent(k, "munmap") = {"dmabuf", "refcount"}
  <2>1. /\ Qdmabuf!Code["dma_buf_put"].get = << >>
        /\ Qdmabuf!Code["unimport"].get = << >>
        /\ Qdmabuf!Code["munmap"].get = << >>
    BY Lemma_Bodies DEF Putters
  <2>2. /\ Share(k, "dma_buf_put") = {"dmabuf"}
        /\ Share(k, "unimport") = {"dmabuf", "attach"}
        /\ Share(k, "munmap") = {"dmabuf", "refcount"}
    BY DEF Share, AppCalls, OtherCalls, Refs, AttachOf, DetachOf, MmapOf,
       PutOf,
       Qdmabuf!Kinds
  <2> QED
    BY <2>1, <2>2 DEF Lent
<1>5. ASSUME NEW q \in {"map_from", "map_to"}
      PROVE  Lent(k, q) = {} /\ q \in Idlers
  <2>1. Share(k, q) = {}
    BY DEF Share, AppCalls, OtherCalls, Refs, AttachOf, DetachOf, MmapOf,
       PutOf,
       Qdmabuf!Kinds
  <2> QED
    BY <2>1 DEF Lent, Idlers
<1> QED
  BY <1>1, <1>2, <1>3, <1>4, <1>5

\* The balance once a descriptor, a map or an attachment is turned into the
\* references of a call, or a descriptor is looked up.
Looked(h, g) ==
  /\ g["dmabuf"] = h["dmabuf"] + 1 /\ g["fd"] = h["fd"]
  /\ g["attach"] = h["attach"] /\ g["refcount"] = h["refcount"]
Closed(h, g) ==
  /\ h["fd"] > 0 /\ g["fd"] = h["fd"] - 1 /\ g["dmabuf"] = h["dmabuf"]
  /\ g["attach"] = h["attach"] /\ g["refcount"] = h["refcount"]

\* The balance holds after each of these, for the call that begins with it.
LEMMA Lemma_Turned ==
  ASSUME NEW h, NEW g, Counts(h), Counts(g), NEW v \in Nat
  PROVE  /\ \A Y : Balance(h, v, {}, Y) /\ Looked(h, g) =>
                     Balance(g, v, {"dmabuf"}, Y)
         /\ \A Y : Balance(h, v, {}, Y) /\ h["attach"] > 0 =>
                     Balance(h, v, {"dmabuf", "attach"}, Y)
         /\ \A X : Balance(h, v, X, {}) /\ (Looked(h, g) \/ Closed(h, g)) =>
                     Balance(g, v, X, {"dmabuf"})
         /\ \A X : Balance(h, v, X, {}) /\ v > 0 =>
                     Balance(h, v - 1, X, {"dmabuf", "refcount"})
<1>1. /\ h["attach"] \in Nat /\ h["dmabuf"] \in Nat /\ h["refcount"] \in Nat
      /\ h["fd"] \in Nat
      /\ g["attach"] \in Nat /\ g["dmabuf"] \in Nat /\ g["refcount"] \in Nat
      /\ g["fd"] \in Nat
  BY DEF Counts, Watched, Refs, Stock
<1>2. /\ One("attach" \in {}) = 0 /\ One("dmabuf" \in {}) = 0
      /\ One("refcount" \in {}) = 0
      /\ One("attach" \in {"dmabuf"}) = 0 /\ One("dmabuf" \in {"dmabuf"}) = 1
      /\ One("refcount" \in {"dmabuf"}) = 0
      /\ One("attach" \in {"dmabuf", "attach"}) = 1
      /\ One("dmabuf" \in {"dmabuf", "attach"}) = 1
      /\ One("refcount" \in {"dmabuf", "attach"}) = 0
      /\ One("dmabuf" \in {"dmabuf", "refcount"}) = 1
      /\ One("refcount" \in {"dmabuf", "refcount"}) = 1
  BY DEF One
<1>3. \A b : One(b) \in Nat
  BY DEF One
<1> DEFINE ha == h["attach"]
           hd == h["dmabuf"]
           hr == h["refcount"]
           hf == h["fd"]
           ga == g["attach"]
           gd == g["dmabuf"]
           gr == g["refcount"]
           gf == g["fd"]
<1>4. /\ ha \in Nat /\ hd \in Nat /\ hr \in Nat /\ hf \in Nat
      /\ ga \in Nat /\ gd \in Nat /\ gr \in Nat /\ gf \in Nat
  BY <1>1
<1>5. /\ Looked(h, g) <=> (gd = hd + 1 /\ gf = hf /\ ga = ha /\ gr = hr)
      /\ Closed(h, g)
           <=> (hf > 0 /\ gd = hd /\ gf = hf - 1 /\ ga = ha /\ gr = hr)
  BY DEF Looked, Closed
<1>11. ASSUME NEW Y, Balance(h, v, {}, Y),
              gd = hd + 1, gf = hf, ga = ha, gr = hr
       PROVE  Balance(g, v, {"dmabuf"}, Y)
  <2> DEFINE dy == One("dmabuf" \in Y)
             ry == One("refcount" \in Y)
  <2>1. dy \in Nat /\ ry \in Nat
    BY <1>3
  <2>2. "attach" \notin Y /\ hd >= hf + v + (ha - 0) + 0 + dy
        /\ hr >= 1 + v + 0 + ry
    BY <1>2, <1>11 DEF Balance
  <2> HIDE DEF ha, hd, hr, hf, ga, gd, gr, gf, dy, ry
  <2>3. ga >= 0 /\ gd >= gf + v + (ga - 0) + 1 + dy /\ gr >= 1 + v + 0 + ry
    BY <1>4, <1>11, <2>1, <2>2
  <2> QED
    BY <1>2, <2>2, <2>3 DEF Balance, ga, gd, gr, gf, dy, ry
<1>12. ASSUME NEW Y, Balance(h, v, {}, Y), ha > 0
       PROVE  Balance(h, v, {"dmabuf", "attach"}, Y)
  <2> DEFINE dy == One("dmabuf" \in Y)
             ry == One("refcount" \in Y)
  <2>1. dy \in Nat /\ ry \in Nat
    BY <1>3
  <2>2. "attach" \notin Y /\ hd >= hf + v + (ha - 0) + 0 + dy
        /\ hr >= 1 + v + 0 + ry
    BY <1>2, <1>12 DEF Balance
  <2> HIDE DEF ha, hd, hr, hf, ga, gd, gr, gf, dy, ry
  <2>3. ha >= 1 /\ hd >= hf + v + (ha - 1) + 1 + dy /\ hr >= 1 + v + 0 + ry
    BY <1>4, <1>12, <2>1, <2>2
  <2> QED
    BY <1>2, <2>2, <2>3 DEF Balance, ha, hd, hr, hf, dy, ry
<1>13. ASSUME NEW X, Balance(h, v, X, {}),
              gd = hd + 1, gf = hf, ga = ha, gr = hr
       PROVE  Balance(g, v, X, {"dmabuf"})
  <2> DEFINE ax == One("attach" \in X)
             dx == One("dmabuf" \in X)
             rx == One("refcount" \in X)
  <2>1. ax \in Nat /\ dx \in Nat /\ rx \in Nat
    BY <1>3
  <2>2. ha >= ax /\ hd >= hf + v + (ha - ax) + dx + 0 /\ hr >= 1 + v + rx + 0
    BY <1>2, <1>13 DEF Balance
  <2> HIDE DEF ha, hd, hr, hf, ga, gd, gr, gf, ax, dx, rx
  <2>3. ga >= ax /\ gd >= gf + v + (ga - ax) + dx + 1 /\ gr >= 1 + v + rx + 0
    BY <1>4, <1>13, <2>1, <2>2
  <2>4. "attach" \notin {"dmabuf"}
    OBVIOUS
  <2> QED
    BY <1>2, <2>3, <2>4 DEF Balance, ga, gd, gr, gf, ax, dx, rx
<1>14. ASSUME NEW X, Balance(h, v, X, {}), hf > 0,
              gd = hd, gf = hf - 1, ga = ha, gr = hr
       PROVE  Balance(g, v, X, {"dmabuf"})
  <2> DEFINE ax == One("attach" \in X)
             dx == One("dmabuf" \in X)
             rx == One("refcount" \in X)
  <2>1. ax \in Nat /\ dx \in Nat /\ rx \in Nat
    BY <1>3
  <2>2. ha >= ax /\ hd >= hf + v + (ha - ax) + dx + 0 /\ hr >= 1 + v + rx + 0
    BY <1>2, <1>14 DEF Balance
  <2> HIDE DEF ha, hd, hr, hf, ga, gd, gr, gf, ax, dx, rx
  <2>3. ga >= ax /\ gd >= gf + v + (ga - ax) + dx + 1 /\ gr >= 1 + v + rx + 0
    BY <1>4, <1>14, <2>1, <2>2
  <2>4. "attach" \notin {"dmabuf"}
    OBVIOUS
  <2> QED
    BY <1>2, <2>3, <2>4 DEF Balance, ga, gd, gr, gf, ax, dx, rx
<1>15. ASSUME NEW X, Balance(h, v, X, {}), v > 0
       PROVE  Balance(h, v - 1, X, {"dmabuf", "refcount"})
  <2> DEFINE ax == One("attach" \in X)
             dx == One("dmabuf" \in X)
             rx == One("refcount" \in X)
  <2>1. ax \in Nat /\ dx \in Nat /\ rx \in Nat
    BY <1>3
  <2>2. ha >= ax /\ hd >= hf + v + (ha - ax) + dx + 0 /\ hr >= 1 + v + rx + 0
    BY <1>2, <1>15 DEF Balance
  <2> HIDE DEF ha, hd, hr, hf, ga, gd, gr, gf, ax, dx, rx
  <2>3. /\ ha >= ax /\ hd >= hf + (v - 1) + (ha - ax) + dx + 1
        /\ hr >= 1 + (v - 1) + rx + 1
    BY <1>4, <1>15, <2>1, <2>2
  <2>4. "attach" \notin {"dmabuf", "refcount"}
    OBVIOUS
  <2> QED
    BY <1>2, <2>3, <2>4 DEF Balance, ha, hd, hr, hf, ax, dx, rx
<1> QED
  BY <1>5, <1>11, <1>12, <1>13, <1>14, <1>15

\* What a buffer consists of besides does not change as a call begins.
Stocked(h, g) == \A r \in Stock \ {"fd"} : g[r] = h[r]

\* So the parts of a buffer are all there still.
LEMMA Lemma_Stocked ==
  ASSUME NEW k, NEW h, NEW g, InStock(k, h), Stocked(h, g)
  PROVE  InStock(k, g)
BY DEF InStock, Stocked, Stock, Whole, Refs

\* An importer, or an ioctl, begins a call.
LEMMA Lemma_AppBegins ==
  ASSUME NEW k \in Qdmabuf!Kinds, NEW o, NEW h, NEW g, NEW v \in Nat,
         Counts(h),
         Counts(g), Used(k, << >>, o, h, v), NEW u
  PROVE  /\ /\ h["fd"] > 0 /\ Looked(h, g) /\ Stocked(h, g)
            /\ Account(k, u, {"dmabuf"})
            => Used(k, u, o, g, v)
         /\ /\ h["attach"] > 0
            /\ Account(k, u, {}) \/ Account(k, u, {"dmabuf", "attach"})
            => Used(k, u, o, h, v)
<1> SUFFICES ASSUME h["fd"] > 0 \/ h["attach"] > 0
             PROVE  /\ /\ h["fd"] > 0 /\ Looked(h, g) /\ Stocked(h, g)
                       /\ Account(k, u, {"dmabuf"})
                       => Used(k, u, o, g, v)
                    /\ /\ h["attach"] > 0
                       /\ Account(k, u, {})
                            \/ Account(k, u, {"dmabuf", "attach"})
                       => Used(k, u, o, h, v)
  OBVIOUS
<1>1. PICK X \in SUBSET Refs,
      Y \in SUBSET Refs : Users(k, << >>, o, h, v, X, Y)
  BY DEF Used, Nobody
<1>2. X = {}
  BY <1>1, Lemma_NoAccount DEF Users, Account
<1>3. /\ Account(k, o, Y) /\ Balance(h, v, {}, Y) /\ InStock(k, h)
      /\ \A i \in 1 .. Len(o) : "attach" \notin Share(k, o[i].proc)
  BY <1>1, <1>2 DEF Users
<1>4. {} \in SUBSET Refs /\ {"dmabuf"} \in SUBSET Refs
      /\ {"dmabuf", "attach"} \in SUBSET Refs
  BY DEF Refs
<1>5. ASSUME Looked(h, g), Stocked(h, g), Account(k, u, {"dmabuf"})
      PROVE  Used(k, u, o, g, v)
  <2>1. Balance(g, v, {"dmabuf"}, Y) /\ InStock(k, g)
    BY <1>3, <1>5, Lemma_Turned, Lemma_Stocked
  <2>2. Users(k, u, o, g, v, {"dmabuf"}, Y)
    BY <1>3, <1>5, <2>1 DEF Users
  <2> QED
    BY <1>4, <2>2 DEF Used
<1>6. ASSUME h["attach"] > 0, Account(k, u, {}) PROVE Used(k, u, o, h, v)
  <2>1. Users(k, u, o, h, v, {}, Y)
    BY <1>3, <1>6 DEF Users
  <2> QED
    BY <1>4, <2>1 DEF Used
<1>7. ASSUME h["attach"] > 0, Account(k, u, {"dmabuf", "attach"})
      PROVE  Used(k, u, o, h, v)
  <2>1. Balance(h, v, {"dmabuf", "attach"}, Y)
    BY <1>3, <1>7, Lemma_Turned
  <2>2. Users(k, u, o, h, v, {"dmabuf", "attach"}, Y)
    BY <1>3, <1>7, <2>1 DEF Users
  <2> QED
    BY <1>4, <2>2 DEF Used
<1> QED
  BY <1>5, <1>6, <1>7

\* The other process begins one.
LEMMA Lemma_OtherBegins ==
  ASSUME NEW k \in Qdmabuf!Kinds, NEW a, NEW h, NEW g, NEW v \in Nat,
         Counts(h),
         Counts(g), Used(k, a, << >>, h, v), NEW u
  PROVE  /\ /\ h["fd"] > 0 \/ v > 0
            /\ Looked(h, g) \/ Closed(h, g)
            /\ Stocked(h, g)
            /\ \E p
                 \in {"mmap", "fork", "dma_buf_put"} : Begun(k, u, p,
                                                             {"dmabuf"})
            => Used(k, a, u, g, v)
         /\ v > 0 /\ Begun(k, u, "munmap", {"dmabuf", "refcount"})
              => Used(k, a, u, h, v - 1)
<1> SUFFICES ASSUME h["fd"] > 0 \/ v > 0
             PROVE  /\ /\ Looked(h, g) \/ Closed(h, g)
                       /\ Stocked(h, g)
                       /\ \E p \in {"mmap", "fork", "dma_buf_put"} :
                            Begun(k, u, p, {"dmabuf"})
                       => Used(k, a, u, g, v)
                    /\ v > 0 /\ Begun(k, u, "munmap", {"dmabuf", "refcount"})
                         => Used(k, a, u, h, v - 1)
  OBVIOUS
<1>1. PICK X \in SUBSET Refs,
      Y \in SUBSET Refs : Users(k, a, << >>, h, v, X, Y)
  BY DEF Used, Nobody
<1>2. Y = {}
  BY <1>1, Lemma_NoAccount DEF Users, Account
<1>3. /\ Account(k, a, X) \/ ((Made(k, a) \/ Ready(k, a)) /\ X = {})
      /\ Balance(h, v, X, {}) /\ InStock(k, h)
  BY <1>1, <1>2 DEF Users
<1>4. {"dmabuf"} \in SUBSET Refs /\ {"dmabuf", "refcount"} \in SUBSET Refs
  BY DEF Refs
<1>5. \A p
        \in {"mmap", "fork", "dma_buf_put",
             "munmap"} : "attach" \notin Share(k, p)
  BY DEF Share, AppCalls, OtherCalls, Refs, AttachOf, DetachOf, MmapOf, PutOf,
     Qdmabuf!Kinds
<1>6. \A i \in 1 .. 1 : i = 1
  OBVIOUS
<1>7. ASSUME NEW p \in {"mmap", "fork", "dma_buf_put"},
             Begun(k, u, p, {"dmabuf"}),
             Looked(h, g) \/ Closed(h, g), Stocked(h, g)
      PROVE  Used(k, a, u, g, v)
  <2>1. Balance(g, v, X, {"dmabuf"}) /\ InStock(k, g)
    BY <1>3, <1>7, Lemma_Turned, Lemma_Stocked
  <2>2. Account(k, u, {"dmabuf"})
        /\ \A i \in 1 .. Len(u) : "attach" \notin Share(k, u[i].proc)
    BY <1>5, <1>6, <1>7 DEF Begun
  <2>3. Users(k, a, u, g, v, X, {"dmabuf"})
    BY <1>3, <2>1, <2>2 DEF Users
  <2> QED
    BY <1>4, <2>3 DEF Used
<1>8. ASSUME v > 0, Begun(k, u, "munmap", {"dmabuf", "refcount"})
      PROVE  Used(k, a, u, h, v - 1)
  <2>1. Balance(h, v - 1, X, {"dmabuf", "refcount"})
    BY <1>3, <1>8, Lemma_Turned
  <2>2. Account(k, u, {"dmabuf", "refcount"})
        /\ \A i \in 1 .. Len(u) : "attach" \notin Share(k, u[i].proc)
    BY <1>5, <1>6, <1>8 DEF Begun
  <2>3. Users(k, a, u, h, v - 1, X, {"dmabuf", "refcount"})
    BY <1>3, <2>1, <2>2 DEF Users
  <2> QED
    BY <1>4, <2>3 DEF Used
<1> QED
  BY <1>7, <1>8

\* A buffer is only made when there is none.
LEMMA Lemma_AllocBegins ==
  ASSUME NEW k \in Qdmabuf!Kinds, NEW h, NEW v \in Nat, Counts(h),
         Used(k, << >>, << >>, h, v), h["dmabuf"] = 0,
         NEW u, u = <<Qdmabuf!U!Frame("qdmabuf_ioctl_alloc")>>
  PROVE  Used(k, u, << >>, h, v)
<1> DEFINE f == Qdmabuf!U!Frame("qdmabuf_ioctl_alloc")
<1>1. h["fd"] = 0 /\ h["attach"] = 0 /\ v = 0
  <2>1. CASE Nobody(k, << >>, << >>, h, v)
    BY <2>1 DEF Nobody
  <2>2. CASE \E X, Y \in SUBSET Refs : Users(k, << >>, << >>, h, v, X, Y)
    <3>1. PICK X \in SUBSET Refs, Y \in SUBSET Refs :
            Users(k, << >>, << >>, h, v, X, Y)
      BY <2>2
    <3>2. X = {} /\ Y = {}
      BY <3>1, Lemma_NoAccount DEF Users, Account
    <3>3. Balance(h, v, {}, {})
      BY <3>1, <3>2 DEF Users
    <3>4. h["attach"] \in Nat /\ h["fd"] \in Nat
      BY DEF Counts, Watched, Refs, Stock
    <3>5. 0 >= h["fd"] + v + (h["attach"] - 0) + 0 + 0
      <4>1. One("attach" \in {}) = 0 /\ One("dmabuf" \in {}) = 0
        BY DEF One
      <4> QED
        BY <3>3, <4>1 DEF Balance
    <3> QED
      BY <3>4, <3>5
  <2> QED
    BY <2>1, <2>2 DEF Used
<1>2. "qdmabuf_ioctl_alloc" \in DOMAIN Qdmabuf!Code
      /\ Qdmabuf!Code["qdmabuf_ioctl_alloc"].get # << >>
      /\ AllocAt[k] >= 1
  <2>1. Len(Qdmabuf!Code["qdmabuf_ioctl_alloc"].get) = 5
        /\ AllocAt[k] \in 2 .. 4
    BY Lemma_ioctl_alloc
  <2>3. Len(Qdmabuf!Code["qdmabuf_ioctl_alloc"].get) # 0
    BY <2>1
  <2>2. Qdmabuf!Code["qdmabuf_ioctl_alloc"].get # << >>
    BY <2>3, ListEmpty
  <2> QED
    BY <2>1, <2>2, Lemma_MakersDull
<1>3. f.proc = "qdmabuf_ioctl_alloc" /\ f.phase = "get" /\ f.at = 1
  BY <1>2, Lemma_QFrames
<1> HIDE DEF f
<1>4. u = <<f>>
  BY DEF f
<1>5. Len(u) = 1 /\ u[1] = f
  BY <1>4
<1>6. Starting(k, u)
  BY <1>2, <1>3, <1>5 DEF Starting
<1>7. Harmless(k, << >>)
  <2>1. Len(<< >>) = 0
    BY ListEmpty
  <2>2. \A i \in 1 .. 0 : FALSE
    OBVIOUS
  <2> QED
    BY <2>1, <2>2 DEF Harmless
<1> QED
  BY <1>1, <1>6, <1>7 DEF Used, Nobody, Making

-----------------------------------------------------------------------------
(* The invariant holds, and is what the run checks.                        *)

\* At first there is no buffer, and no call.
LEMMA Lemma_BufferInit == Qdmabuf!Init => BufferInv
<1> SUFFICES ASSUME Qdmabuf!Init PROVE BufferInv
  OBVIOUS
<1>1. /\ kind \in Qdmabuf!Kinds /\ vmas = 0
      /\ stack = [t \in Qdmabuf!Tasks |-> << >>]
      /\ held = [r \in Qdmabuf!Resources |-> 0]
      /\ \E kernel \in {{"mapping"}, {"mapping_old"}} :
           absent = kernel \cup Foreign(kind)
  BY DEF Qdmabuf!Init, Foreign
<1>2. QTyped
  <2>1. << >> \in Seq(QFrames)
    OBVIOUS
  <2>2. stack \in [Qdmabuf!Tasks -> Seq(QFrames)]
    BY <1>1, <2>1
  <2>3. held \in [Qdmabuf!Resources -> Nat]
    BY <1>1
  <2>4. /\ Foreign(kind) \subseteq absent
        /\ absent \subseteq Foreign(kind) \cup {"mapping", "mapping_old"}
    BY <1>1
  <2> QED
    BY <1>1, <2>2, <2>3, <2>4 DEF QTyped
<1>3. /\ stack["admin"] = << >> /\ stack["app"] = << >>
      /\ stack["other"] = << >>
  BY <1>1 DEF Qdmabuf!Tasks
<1>4. held["fd"] = 0 /\ held["attach"] = 0
  <2>1. {"fd", "attach"} \subseteq Qdmabuf!Resources
    <3>1. {"fd", "attach"} \subseteq Watched
      BY DEF Watched, Refs, Stock
    <3> QED
      BY <3>1, Lemma_WatchedAre
  <2> QED
    BY <1>1, <2>1
<1>5. \A i \in 1 .. Len(<< >>) : FALSE
  <2>1. Len(<< >>) = 0
    BY ListEmpty
  <2>2. \A i \in 1 .. 0 : FALSE
    OBVIOUS
  <2> QED
    BY <2>1, <2>2
<1>6. Calm(stack["admin"]) /\ Harmless(kind, stack["app"])
      /\ Harmless(kind, stack["other"])
  BY <1>3, <1>5 DEF Calm, Harmless
<1> QED
  BY <1>1, <1>2, <1>4, <1>6 DEF BufferInv, Used, Nobody

\* What follows from the types.
LEMMA Lemma_Typed ==
  ASSUME QTyped
  PROVE  /\ kind \in Qdmabuf!Kinds /\ vmas \in Nat /\ Counts(held)
         /\ {"admin", "app", "other"} = Qdmabuf!Tasks
         /\ \A t \in Qdmabuf!Tasks : stack[t] \in Seq(QFrames)
<1>1. Watched \subseteq Qdmabuf!Resources
  BY Lemma_WatchedAre
<1> QED
  BY <1>1 DEF QTyped, Counts, Qdmabuf!Tasks

\* A task starts a function.
LEMMA Lemma_QStarts ==
  ASSUME QTyped, NEW t \in Qdmabuf!Tasks, NEW p \in DOMAIN Qdmabuf!Code,
         Qdmabuf!Begin(t, p), held' \in [Qdmabuf!Resources -> Nat],
         vmas' \in Nat
  PROVE  /\ stack[t] = << >> /\ stack'[t] = <<Qdmabuf!U!Frame(p)>>
         /\ \A u \in Qdmabuf!Tasks \ {t} : stack'[u] = stack[u]
         /\ kind' = kind /\ QTyped' /\ Counts(held)'
<1>1. <<Qdmabuf!U!Frame(p)>> \in Seq(QFrames)
  <2>1. Qdmabuf!U!Frame(p) \in QFrames
    BY Lemma_QFrames
  <2> QED
    BY <2>1
<1>2. stack' = [stack EXCEPT ![t] = <<Qdmabuf!U!Frame(p)>>] /\ stack[t] = << >>
      /\ kind' = kind /\ absent' = absent
  BY DEF Qdmabuf!Begin, Qdmabuf!U!Begin, Qdmabuf!U!Idle
<1>3. stack \in [Qdmabuf!Tasks -> Seq(QFrames)]
  BY DEF QTyped
<1>4. stack' \in [Qdmabuf!Tasks -> Seq(QFrames)]
  BY <1>1, <1>2, <1>3
<1>5. QTyped'
  BY <1>2, <1>4 DEF QTyped
<1>6. Counts(held)'
  <2>1. Watched \subseteq Qdmabuf!Resources
    BY Lemma_WatchedAre
  <2> QED
    BY <2>1 DEF Counts
<1> QED
  BY <1>2, <1>3, <1>5, <1>6

\* The driver core starts one.
LEMMA Lemma_AdminStarts ==
  ASSUME BufferInv, NEW p \in Idlers, Qdmabuf!Begin("admin", p),
         held' = held, vmas' = vmas
  PROVE  BufferInv'
<1>1. QTyped /\ "admin" \in Qdmabuf!Tasks /\ p \in DOMAIN Qdmabuf!Code
      /\ held' \in [Qdmabuf!Resources -> Nat] /\ vmas' \in Nat
  BY Lemma_Functions DEF BufferInv, QTyped, Qdmabuf!Tasks
<1>2. /\ stack'["admin"] = <<Qdmabuf!U!Frame(p)>> /\ kind' = kind /\ QTyped'
      /\ \A u \in Qdmabuf!Tasks \ {"admin"} : stack'[u] = stack[u]
  BY <1>1, Lemma_QStarts
<1>3. stack'["app"] = stack["app"] /\ stack'["other"] = stack["other"]
  BY <1>2 DEF Qdmabuf!Tasks
<1>4. Calm(stack'["admin"])
  <2> DEFINE f == Qdmabuf!U!Frame(p)
  <2>1. f.proc = p
    BY <1>1, Lemma_QFrames
  <2> HIDE DEF f
  <2>2. stack'["admin"] = <<f>>
    BY <1>2 DEF f
  <2>3. Len(stack'["admin"]) = 1 /\ stack'["admin"][1] = f
    BY <2>2
  <2>4. \A i \in 1 .. 1 : i = 1
    OBVIOUS
  <2> QED
    BY <2>1, <2>3, <2>4 DEF Calm
<1> QED
  BY <1>2, <1>3, <1>4 DEF BufferInv

\* The first process starts one; the other one.
LEMMA Lemma_AppStarts ==
  ASSUME BufferInv, NEW p \in DOMAIN Qdmabuf!Code, Qdmabuf!Begin("app", p),
         held' \in [Qdmabuf!Resources -> Nat], vmas' = vmas,
         Used(kind, << >>, stack["other"], held, vmas) =>
           Used(kind, <<Qdmabuf!U!Frame(p)>>, stack["other"], held', vmas)
  PROVE  BufferInv'
<1>1. QTyped /\ "app" \in Qdmabuf!Tasks /\ vmas' \in Nat
  BY DEF BufferInv, QTyped, Qdmabuf!Tasks
<1>2. /\ stack["app"] = << >> /\ stack'["app"] = <<Qdmabuf!U!Frame(p)>>
      /\ \A u \in Qdmabuf!Tasks \ {"app"} : stack'[u] = stack[u]
      /\ kind' = kind /\ QTyped'
  BY <1>1, Lemma_QStarts
<1>3. stack'["admin"] = stack["admin"] /\ stack'["other"] = stack["other"]
  BY <1>2 DEF Qdmabuf!Tasks
<1> QED
  BY <1>2, <1>3 DEF BufferInv

\* The same for the other process.
LEMMA Lemma_OtherStarts ==
  ASSUME BufferInv, NEW p \in DOMAIN Qdmabuf!Code, Qdmabuf!Begin("other", p),
         held' \in [Qdmabuf!Resources -> Nat], vmas' \in Nat,
         Used(kind, stack["app"], << >>, held, vmas) =>
           Used(kind, stack["app"], <<Qdmabuf!U!Frame(p)>>, held', vmas')
  PROVE  BufferInv'
<1>1. QTyped /\ "other" \in Qdmabuf!Tasks
  BY DEF BufferInv, QTyped, Qdmabuf!Tasks
<1>2. /\ stack["other"] = << >> /\ stack'["other"] = <<Qdmabuf!U!Frame(p)>>
      /\ \A u \in Qdmabuf!Tasks \ {"other"} : stack'[u] = stack[u]
      /\ kind' = kind /\ QTyped'
  BY <1>1, Lemma_QStarts
<1>3. stack'["admin"] = stack["admin"] /\ stack'["app"] = stack["app"]
  BY <1>2 DEF Qdmabuf!Tasks
<1> QED
  BY <1>2, <1>3 DEF BufferInv

\* Only what counts makes a difference.
LEMMA Lemma_UsedSame ==
  ASSUME NEW k, NEW a, NEW o, NEW h, NEW g, NEW v, QSame(h, g),
         Used(k, a, o, h, v)
  PROVE  Used(k, a, o, g, v)
<1>1. /\ \A x \in Watched : g[x] = h[x]
      /\ {"fd", "attach", "dmabuf", "refcount", "page1", "page2"}
           \subseteq Watched
      /\ Whole(k) \subseteq Watched
  <2>1. {"fd", "attach", "dmabuf", "refcount", "page1", "page2"}
          \subseteq Watched
    BY DEF Watched, Refs, Stock
  <2>2. Whole(k) \subseteq Watched
    BY DEF Watched, Refs, Stock, Whole
  <2> QED
    BY <2>1, <2>2 DEF QSame
<1>2. /\ g["fd"] = h["fd"] /\ g["attach"] = h["attach"]
      /\ g["dmabuf"] = h["dmabuf"] /\ g["refcount"] = h["refcount"]
      /\ g["page1"] = h["page1"] /\ g["page2"] = h["page2"]
  BY <1>1
<1>3. \A c, i : Gave(h, c, i) => Gave(g, c, i)
  BY <1>1, <1>2 DEF Gave
<1>4. \A f : Filling(h, f) => Filling(g, f)
  BY <1>3 DEF Filling
<1>5. Making(k, a, h) => Making(k, a, g)
  BY <1>4 DEF Making, Allocating, Compacting
<1>6. InStock(k, h) => InStock(k, g)
  BY <1>1 DEF InStock
<1>7. \A X, Y : Balance(h, v, X, Y) => Balance(g, v, X, Y)
  BY <1>2 DEF Balance
<1>8. Nobody(k, a, o, h, v) => Nobody(k, a, o, g, v)
  BY <1>2, <1>5 DEF Nobody
<1>9. \A X, Y : Users(k, a, o, h, v, X, Y) => Users(k, a, o, g, v, X, Y)
  BY <1>6, <1>7 DEF Users
<1> QED
  BY <1>8, <1>9 DEF Used

\* A step of the driver core; of the first process; of the other.
LEMMA Lemma_RunsAdmin == BufferInv /\ Qdmabuf!RunAdmin => BufferInv'
<1> SUFFICES ASSUME BufferInv, Qdmabuf!RunAdmin PROVE BufferInv'
  OBVIOUS
<1>1. /\ QTyped /\ "admin" \in Qdmabuf!Tasks /\ Qdmabuf!U!Run("admin")
      /\ vmas' = vmas /\ absent' = absent /\ kind' = kind
      /\ Calm(stack["admin"])
  BY DEF BufferInv, Qdmabuf!Tasks, Qdmabuf!RunAdmin
<1>2. /\ stack["admin"] # << >> /\ stack["admin"] \in Seq(QFrames)
      /\ stack' \in [Qdmabuf!Tasks -> Seq(QFrames)]
      /\ \A u \in Qdmabuf!Tasks \ {"admin"} : stack'[u] = stack[u]
      /\ held' \in [Qdmabuf!Resources -> Nat]
      /\ QSteps(kind, stack["admin"], stack'["admin"], held, held')
  BY <1>1, Lemma_QRun
<1>3. kind \in Qdmabuf!Kinds
  BY <1>1 DEF QTyped
<1>4. Calm(stack'["admin"]) /\ QSame(held, held')
  BY <1>1, <1>2, <1>3, Lemma_Calm
<1>5. QTyped'
  BY <1>1, <1>2 DEF QTyped
<1>6. stack'["app"] = stack["app"] /\ stack'["other"] = stack["other"]
  BY <1>2 DEF Qdmabuf!Tasks
<1>7. Used(kind, stack["app"], stack["other"], held', vmas)
  BY <1>4, Lemma_UsedSame DEF BufferInv
<1> QED
  BY <1>1, <1>4, <1>5, <1>6, <1>7 DEF BufferInv

\* So does a step of the application.
LEMMA Lemma_RunsApp == BufferInv /\ Qdmabuf!RunApp => BufferInv'
<1> SUFFICES ASSUME BufferInv, Qdmabuf!RunApp PROVE BufferInv'
  OBVIOUS
<1>1. /\ QTyped /\ "app" \in Qdmabuf!Tasks /\ Qdmabuf!U!Run("app")
      /\ vmas' = vmas /\ absent' = absent /\ kind' = kind
      /\ Used(kind, stack["app"], stack["other"], held, vmas)
  BY DEF BufferInv, Qdmabuf!Tasks, Qdmabuf!RunApp
<1>2. /\ stack["app"] # << >> /\ stack["app"] \in Seq(QFrames)
      /\ stack' \in [Qdmabuf!Tasks -> Seq(QFrames)]
      /\ \A u \in Qdmabuf!Tasks \ {"app"} : stack'[u] = stack[u]
      /\ held' \in [Qdmabuf!Resources -> Nat]
      /\ QSteps(kind, stack["app"], stack'["app"], held, held')
  BY <1>1, Lemma_QRun
<1>3. kind \in Qdmabuf!Kinds /\ vmas \in Nat /\ Counts(held)
  BY <1>1, Lemma_Typed
<1>4. Used(kind, stack'["app"], stack["other"], held', vmas)
  BY <1>1, <1>2, <1>3, Lemma_AppStep
<1>5. QTyped'
  BY <1>1, <1>2 DEF QTyped
<1>6. stack'["admin"] = stack["admin"] /\ stack'["other"] = stack["other"]
  BY <1>2 DEF Qdmabuf!Tasks
<1> QED
  BY <1>1, <1>4, <1>5, <1>6 DEF BufferInv

\* And one of the other process.
LEMMA Lemma_RunsOther == BufferInv /\ Qdmabuf!RunOther => BufferInv'
<1> SUFFICES ASSUME BufferInv, Qdmabuf!RunOther PROVE BufferInv'
  OBVIOUS
<1> DEFINE s == stack["other"]
<1>1. /\ QTyped /\ "other" \in Qdmabuf!Tasks /\ Qdmabuf!U!Run("other")
      /\ absent' = absent /\ kind' = kind
      /\ Used(kind, stack["app"], s, held, vmas)
  BY DEF BufferInv, Qdmabuf!Tasks, Qdmabuf!RunOther
<1>2. /\ s # << >> /\ s \in Seq(QFrames)
      /\ stack' \in [Qdmabuf!Tasks -> Seq(QFrames)]
      /\ \A u \in Qdmabuf!Tasks \ {"other"} : stack'[u] = stack[u]
      /\ held' \in [Qdmabuf!Resources -> Nat]
      /\ QSteps(kind, s, stack'["other"], held, held')
  BY <1>1, Lemma_QRun
<1>3. kind \in Qdmabuf!Kinds /\ vmas \in Nat /\ Counts(held) /\ Counts(held')
  <2>1. Watched \subseteq Qdmabuf!Resources
    BY Lemma_WatchedAre
  <2> QED
    BY <1>1, <1>2, <2>1, Lemma_Typed DEF Counts
<1>4. (Qdmabuf!U!Leaves("other", "ok")
         /\ Qdmabuf!U!Top("other").proc \in {"mmap", "fork"}) <=> Mapped(s)
  <2>1. ~Qdmabuf!U!Idle("other")
    BY <1>2 DEF Qdmabuf!U!Idle
  <2>2. LET f == s[1] IN
        /\ f \in QFrames /\ Qdmabuf!U!Top("other") = f
        /\ Qdmabuf!U!Ends("other") <=> ~Busy(f)
        /\ Qdmabuf!U!Falls("other")
             <=> (f.phase = "get" /\ ~Busy(f) /\ Qdmabuf!Code[f.proc].through)
    BY <1>1, <2>1, Lemma_QTop
  <2>3. s[1].proc \in {"mmap", "fork"} => ~Qdmabuf!Code[s[1].proc].through
    BY <2>2, Lemma_Shaped DEF QFrames
  <2> QED
    BY <2>1, <2>2, <2>3 DEF Qdmabuf!U!Leaves, Mapped
<1>5. vmas' = IF Mapped(s) THEN vmas + 1 ELSE vmas
  BY <1>4 DEF Qdmabuf!RunOther
<1>6. Used(kind, stack["app"], stack'["other"], held', vmas')
  BY <1>1, <1>2, <1>3, <1>5, Lemma_OtherStep
<1>7. QTyped'
  BY <1>1, <1>2, <1>3, <1>5 DEF QTyped
<1>8. stack'["admin"] = stack["admin"] /\ stack'["app"] = stack["app"]
  BY <1>2 DEF Qdmabuf!Tasks
<1> QED
  BY <1>1, <1>6, <1>7, <1>8 DEF BufferInv

\* A descriptor is looked up and the dma-buf referenced.
LEMMA Lemma_LooksUp ==
  ASSUME QTyped, held' = [held EXCEPT !["dmabuf"] = @ + 1]
  PROVE  /\ held' \in [Qdmabuf!Resources -> Nat] /\ Counts(held')
         /\ Looked(held, held') /\ Stocked(held, held')
<1>1. /\ Watched \subseteq Qdmabuf!Resources
      /\ {"dmabuf", "fd", "attach", "refcount"} \subseteq Watched
      /\ Stock \subseteq Watched /\ "dmabuf" \notin Stock
  <2>1. {"dmabuf", "fd", "attach", "refcount"} \subseteq Watched
        /\ Stock \subseteq Watched /\ "dmabuf" \notin Stock
    BY DEF Watched, Refs, Stock
  <2> QED
    BY <2>1, Lemma_WatchedAre
<1>2. held \in [Qdmabuf!Resources -> Nat]
  BY DEF QTyped
<1>3. held' \in [Qdmabuf!Resources -> Nat]
  BY <1>1, <1>2
<1>4. \A r \in Watched : held'[r] = IF r = "dmabuf" THEN held[r] + 1
        ELSE held[r]
  BY <1>1, <1>2
<1>5. Looked(held, held')
  BY <1>1, <1>4 DEF Looked
<1>6. Stocked(held, held')
  BY <1>1, <1>4 DEF Stocked
<1> QED
  BY <1>1, <1>3, <1>5, <1>6 DEF Counts

\* Every beginning keeps the invariant.
LEMMA Lemma_BufferBegins ==
  BufferInv
  /\ (Qdmabuf!Insmod \/ Qdmabuf!Rmmod \/ Qdmabuf!Bind \/ Qdmabuf!Unbind
                \/ Qdmabuf!Alloc \/ Qdmabuf!Info \/ Qdmabuf!Import
                \/ Qdmabuf!WhileImported)
    => BufferInv'
<1> SUFFICES ASSUME BufferInv PROVE
      (Qdmabuf!Insmod \/ Qdmabuf!Rmmod \/ Qdmabuf!Bind \/ Qdmabuf!Unbind
       \/ Qdmabuf!Alloc \/ Qdmabuf!Info \/ Qdmabuf!Import
       \/ Qdmabuf!WhileImported) => BufferInv'
  OBVIOUS
<1>1. /\ QTyped /\ kind \in Qdmabuf!Kinds /\ vmas \in Nat /\ Counts(held)
      /\ held \in [Qdmabuf!Resources -> Nat]
  BY Lemma_Typed DEF BufferInv, QTyped
<1>2. {"qdmabuf_mod_init", "qdmabuf_mod_exit", "probe", "remove"}
        \subseteq Idlers
  BY DEF Idlers
<1>3. {"qdmabuf_ioctl_alloc", "import", "qdmabuf_ioctl_info", "map_from",
       "map_to", "unimport"} \subseteq DOMAIN Qdmabuf!Code
  BY Lemma_Functions DEF Idlers, Others, Makers
<1>4. CASE Qdmabuf!Insmod \/ Qdmabuf!Rmmod \/ Qdmabuf!Bind \/ Qdmabuf!Unbind
  <2>1. /\ \E p \in Idlers : Qdmabuf!Begin("admin", p)
        /\ held' = held /\ vmas' = vmas
    BY <1>2, <1>4 DEF Qdmabuf!Insmod, Qdmabuf!Rmmod, Qdmabuf!Bind,
       Qdmabuf!Unbind
  <2> QED
    BY <2>1, Lemma_AdminStarts
<1>5. CASE Qdmabuf!Alloc
  <2> DEFINE p == "qdmabuf_ioctl_alloc"
  <2>1. /\ Qdmabuf!Begin("app", p) /\ held' = held /\ vmas' = vmas
        /\ stack["other"] = << >> /\ held["dmabuf"] = 0
    BY <1>5 DEF Qdmabuf!Alloc, Qdmabuf!Unused, Qdmabuf!Quiet, Qdmabuf!U!Idle,
       Qdmabuf!Tasks
  <2>2. Used(kind, << >>, stack["other"], held, vmas) =>
          Used(kind, <<Qdmabuf!U!Frame(p)>>, stack["other"], held', vmas)
    BY <1>1, <2>1, Lemma_AllocBegins
  <2> QED
    BY <1>1, <1>3, <2>1, <2>2, Lemma_AppStarts
<1>6. ASSUME NEW p \in {"import", "qdmabuf_ioctl_info"},
             Qdmabuf!BeginWithRef("app", p), vmas' = vmas
      PROVE  BufferInv'
  <2>1. /\ Qdmabuf!Begin("app", p) /\ held["fd"] > 0
        /\ held' = [held EXCEPT !["dmabuf"] = @ + 1]
    BY <1>6 DEF Qdmabuf!BeginWithRef
  <2>2. /\ held' \in [Qdmabuf!Resources -> Nat] /\ Counts(held')
        /\ Looked(held, held') /\ Stocked(held, held')
    BY <1>1, <2>1, Lemma_LooksUp
  <2>3. Account(kind, <<Qdmabuf!U!Frame(p)>>, {"dmabuf"})
    BY <1>1, <1>6, Lemma_Begun DEF Begun
  <2>4. Used(kind, << >>, stack["other"], held, vmas) =>
          Used(kind, <<Qdmabuf!U!Frame(p)>>, stack["other"], held', vmas)
    BY <1>1, <2>1, <2>2, <2>3, Lemma_AppBegins
  <2> QED
    BY <1>3, <1>6, <2>1, <2>2, <2>4, Lemma_AppStarts
<1>7. CASE Qdmabuf!Info \/ Qdmabuf!Import
  BY <1>6, <1>7 DEF Qdmabuf!Info, Qdmabuf!Import
<1>8. CASE Qdmabuf!WhileImported
  <2>1. PICK p \in {"map_from", "map_to", "unimport"} : Qdmabuf!Begin("app", p)
    BY <1>8 DEF Qdmabuf!WhileImported
  <2>2. held["attach"] > 0 /\ held' = held /\ vmas' = vmas
    BY <1>8 DEF Qdmabuf!WhileImported, Qdmabuf!Imported
  <2>3. \/ Account(kind, <<Qdmabuf!U!Frame(p)>>, {})
        \/ Account(kind, <<Qdmabuf!U!Frame(p)>>, {"dmabuf", "attach"})
    BY <1>1, Lemma_Begun DEF Begun
  <2>4. Used(kind, << >>, stack["other"], held, vmas) =>
          Used(kind, <<Qdmabuf!U!Frame(p)>>, stack["other"], held', vmas)
    BY <1>1, <2>2, <2>3, Lemma_AppBegins
  <2> QED
    BY <1>1, <1>3, <2>1, <2>2, <2>4, Lemma_AppStarts
<1> QED
  BY <1>4, <1>5, <1>7, <1>8

\* A descriptor is closed, or a map, a fork or the end of a map begins.
LEMMA Lemma_MapBegins ==
  BufferInv
  /\ (Qdmabuf!Close \/ Qdmabuf!Mmap \/ Qdmabuf!Fork \/ Qdmabuf!Munmap)
    => BufferInv'
<1> SUFFICES ASSUME BufferInv PROVE
      (Qdmabuf!Close \/ Qdmabuf!Mmap \/ Qdmabuf!Fork \/ Qdmabuf!Munmap)
        => BufferInv'
  OBVIOUS
<1>1. /\ QTyped /\ kind \in Qdmabuf!Kinds /\ vmas \in Nat /\ Counts(held)
      /\ held \in [Qdmabuf!Resources -> Nat]
  BY Lemma_Typed DEF BufferInv, QTyped
<1>3. {"mmap", "fork", "munmap", "dma_buf_put"} \subseteq DOMAIN Qdmabuf!Code
  BY Lemma_Functions DEF Others, Putters
<1>4. ASSUME NEW p \in {"mmap", "fork", "dma_buf_put"},
             Qdmabuf!Begin("other", p),
             vmas' = vmas, held["fd"] > 0 \/ vmas > 0,
             held' \in [Qdmabuf!Resources -> Nat], Counts(held'),
             Looked(held, held') \/ Closed(held, held'), Stocked(held, held')
      PROVE  BufferInv'
  <2>1. Begun(kind, <<Qdmabuf!U!Frame(p)>>, p, {"dmabuf"})
    BY <1>1, Lemma_Begun
  <2>2. Used(kind, stack["app"], << >>, held, vmas) =>
          Used(kind, stack["app"], <<Qdmabuf!U!Frame(p)>>, held', vmas')
    BY <1>1, <1>4, <2>1, Lemma_OtherBegins
  <2> QED
    BY <1>1, <1>3, <1>4, <2>2, Lemma_OtherStarts
<1>5. CASE Qdmabuf!Mmap \/ Qdmabuf!Fork
  <2>1. /\ \E p \in {"mmap", "fork"} : Qdmabuf!Begin("other", p)
        /\ held["fd"] > 0 \/ vmas > 0
        /\ vmas' = vmas /\ held' = [held EXCEPT !["dmabuf"] = @ + 1]
    <3>1. CASE Qdmabuf!Mmap
      BY <3>1 DEF Qdmabuf!Mmap, Qdmabuf!BeginWithRef
    <3>2. CASE Qdmabuf!Fork
      <4>1. vmas > 0
        BY <1>1, <3>2 DEF Qdmabuf!Fork
      <4> QED
        BY <3>2, <4>1 DEF Qdmabuf!Fork
    <3> QED
      BY <1>5, <3>1, <3>2
  <2>2. /\ held' \in [Qdmabuf!Resources -> Nat] /\ Counts(held')
        /\ Looked(held, held') /\ Stocked(held, held')
    BY <1>1, <2>1, Lemma_LooksUp
  <2> QED
    BY <1>4, <2>1, <2>2
<1>6. CASE Qdmabuf!Close
  <2>1. /\ Qdmabuf!Begin("other", "dma_buf_put") /\ vmas' = vmas
        /\ held["fd"] > 0 /\ held' = [held EXCEPT !["fd"] = @ - 1]
    BY <1>6 DEF Qdmabuf!Close
  <2>2. /\ Watched \subseteq Qdmabuf!Resources
        /\ {"dmabuf", "fd", "attach", "refcount"} \subseteq Watched
        /\ Stock \subseteq Watched
    <3>1. {"dmabuf", "fd", "attach", "refcount"} \subseteq Watched
          /\ Stock \subseteq Watched
      BY DEF Watched, Refs, Stock
    <3> QED
      BY <3>1, Lemma_WatchedAre
  <2>3. held["fd"] - 1 \in Nat
    BY <1>1, <2>1, <2>2
  <2>4. held' \in [Qdmabuf!Resources -> Nat]
    BY <1>1, <2>1, <2>3
  <2>5. \A r \in Watched : held'[r] = IF r = "fd" THEN held[r] - 1 ELSE held[r]
    BY <1>1, <2>1, <2>2
  <2>6. Closed(held, held')
    BY <2>1, <2>2, <2>5 DEF Closed
  <2>7. Stocked(held, held') /\ Counts(held')
    BY <2>2, <2>4, <2>5 DEF Stocked, Counts
  <2> QED
    BY <1>4, <2>1, <2>4, <2>6, <2>7
<1>7. CASE Qdmabuf!Munmap
  <2> DEFINE p == "munmap"
  <2>1. /\ Qdmabuf!Begin("other", p) /\ vmas > 0 /\ vmas' = vmas - 1
        /\ held' = held
    BY <1>7 DEF Qdmabuf!Munmap
  <2>2. vmas' \in Nat
    BY <1>1, <2>1
  <2>3. Begun(kind, <<Qdmabuf!U!Frame(p)>>, p, {"dmabuf", "refcount"})
    BY <1>1, Lemma_Begun
  <2>4. Used(kind, stack["app"], << >>, held, vmas) =>
          Used(kind, stack["app"], <<Qdmabuf!U!Frame(p)>>, held', vmas')
    BY <1>1, <2>1, <2>3, Lemma_OtherBegins
  <2> QED
    BY <1>1, <1>3, <2>1, <2>2, <2>4, Lemma_OtherStarts
<1> QED
  BY <1>5, <1>6, <1>7

\* Every step keeps the invariant.
LEMMA Lemma_BufferStep ==
  BufferInv /\ [Qdmabuf!Next]_(Qdmabuf!vars) => BufferInv'
<1> SUFFICES ASSUME BufferInv, [Qdmabuf!Next]_(Qdmabuf!vars) PROVE BufferInv'
  OBVIOUS
<1>1. CASE UNCHANGED Qdmabuf!vars
  BY <1>1 DEF Qdmabuf!vars, BufferInv, QTyped
<1>2. CASE Qdmabuf!Next
  BY <1>2, Lemma_BufferBegins, Lemma_MapBegins, Lemma_RunsAdmin, Lemma_RunsApp,
     Lemma_RunsOther DEF Qdmabuf!Next
<1> QED
  BY <1>1, <1>2

\* It implies the property.
LEMMA Lemma_BufferUsed == BufferInv => Qdmabuf!BufferWhileUsed
<1> SUFFICES ASSUME BufferInv, vmas > 0 \/ held["attach"] > 0 \/ held["fd"] > 0
             PROVE
               /\ held["buf"] > 0 /\ held["dmabuf"] > 0 /\ held["refcount"] > 0
               /\ kind # "dma_sg" => held["vaddr"] > 0
               /\ kind = "dma_sg" => held["page1"] > 0 /\ held["page2"] > 0
               /\ kind # "vmalloc" => held["dev_ref"] > 0
  BY DEF Qdmabuf!BufferWhileUsed
<1>1. kind \in Qdmabuf!Kinds /\ vmas \in Nat /\ Counts(held)
  BY Lemma_Typed DEF BufferInv
<1>2. PICK X \in SUBSET Refs, Y \in SUBSET Refs :
        Users(kind, stack["app"], stack["other"], held, vmas, X, Y)
  BY DEF BufferInv, Used, Nobody
<1>3. /\ Balance(held, vmas, X, Y) /\ InStock(kind, held)
      /\ "dmabuf" \in X \/ X = {}
  BY <1>2 DEF Users, Account
<1>4. \A x \in Watched : held[x] \in Nat
  BY <1>1 DEF Counts
<1>5. \A r \in Whole(kind) \ Refs : held[r] > 0
  <2>1. Whole(kind) \subseteq Watched
    BY DEF Whole, Watched, Refs, Stock
  <2>2. \A n \in Nat : n >= 1 => n > 0
    OBVIOUS
  <2> QED
    BY <1>3, <1>4, <2>1, <2>2 DEF InStock
<1>6. /\ held["buf"] > 0
      /\ kind # "dma_sg" => held["vaddr"] > 0
      /\ kind = "dma_sg" => held["page1"] > 0 /\ held["page2"] > 0
      /\ kind # "vmalloc" => held["dev_ref"] > 0
  BY <1>5 DEF Whole, Refs
<1> DEFINE ax == One("attach" \in X)
           dx == One("dmabuf" \in X)
           rx == One("refcount" \in X)
           dy == One("dmabuf" \in Y)
           ry == One("refcount" \in Y)
           ha == held["attach"]
           hd == held["dmabuf"]
           hr == held["refcount"]
           hf == held["fd"]
<1>7. /\ ax \in Nat /\ dx \in Nat /\ rx \in Nat /\ dy \in Nat /\ ry \in Nat
      /\ ax <= dx
  BY <1>3 DEF One
<1>8. ha \in Nat /\ hd \in Nat /\ hr \in Nat /\ hf \in Nat
  BY <1>4 DEF Watched, Refs, Stock
<1>9. /\ ha >= ax /\ hd >= hf + vmas + (ha - ax) + dx + dy
      /\ hr >= 1 + vmas + rx + ry /\ (vmas > 0 \/ ha > 0 \/ hf > 0)
  BY <1>3 DEF Balance
<1>10. hd > 0 /\ hr > 0
  <2> HIDE DEF ax, dx, rx, dy, ry, ha, hd, hr, hf
  <2> QED
    BY <1>1, <1>7, <1>8, <1>9
<1> QED
  BY <1>6, <1>10

\* A step of a behaviour of qdmabuf is a step of it, or none.
LEMMA Lemma_QdmabufPart ==
  ASSUME part = "qdmabuf", [Next]_vars
  PROVE  [Qdmabuf!Next]_(Qdmabuf!vars)
BY DEF Next, vars, ofUnwind, ofQdmabuf, Qdmabuf!vars

\* However the ioctls, the importer and the maps of a dma-buf are interleaved,
\* and whatever of them fails at any step: the buffer, what its memory is made
\* of and the dma-buf stay while a map, an attachment or a descriptor is left.
THEOREM UsedBufferStays == Spec => []BufferWhileUsed
<1> DEFINE Inv == part = "qdmabuf" => BufferInv
<1>1. Init => Inv
  BY Lemma_BufferInit DEF Init
<1>2. Inv /\ [Next]_vars => Inv'
  <2> SUFFICES ASSUME Inv, [Next]_vars, part' = "qdmabuf" PROVE BufferInv'
    OBVIOUS
  <2>1. part = "qdmabuf" /\ BufferInv
    BY DEF Next, vars
  <2> QED
    BY <2>1, Lemma_QdmabufPart, Lemma_BufferStep
<1>3. Inv => BufferWhileUsed
  BY Lemma_BufferUsed DEF BufferWhileUsed
<1> QED
  BY <1>1, <1>2, <1>3, PTL DEF Spec
=============================================================================
