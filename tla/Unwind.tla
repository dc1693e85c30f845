------------------------------- MODULE Unwind -------------------------------
(***************************************************************************)
(* The shape of the drivers' set-up and tear-down code: a function acquires *)
(* things in order and, when one is refused, goes to a label from which it *)
(* releases what it holds, falling through the labels below.  A function   *)
(* is a script: the steps of its body and the releases below its labels.   *)
(* A task runs scripts with a stack of frames, one acquisition or release  *)
(* per step, so that two tasks interleave the way two threads would.       *)
(***************************************************************************)
EXTENDS Naturals, Sequences, Scripts

CONSTANTS
  Code,       \* function name -> script
  Resources,  \* what is acquired and released
  Recorded,   \* released only if the driver's own record says it is there
  Sticky,     \* recorded, and the record is not cleared by the release
  Exclusive,  \* cannot be acquired twice
  Checks,     \* tests: they can fail, and hold nothing
  Certain,    \* never refused
  Once,       \* not acquired again while it is recorded
  Counted,    \* references: a release ends there unless it was the last one
  Inner,      \* counters in the memory of the owner
  Only,       \* r \in DOMAIN Only is acquired only if Only[r] was
  KeptIf,     \* r \in DOMAIN KeptIf stays if KeptIf[r] was refused
  Owner,      \* the resource whose memory holds the records
  Noted,      \* <<function, step>> -> what properties call its refusal
  MaxRefusals \* bound: refusals since no task was in a function

VARIABLES
  stack,   \* the frames of each task, the innermost first
  held,    \* how often each resource is held
  known,   \* the driver's records of what it acquired
  refused, \* the driver's records of what it was refused
  reliable,\* nothing is refused, but what cannot be acquired twice
  absent,  \* what this machine does not have, resources and functions
  refusals,\* counted for the bound
  failed,  \* history: the refusals of Noted that happened, by name
  over     \* history: what was released without being held


\* A function starts; one that finds nothing to do returns at once.
Frame(p) ==
  LET f == Code[p]
      phase == IF f.get = << >> THEN "put" ELSE "get"
      acts == f.when = "always" \/ held[f.when] > 0 IN
  [proc |-> p, result |-> "ok", phase |-> phase,
   at |-> IF acts THEN 1 ELSE Len(f[phase]) + 1]

Idle(t) == stack[t] = << >>
Top(t) == Head(stack[t])
Body(t) == Code[Top(t).proc]
In(t, phase) == ~Idle(t) /\ Top(t).phase = phase
Ends(t) == Top(t).at > Len(Body(t)[Top(t).phase])
Falls(t) == In(t, "get") /\ Ends(t) /\ Body(t).through
Drops(t) == IF In(t, "put") THEN TRUE ELSE Body(t).get[Top(t).at].drop
Current(t) ==
  IF Top(t).phase = "get" THEN Body(t).get[Top(t).at].what
                          ELSE Body(t).put[Top(t).at]

\* Where the cleanup that begins at a label is in the list of releases.
Place(put, label) ==
  IF \E i \in DOMAIN put : put[i] = label
    THEN CHOOSE i \in DOMAIN put : put[i] = label
    ELSE Len(put) + 1

\* The frame after its step in the body failed, and after a step went well.
Cleanup(f) ==
  LET step == Code[f.proc].get[f.at] IN
  IF step.label = "continue" THEN [f EXCEPT !.at = @ + 1]
  ELSE [f EXCEPT !.phase = "put", !.at = Place(Code[f.proc].put, step.label),
                 !.result = IF step.quiet THEN "ok" ELSE "err"]
Onward(f) == [f EXCEPT !.at = @ + 1]

Begin(t, p) ==
  /\ Idle(t) /\ stack' = [stack EXCEPT ![t] = <<Frame(p)>>]
  /\ refusals' = IF \A u \in DOMAIN stack : Idle(u) THEN 0 ELSE refusals

Skipped(r) ==
  \/ r \in absent
  \/ r \in Once /\ r \in known
  \/ r \in DOMAIN Only /\ Only[r] \notin known

Acquire(t) ==
  /\ ~Idle(t) /\ ~Ends(t) /\ Current(t) \in Resources /\ ~Drops(t)
  /\ LET r == Current(t) IN
       /\ r \in Exclusive => (held[r] = 0 \/ Skipped(r))
       /\ held' = IF Skipped(r) \/ r \in Checks THEN held
                  ELSE [held EXCEPT ![r] = @ + 1]
       /\ known' = IF Skipped(r) THEN known
                   ELSE known \cup ({r} \cap Recorded)
  /\ stack' = [stack EXCEPT ![t][1] = Onward(@)]
  /\ UNCHANGED <<refused, refusals, failed, over>>

Refuse(t) ==
  /\ ~Idle(t) /\ ~Ends(t) /\ Current(t) \in Resources /\ ~Drops(t)
  /\ ~Skipped(Current(t)) /\ Current(t) \notin Certain
  /\ \/ Current(t) \in Exclusive /\ held[Current(t)] > 0
     \/ ~reliable /\ refusals < MaxRefusals
  /\ refusals' = IF refusals < MaxRefusals THEN refusals + 1 ELSE refusals
  /\ refused' = refused \cup ({Current(t)} \cap {KeptIf[r] : r \in DOMAIN KeptIf})
  /\ failed' = failed \cup
       {Noted[f] : f \in {<<Top(t).proc, Current(t)>>} \cap DOMAIN Noted}
  /\ stack' = [stack EXCEPT ![t][1] = Cleanup(@)]
  /\ UNCHANGED <<held, known, over>>

Call(t) ==
  /\ ~Idle(t) /\ ~Ends(t) /\ Current(t) \in DOMAIN Code
  /\ stack' = [stack EXCEPT ![t] = IF Current(t) \in absent
                 THEN <<Onward(Top(t))>> \o Tail(@)
                 ELSE <<Frame(Current(t))>> \o @]
  /\ UNCHANGED <<held, known, refused, refusals, failed, over>>

Kept(r) ==
  \/ r \in absent
  \/ r \in Recorded /\ r \notin known
  \/ r \in DOMAIN KeptIf /\ KeptIf[r] \in refused

Release(t) ==
  /\ ~Idle(t) /\ ~Ends(t) /\ Current(t) \in Resources /\ Drops(t)
  /\ LET r == Current(t) IN
       /\ held' = [x \in Resources |->
            IF r = Owner /\ x \in Inner THEN 0
            ELSE IF x # r \/ Kept(r) \/ held[r] = 0 THEN held[x]
            ELSE held[r] - 1]
       /\ over' = IF ~Kept(r) /\ held[r] = 0 THEN over \cup {r} ELSE over
       /\ known' = IF r = Owner THEN {} ELSE known \ ({r} \ Sticky)
       /\ refused' = IF r = Owner THEN {} ELSE refused
       /\ stack' = [stack EXCEPT ![t][1].at =
            IF r \in Counted /\ held[r] # 1
              THEN Len(Body(t)[Top(t).phase]) + 1 ELSE @ + 1]
  /\ UNCHANGED <<refusals, failed>>

\* The end of a body whose labels follow at once.
Fall(t) ==
  /\ Falls(t)
  /\ stack' = [stack EXCEPT ![t][1].phase = "put", ![t][1].at = 1]
  /\ UNCHANGED <<held, known, refused, refusals, failed, over>>

\* A function returns; its caller goes on, or cleans up if it failed.
Return(t) ==
  /\ ~Idle(t) /\ Ends(t) /\ ~Falls(t)
  /\ LET rest == Tail(stack[t]) IN
     stack' = [stack EXCEPT ![t] =
       IF rest = << >> THEN << >>
       ELSE << IF Top(t).result = "err" /\ rest[1].phase = "get"
                 THEN Cleanup(rest[1]) ELSE Onward(rest[1]) >> \o Tail(rest)]
  /\ UNCHANGED <<held, known, refused, refusals, failed, over>>

Run(t) == Acquire(t) \/ Refuse(t) \/ Call(t) \/ Release(t) \/ Fall(t) \/ Return(t)

\* t is about to leave its outermost function with this result.
Leaves(t, result) ==
  ~Idle(t) /\ Len(stack[t]) = 1 /\ Ends(t) /\ ~Falls(t) /\ Top(t).result = result
=============================================================================
