--------------------------- MODULE FrameAllocator ---------------------------
(***************************************************************************)
(* What the physical memory manager promises: a fixed set of frames, each  *)
(* of which is either free or held by exactly one client.  Allocation      *)
(* takes the lowest run of free frames that is long enough and fails only  *)
(* when there is none; a release of held frames may be refused, but never  *)
(* half done.  Frames are numbered; frame p starts at address p * PageSize.*)
(***************************************************************************)
EXTENDS Naturals, FiniteSets

CONSTANTS Frames,       \* the frames that there may be
          MaxCount      \* the longest run that a client asks for

VARIABLES managed, free

vars == <<managed, free>>

Run(p, n) == p..(p + n - 1)

\* The runs of n free frames start at these frames.
Runs(n) == {p \in free : Run(p, n) \subseteq free}

Init == managed = {} /\ free = {}

\* The memory map is read once.
Start ==
  /\ managed = {}
  /\ managed' \in SUBSET Frames
  /\ free' = managed'

Allocate(n) ==
  /\ \E p \in Runs(n) :
       /\ \A q \in Runs(n) : p <= q
       /\ free' = free \ Run(p, n)
  /\ UNCHANGED managed

\* Only frames that are managed and not free can be released.
Release(p, n) ==
  /\ Run(p, n) \subseteq managed \ free
  /\ free' = free \cup Run(p, n)
  /\ UNCHANGED managed

Next ==
  \/ Start
  \/ \E n \in 1..MaxCount : Allocate(n)
  \/ \E p \in Frames, n \in 1..MaxCount : Release(p, n)

Spec == Init /\ [][Next]_vars
=============================================================================
