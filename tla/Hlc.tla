-------------------------------- MODULE Hlc --------------------------------
(***************************************************************************)
(* Qu Lite: the hybrid logical clock (packages/lite/src/hlc.js) of several *)
(* devices whose wall clocks disagree and are set forward and back.        *)
(*                                                                         *)
(* An HLC is <<ms, counter>>; its fixed-width string orders the same way.  *)
(* A clock lives in memory: what a restart makes of it is not modelled.    *)
(***************************************************************************)
EXTENDS Naturals, FiniteSets

CONSTANTS
  Device,
  MaxCounter,  \* 0xffff in the code
  MaxDriftMs,
  MaxMs,       \* bound: readings of a wall clock
  MaxTicks,    \* bound: HLCs issued
  MaxReceipts  \* bound: HLCs received

VARIABLES
  wall,    \* device -> what now() answers
  clock,   \* device -> <<lastMs, counter>>
  top,     \* device -> the highest wall clock it has read (history)
  carries, \* device -> overflows of its counter (history)
  seen,    \* device -> HLCs it has issued or accepted (history)
  issued,  \* every HLC issued, by whom, and what that clock had seen (history)
  receipts

vars == <<wall, clock, top, carries, seen, issued, receipts>>

Less(g, h) == g[1] < h[1] \/ (g[1] = h[1] /\ g[2] < h[2])
Later(g, h) == IF Less(g, h) THEN h ELSE g

-----------------------------------------------------------------------------
(* Plausible bugs in the operators of the next section, for mutation runs. *)

Wrapped(c) == <<c[1], (c[2] + 1) % (MaxCounter + 1)>>  \* no carry
AnyDrift(h, now) == TRUE
-----------------------------------------------------------------------------
(* advance() when the wall clock is not ahead. *)
Counted(c) == IF c[2] + 1 > MaxCounter THEN <<c[1] + 1, 0>> ELSE <<c[1], c[2] + 1>>

(* recv(): what is further in the future is refused. *)
Plausible(h, now) == h[1] <= now + MaxDriftMs

-----------------------------------------------------------------------------
HLC == Nat \X (0..MaxCounter)

TypeOK ==
  /\ wall \in [Device -> 0..MaxMs] /\ clock \in [Device -> HLC]
  /\ top \in [Device -> 0..MaxMs] /\ carries \in [Device -> Nat]
  /\ seen \in [Device -> SUBSET HLC]
  /\ issued \subseteq [h: HLC, by: Device, after: SUBSET HLC]
  /\ receipts \in 0..MaxReceipts

Init ==
  /\ wall = [d \in Device |-> 0] /\ clock = [d \in Device |-> <<0, 0>>]
  /\ top = [d \in Device |-> 0] /\ carries = [d \in Device |-> 0]
  /\ seen = [d \in Device |-> {}] /\ issued = {} /\ receipts = 0

(* advance() *)
Advanced(c, now) == IF now > c[1] THEN <<now, 0>> ELSE Counted(c)
Carried(c, now) == IF now <= c[1] /\ c[2] = MaxCounter THEN 1 ELSE 0

Moved(d, c) ==
  /\ clock' = [clock EXCEPT ![d] = Advanced(c, wall[d])]
  /\ carries' = [carries EXCEPT ![d] = @ + Carried(c, wall[d])]
  /\ top' = [top EXCEPT ![d] = IF wall[d] > @ THEN wall[d] ELSE @]

Tick(d) ==
  /\ Cardinality(issued) < MaxTicks
  /\ Moved(d, clock[d])
  /\ issued' = issued \cup {[h |-> clock'[d], by |-> d, after |-> seen[d]]}
  /\ seen' = [seen EXCEPT ![d] = @ \cup {clock'[d]}]
  /\ UNCHANGED <<wall, receipts>>

(* recv() of an HLC that another device issued; it may come again. *)
Recv(d, h) ==
  /\ receipts < MaxReceipts /\ receipts' = receipts + 1
  /\ IF Plausible(h, wall[d])
     THEN Moved(d, Later(clock[d], h)) /\ seen' = [seen EXCEPT ![d] = @ \cup {h}]
     ELSE UNCHANGED <<clock, carries, top, seen>>
  /\ UNCHANGED <<wall, issued>>

(* Time passes, or the wall clock is set. *)
SetWall(d, ms) ==
  /\ ms # wall[d] /\ wall' = [wall EXCEPT ![d] = ms]
  /\ UNCHANGED <<clock, top, carries, seen, issued, receipts>>

Next ==
  \/ \E d \in Device : Tick(d) \/ (\E ms \in 0..MaxMs : SetWall(d, ms))
  \/ \E d \in Device, r \in issued : r.by # d /\ Recv(d, r.h)

Spec == Init /\ [][Next]_vars

-----------------------------------------------------------------------------
(***************************************************************************)
(* "Strictly greater than every HLC this clock has issued or received"     *)
(* (hlc.js:48), over counter overflows and a wall clock set back.          *)
(***************************************************************************)
IssuedGrow == \A r \in issued : \A g \in r.after : Less(g, r.h)

(***************************************************************************)
(* "One device with a wrong clock can't drag everyone's clock forward"     *)
(* (hlc.js:31): a clock is ahead of the highest time its own wall clock    *)
(* ever showed by the drift and its own overflows at most, however the     *)
(* others pass a wrong time on among themselves.                           *)
(***************************************************************************)
DriftBounded == \A d \in Device : clock[d][1] <= top[d] + MaxDriftMs + carries[d]
=============================================================================
