-------------------------------- MODULE GpuVm --------------------------------
(***************************************************************************)
(* GPU virtual memory as the shim gives it to NVK.  A buffer object (BO)   *)
(* may be bound at many addresses, by parts, and each binding lasts until  *)
(* its address is unbound, with one exception: destroying a BO ends what   *)
(* is bound, by then, at the address where that BO was last bound.  That   *)
(* may be a binding of another BO, if the client gave it the address; and  *)
(* the other bindings of the destroyed BO stay, of no BO.  No other event  *)
(* changes a binding: not the creation of a BO, nor the end of one that    *)
(* was never bound.  DrmShimDevice is shown to implement this.             *)
(***************************************************************************)
EXTENDS Integers

CONSTANTS
  Bos,    \* names of BOs; 0 is not one of them
  Pages,  \* pages of the address arena handed to the driver's VA heap
  Lens,   \* lengths a binding may have, in pages
  Gone    \* whose a binding is after the end of its BO

VARIABLES
  live,   \* the BOs that exist
  binds,  \* for each page, the binding that begins there
  last    \* for each BO, the page it was last bound at, 0 if never

vmVars == <<live, binds, last>>

Unbound == [obj |-> 0, len |-> 0]

Covered(p) == p .. (p + binds[p].len - 1)

Init ==
  /\ live = {}
  /\ binds = [p \in Pages |-> Unbound]
  /\ last = [b \in Bos |-> 0]

Create(S) ==
  /\ S \cap live = {}
  /\ live' = live \cup S
  /\ UNCHANGED <<binds, last>>

(* What the end of the BOs of S leaves of the binding that begins at p. *)
After(S, p) ==
  IF \E b \in S : last[b] = p THEN Unbound
  ELSE IF binds[p].obj \in S THEN [binds[p] EXCEPT !.obj = Gone] ELSE binds[p]

Destroy(S) ==
  /\ S \subseteq live
  /\ live' = live \ S
  /\ binds' = [p \in Pages |-> After(S, p)]
  /\ last' = [b \in Bos |-> IF b \in S THEN 0 ELSE last[b]]

(* A binding is made of a live BO, and never over pages already bound. *)
Bind(b, p, len) ==
  /\ b \in live
  /\ p .. (p + len - 1) \subseteq Pages
  /\ \A q \in Pages : Covered(q) \cap (p .. (p + len - 1)) = {}
  /\ binds' = [binds EXCEPT ![p] = [obj |-> b, len |-> len]]
  /\ last' = [last EXCEPT ![b] = p]
  /\ UNCHANGED live

Unbind(p) ==
  /\ binds' = [binds EXCEPT ![p] = Unbound]
  /\ UNCHANGED <<live, last>>

(* The address space goes with its last user, who has no BO any more. *)
Shutdown ==
  /\ live = {}
  /\ binds' = [p \in Pages |-> Unbound]
  /\ UNCHANGED <<live, last>>

Next ==
  \/ \E S \in SUBSET Bos : Create(S) \/ Destroy(S)
  \/ \E b \in Bos, p \in Pages, len \in Lens : Bind(b, p, len)
  \/ \E p \in Pages : Unbind(p)
  \/ Shutdown

Spec == Init /\ [][Next]_vmVars
==============================================================================
