--------------------------- MODULE ManagedLifecycle ---------------------------
(***************************************************************************)
(* What the user of a PodAutoscaler is promised about its life: when the   *)
(* controller may touch pods, when the resource goes away, and that what   *)
(* its status reports only moves forward.  Nothing here says how: caches,  *)
(* the queue, retries and crashes are Reconciler's, which implements this  *)
(* specification (ReconcilerRefinement).                                   *)
(***************************************************************************)
EXTENDS Naturals

CONSTANT Pods

VARIABLES
    phase,       \* "absent", "unheld", "held" by the finalizer, "releasing"
    inc,         \* how often the name has been created
    gen,         \* edits of this incarnation
    reported,    \* status: [total, observed]
    working,     \* the controller is at work on pods for this resource
    annotated,   \* pods that carry the controller's annotation
    applied      \* updates of pods made for this incarnation

vars == <<phase, inc, gen, reported, working, annotated, applied>>

Blank == [total |-> 0, observed |-> 0]

Held == phase \in {"held", "releasing"}

Init ==
    /\ phase = "absent" /\ inc = 0 /\ gen = 0 /\ reported = Blank
    /\ working = FALSE /\ annotated = {} /\ applied = 0

\* Annotations go when the controller cleans up or the pod ends, at any time.
Forgets == annotated' \subseteq annotated

Create ==
    /\ phase = "absent"
    /\ phase' = "unheld" /\ inc' = inc + 1 /\ gen' = 1 /\ reported' = Blank
    /\ applied' = 0
    /\ UNCHANGED <<working, annotated>>

Edit ==
    /\ phase # "absent"
    /\ gen' = gen + 1
    /\ UNCHANGED <<phase, inc, reported, working, annotated, applied>>

\* A resource the controller does not hold is gone at once; one it holds
\* stays until it is released.
Delete ==
    \/ /\ phase = "unheld"
       /\ phase' = "absent" /\ gen' = 0 /\ reported' = Blank
       /\ UNCHANGED <<inc, working, annotated, applied>>
    \/ /\ phase = "held"
       /\ phase' = "releasing" /\ gen' = gen + 1
       /\ UNCHANGED <<inc, reported, working, annotated, applied>>

\* From here on the resource is the controller's to let go.
Hold ==
    /\ phase = "unheld"
    /\ phase' = "held" /\ working' \in BOOLEAN
    /\ UNCHANGED <<inc, gen, reported, annotated, applied>>

\* Work starts on a resource that is held and ends at any time.
Begin ==
    /\ Held
    /\ working' = TRUE
    /\ UNCHANGED <<phase, inc, gen, reported, annotated, applied>>

End ==
    /\ working
    /\ working' = FALSE
    /\ UNCHANGED <<phase, inc, gen, reported, annotated, applied>>

\* One pod is updated or marked.
Work ==
    /\ working
    /\ applied' \in {applied, applied + 1}
    /\ \E p \in Pods : annotated' \subseteq annotated \cup {p}
    /\ UNCHANGED <<phase, inc, gen, reported, working>>

\* What was done is reported; neither number ever goes back.
Report ==
    /\ working
    /\ reported' \in [total : Nat, observed : 0 .. gen]
    /\ reported'.total >= reported.total
    /\ reported'.observed >= reported.observed
    /\ working' \in BOOLEAN
    /\ UNCHANGED <<phase, inc, gen, annotated, applied>>

\* The resource is let go when no work is under way for it.
Release ==
    /\ phase = "releasing" /\ ~working
    /\ phase' = "absent" /\ gen' = 0 /\ reported' = Blank
    /\ UNCHANGED <<inc, working, annotated, applied>>

Forget ==
    /\ Forgets
    /\ UNCHANGED <<phase, inc, gen, reported, working, applied>>

Next ==
    \/ Create \/ Edit \/ Delete \/ Hold \/ Begin \/ End \/ Work \/ Report
    \/ Release \/ Forget

Spec == Init /\ [][Next]_vars
=============================================================================
