------------------------------ MODULE Singleton ------------------------------
(***************************************************************************)
(* singleton<T> (include/singleton/singleton.hpp): one owning pointer.     *)
(* T's constructor and destructor may themselves call get, create and      *)
(* destroy, so a call is a stack of frames, the innermost first.           *)
(***************************************************************************)
EXTENDS Integers, Sequences, FiniteSets

CONSTANTS MaxObjects,   \* bound: the objects that are ever constructed
          MaxFrames     \* bound: how deep the calls nest

SingletonAssumption == {MaxObjects, MaxFrames} \subseteq Nat \ {0}

VARIABLES instance,   \* instance_: an object, or 0
          frames,     \* the constructors and destructors that are running
          made,       \* how many objects were constructed
          deleted     \* how often each object was deleted

vars == <<instance, frames, made, deleted>>

Objects == 1..MaxObjects

\* what: "construct" for the constructor make_unique runs, "delete" for the
\* destructor delete runs, "reset" for one that an assignment to instance_ runs.
Frame == [what : {"construct", "delete", "reset"}, of : Objects]

Init ==
    /\ instance = 0
    /\ frames = <<>>
    /\ made = 0
    /\ deleted = [o \in Objects |-> 0]

Running(what) == frames # <<>> /\ Head(frames).what = what

Mark(o) == [deleted EXCEPT ![o] = @ + 1]

Called(what, o) == <<[what |-> what, of |-> o]>>

\* Assigning to a unique_ptr stores the pointer and then deletes the object it
\* owned before; rest are the frames below.
Assign(o, rest) ==
    /\ instance' = o
    /\ IF instance = 0 THEN frames' = rest /\ UNCHANGED deleted
       ELSE /\ frames' = Called("reset", instance) \o rest
            /\ deleted' = Mark(instance)

\* create(), and get() without an instance: make_unique begins.  With an
\* instance neither changes anything.
Create ==
    /\ instance = 0
    /\ made < MaxObjects /\ Len(frames) < MaxFrames
    /\ made' = made + 1
    /\ frames' = Called("construct", made + 1) \o frames
    /\ UNCHANGED <<instance, deleted>>

\* The constructor returns, and its object becomes the instance.
Constructed ==
    /\ Running("construct")
    /\ Assign(Head(frames).of, Tail(frames))
    /\ UNCHANGED made

\* Mutation: the pointer is read, not released.
Destroy_Keeps ==
    /\ instance # 0
    /\ Len(frames) < MaxFrames
    /\ deleted' = Mark(instance)
    /\ frames' = Called("delete", instance) \o frames
    /\ UNCHANGED <<made, instance>>

\* destroy(): the instance is released, then deleted.
Destroy ==
    /\ instance # 0
    /\ Len(frames) < MaxFrames
    /\ deleted' = Mark(instance)
    /\ frames' = Called("delete", instance) \o frames
    /\ instance' = 0
    /\ UNCHANGED made

\* delete is back: instance_ = nullptr, whatever has become of it meanwhile.
Destroyed ==
    /\ Running("delete")
    /\ Assign(0, Tail(frames))
    /\ UNCHANGED made

\* The destructor of the object that an assignment has replaced returns.
Replaced ==
    /\ Running("reset")
    /\ frames' = Tail(frames)
    /\ UNCHANGED <<instance, made, deleted>>

Next == Create \/ Constructed \/ Destroy \/ Destroyed \/ Replaced

Spec == Init /\ [][Next]_vars

----------------------------------------------------------------------------
(* Properties *)

TypeOK ==
    /\ instance \in 0..MaxObjects
    /\ frames \in Seq(Frame)
    /\ made \in 0..MaxObjects
    /\ deleted \in [Objects -> Nat]

UnderConstruction(o) == \E x \in DOMAIN frames : frames[x] = [what |-> "construct", of |-> o]

\* However constructors and destructors call back, every object is deleted at
\* most once, and one that is complete and not deleted is the instance: none is
\* leaked by the pointers that destroy() and an assignment pass over (lines 52
\* and 58-60).
EveryObjectIsOwned ==
    \A o \in 1..made :
       /\ deleted[o] <= 1
       /\ deleted[o] = 0 <=> (o = instance \/ UnderConstruction(o))

=============================================================================
