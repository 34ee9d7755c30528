------------------------------- MODULE Signal -------------------------------
(***************************************************************************)
(* One yash::signal, the callbacks connected to it and the connection      *)
(* objects that refer to those.  Slots are user code: while one runs it    *)
(* may connect and disconnect slots of the same signal, emit the signal    *)
(* again or destroy it, the signal being a member of an object whose last  *)
(* reference the slot drops.                                               *)
(*                                                                         *)
(* A callback is shared: the signal's vector holds it, and so does an      *)
(* emission while it runs it.  Everything else, the connections and the    *)
(* emissions that still have it to do, holds a weak pointer.               *)
(***************************************************************************)
EXTENDS Integers, Sequences, SequencesExt

CONSTANTS
  Slots,        \* the callbacks the program connects, each of them once
  NoSlot,       \* "the emission is between two slots"
  Handles,      \* the copies of the connection object of a callback
  AutoHandles,  \* those of them that an auto_connection holds
  MaxDepth      \* bound: emissions of the signal that are nested

ASSUME NoSlotAssumption == NoSlot \notin Slots
ASSUME AutoAssumption == AutoHandles \subseteq Handles
ASSUME MaxDepthAssumption == MaxDepth \in Nat \ {0}

VARIABLES
  alive,      \* does the signal exist?
  cb,         \* cb_: the connected callbacks, oldest first
  made,       \* the callbacks that were ever created
  owner,      \* the callbacks whose owner and function are set
  handles,    \* the connection copies whose weak pointer is set
  frames,     \* the active emissions, innermost last
  fault       \* how the process ended, if it did

vars == <<alive, cb, made, owner, handles, frames, fault>>

Faults == {"none", "empty_call", "invalid_callback"}

Frame == [todo   : Seq(Slots),            \* tmp, from the iterator on
          cur    : Slots \cup {NoSlot},   \* the callback it locked and runs
          known  : SUBSET Slots,          \* history: made when it began
          called : Seq(Slots)]            \* history: the slots it called

Top == frames[Len(frames)]

\* The innermost emission, changed.
WithTop(f) == [frames EXCEPT ![Len(frames)] = f]

\* weak_ptr::lock() succeeds.
Locks(s) == s \in ToSet(cb) \/ \E i \in DOMAIN frames : frames[i].cur = s

\* User code runs outside every emission and inside a slot.
InUserCode ==
  /\ fault = "none"
  /\ frames # <<>> => Top.cur # NoSlot

\* connection::connected()
Connected(s, h) == h \in handles[s] /\ Locks(s)

-----------------------------------------------------------------------------

\* Mutant: the emissions iterate over the vector itself, and find new slots
\* at its end.
Connect_SeenByEmissions(s) ==
  /\ InUserCode /\ alive /\ s \notin made
  /\ made'    = made \cup {s}
  /\ owner'   = owner \cup {s}
  /\ cb'      = Append(cb, s)
  /\ handles' = [handles EXCEPT ![s] = Handles]
  /\ frames'  = [i \in DOMAIN frames |-> [frames[i] EXCEPT !.todo = Append(@, s)]]
  /\ UNCHANGED <<alive, fault>>

\* signal::connect(): a new callback, at the end of the vector.
Connect(s) ==
  /\ InUserCode /\ alive /\ s \notin made
  /\ made'    = made \cup {s}
  /\ owner'   = owner \cup {s}
  /\ cb'      = Append(cb, s)
  /\ handles' = [handles EXCEPT ![s] = Handles]
  /\ UNCHANGED <<alive, frames, fault>>

\* Mutant: the callback is reset but not erased.
DelCallback_NoErase(s) == cb

\* signal::del_callback()
DelCallback(s) == RemoveAt(cb, CHOOSE i \in DOMAIN cb : cb[i] = s)

\* connection::disconnect() of copy h.  The callback leaves the vector of
\* its owner and loses its function; an emission that runs it keeps it.
\* The copy forgets it; the other copies do not.  A callback that an
\* emission keeps while its signal is destroyed still points to the signal,
\* and disconnecting it then searches the vector of a dead object.
Disconnect(s, h) ==
  /\ InUserCode /\ Connected(s, h)
  /\ \/ /\ s \in owner /\ alive
        /\ cb'    = DelCallback(s)
        /\ owner' = owner \ {s}
        /\ UNCHANGED fault
     \/ /\ s \in owner /\ ~alive
        /\ fault' = "invalid_callback"
        /\ UNCHANGED <<cb, owner>>
     \/ /\ s \notin owner
        /\ UNCHANGED <<cb, owner, fault>>
  /\ handles' = [handles EXCEPT ![s] = @ \ {h}]
  /\ UNCHANGED <<alive, made, frames>>

\* Mutant: an auto_connection goes as any connection does.
Drop_AutoForgets(s, h) ==
  /\ InUserCode /\ h \in handles[s]
  /\ handles' = [handles EXCEPT ![s] = @ \ {h}]
  /\ UNCHANGED <<alive, cb, made, owner, frames, fault>>

\* A copy of the connection goes out of scope.  An auto_connection
\* disconnects the slot; any other copy only forgets it, as an
\* auto_connection does whose callback is gone.
Drop(s, h) ==
  \/ h \in AutoHandles /\ Disconnect(s, h)
  \/ /\ InUserCode /\ h \in handles[s]
     /\ h \in AutoHandles => ~Connected(s, h)
     /\ handles' = [handles EXCEPT ![s] = @ \ {h}]
     /\ UNCHANGED <<alive, cb, made, owner, frames, fault>>

\* Mutant: the callbacks outlive the signal.
Destroy_KeepsCallbacks ==
  /\ InUserCode /\ alive
  /\ alive' = FALSE
  /\ UNCHANGED <<cb, made, owner, handles, frames, fault>>

\* ~signal(): the vector goes, and with it every callback no emission runs.
\* Their owner pointers stay as they are.
Destroy ==
  /\ InUserCode /\ alive
  /\ alive' = FALSE
  /\ cb'    = <<>>
  /\ UNCHANGED <<made, owner, handles, frames, fault>>

\* What an emission iterates over: a copy of the vector.
Snapshot == cb

\* signal::operator(): the copy is made, the loop begins.
Emit ==
  /\ InUserCode /\ alive /\ Len(frames) < MaxDepth
  /\ frames' = Append(frames, [todo |-> Snapshot, cur |-> NoSlot,
                               known |-> made, called |-> <<>>])
  /\ UNCHANGED <<alive, cb, made, owner, handles, fault>>

\* The loop runs, between two slots.
Iterating == fault = "none" /\ frames # <<>> /\ Top.cur = NoSlot

\* Mutant: the loop ends at the first callback that is gone.
SkipExpired_Stops ==
  /\ Iterating /\ Top.todo # <<>> /\ ~Locks(Head(Top.todo))
  /\ frames' = WithTop([Top EXCEPT !.todo = <<>>])
  /\ UNCHANGED <<alive, cb, made, owner, handles, fault>>

\* The next callback is gone: the loop goes on.
SkipExpired ==
  /\ Iterating /\ Top.todo # <<>> /\ ~Locks(Head(Top.todo))
  /\ frames' = WithTop([Top EXCEPT !.todo = Tail(@)])
  /\ UNCHANGED <<alive, cb, made, owner, handles, fault>>

\* The next callback is there: it is locked and called.  Calling an empty
\* boost::function throws.
CallSlot ==
  /\ Iterating /\ Top.todo # <<>> /\ Locks(Head(Top.todo))
  /\ LET s == Head(Top.todo)
     IN  /\ frames' = WithTop([Top EXCEPT !.todo = Tail(@), !.cur = s,
                                          !.called = Append(@, s)])
         /\ fault' = IF s \in owner THEN fault ELSE "empty_call"
  /\ UNCHANGED <<alive, cb, made, owner, handles>>

\* A slot returns and the emission lets go of its callback.
SlotReturns ==
  /\ fault = "none" /\ frames # <<>> /\ Top.cur # NoSlot
  /\ frames' = WithTop([Top EXCEPT !.cur = NoSlot])
  /\ UNCHANGED <<alive, cb, made, owner, handles, fault>>

\* The loop is through.
EmitReturns ==
  /\ Iterating /\ Top.todo = <<>>
  /\ frames' = Front(frames)
  /\ UNCHANGED <<alive, cb, made, owner, handles, fault>>

Init ==
  /\ alive = TRUE /\ cb = <<>>
  /\ made = {} /\ owner = {}
  /\ handles = [s \in Slots |-> {}]
  /\ frames = <<>>
  /\ fault = "none"

UserStep ==
  \/ \E s \in Slots : Connect(s) \/ \E h \in Handles : Disconnect(s, h) \/ Drop(s, h)
  \/ Destroy \/ Emit

LoopStep == SkipExpired \/ CallSlot \/ SlotReturns \/ EmitReturns

Next == UserStep \/ LoopStep

Spec == Init /\ [][Next]_vars

-----------------------------------------------------------------------------
(***************************************************************************)
(* Properties                                                              *)
(***************************************************************************)

\* Type correctness, and the shape of the vector: what del_callback() erases is
\* what disconnect() resets, so that the connected callbacks have a function.
TypeOK ==
  /\ alive \in BOOLEAN
  /\ cb \in Seq(Slots)
  /\ made \subseteq Slots /\ ToSet(cb) \subseteq owner /\ owner \subseteq made
  /\ handles \in [Slots -> SUBSET Handles]
  /\ frames \in Seq(Frame) /\ Len(frames) <= MaxDepth
  /\ fault \in Faults

\* A slot that is connected while the signal is being emitted waits for the
\* next emission, however deep the emissions are nested: what the comment at
\* connect() promises.
FreshSlotsWait ==
  \A i \in DOMAIN frames : ToSet(frames[i].called) \subseteq frames[i].known

\* In a sequence, s comes before t.
Before(q, s, t) == \E i, j \in DOMAIN q : i < j /\ q[i] = s /\ q[j] = t

\* Of the slots that are connected, emission f called those it knew, each once
\* and in the order of connection, and no other.
CalledOnceInOrder(f) ==
  /\ \A s \in ToSet(cb) \cap f.known :
       \E i \in DOMAIN f.called : \A j \in DOMAIN f.called : f.called[j] = s <=> j = i
  /\ \A s \in ToSet(cb) \ f.known : s \notin ToSet(f.called)
  /\ \A s, t \in ToSet(cb) : Before(f.called, s, t) => Before(cb, s, t)

\* When an emission returns, every slot that was connected before it began
\* and still is was called, once and in the order of connection, no matter
\* which other slots came and went, the nested emissions included.
EverySlotCalledOnce == [][EmitReturns /\ alive => CalledOnceInOrder(Top)]_vars

\* A callback that was constructed with a function is called with one, as
\* its constructor asserts: the function goes only when the callback is out
\* of the vector and no weak pointer finds it any more.
NoEmptyCall == fault # "empty_call"

\* After the signal was destroyed, in a slot of whatever emission, no slot is
\* called any more that is not running already: the object that the slots
\* belong to may be gone with the signal.  A running one can be met again by
\* an emission nested in it.
DestroyedIsSilent ==
  [][CallSlot /\ ~alive =>
       \E i \in 1..(Len(frames) - 1) : frames[i].cur = Head(Top.todo)]_vars

\* An auto_connection bounds the life of its slot: when it is gone, by the end
\* of its scope or disconnected before, the slot is not in the signal any more
\* and no emission has it to do, except one that is running it or that finds
\* it through one that does.
AutoBoundsSlot ==
  \A s \in made :
    alive /\ fault = "none" /\ AutoHandles \cap handles[s] # AutoHandles =>
      /\ s \notin ToSet(cb)
      /\ Locks(s) => \E i \in DOMAIN frames : frames[i].cur = s

=============================================================================
